---------------------------- MODULE ConsoleProofs ----------------------------
(***************************************************************************)
(* The keyboard's ring, the shell's line and the screen agree, for every    *)
(* size of the ring, the line, the history and the terminal.                *)
(***************************************************************************)
EXTENDS Console, SequenceTheorems, Induction

-----------------------------------------------------------------------------
(* The terminal.                                                            *)

\* What can be on the screen.
Grid == [0 .. Rows - 1 -> [0 .. Cols - 1 -> Glyphs]]

\* Terminals: the cursor is within the grid.
Terms == [grid : Grid, row : 0 .. Rows - 1, col : 0 .. Cols - 1,
          state : {"normal", "esc", "csi"}, param : Params]

\* A terminal whose cursor may be just beyond the edge, about to wrap.
Wide == [grid : Grid, row : 0 .. Rows - 1, col : 0 .. Cols,
         state : {"normal", "esc", "csi"}, param : Params]

\* The rows below the cursor's are blank.
BlankBelow(t) == \A r \in t.row + 1 .. Rows - 1, c \in 0 .. Cols - 1 : t.grid[r][c] = Blank

\* The terminal expects a character, and has none from the cursor on.
Clean(t) ==
  /\ t \in Terms /\ t.state = "normal" /\ BlankBelow(t)
  /\ \A c \in t.col .. Cols - 1 : t.grid[t.row][c] = Blank

\* That a sequence has no parameter yet, and clear's parameter, are parameters.
LEMMA ParamsHave == NoParam \in Params /\ 2 \in Params
BY TermAssumption DEF Params

\* A terminal stays one in any state and with any parameter.
LEMMA InState ==
  ASSUME NEW t \in Terms, NEW x \in {"normal", "esc", "csi"}, NEW u, u = [t EXCEPT !.state = x]
  PROVE  /\ u \in Terms /\ u.state = x /\ u.param = t.param
         /\ u.grid = t.grid /\ u.row = t.row /\ u.col = t.col
BY DEF Terms

LEMMA WithParam ==
  ASSUME NEW t \in Terms, NEW p \in Params, NEW u, u = [t EXCEPT !.param = p]
  PROVE  /\ u \in Terms /\ u.state = t.state /\ u.param = p
         /\ u.grid = t.grid /\ u.row = t.row /\ u.col = t.col
BY DEF Terms

\* It expects the rest of an escape sequence,
LEMMA Escaped ==
  ASSUME NEW t \in Terms, t.state = "normal", NEW u, u = TermPut(t, "ESC")
  PROVE  u \in Terms /\ u.state = "esc" /\ u.grid = t.grid /\ u.row = t.row /\ u.col = t.col
<1>1. u = [t EXCEPT !.state = "esc"]
  BY DEF TermPut, Plain
<1>2. "esc" \in {"normal", "esc", "csi"}
  OBVIOUS
<1> QED
  BY <1>1, <1>2, InState

\* and then its parameter.
LEMMA Bracketed ==
  ASSUME NEW t \in Terms, t.state = "esc", NEW u, u = TermPut(t, "[")
  PROVE  /\ u \in Terms /\ u.state = "csi" /\ u.param = NoParam
         /\ u.grid = t.grid /\ u.row = t.row /\ u.col = t.col
<1> DEFINE v == [t EXCEPT !.state = "csi"]
<1>1. u = [v EXCEPT !.param = NoParam]
  BY DEF TermPut, Terms
<1>2. "csi" \in {"normal", "esc", "csi"}
  OBVIOUS
<1> HIDE DEF v
<1>3. /\ v \in Terms /\ v.state = "csi"
      /\ v.grid = t.grid /\ v.row = t.row /\ v.col = t.col
  BY <1>2, InState DEF v
<1> QED
  BY <1>1, <1>3, WithParam, ParamsHave

\* What sizes are.
LEMMA Sizes == Cols \in Nat \ {0} /\ Rows \in Nat \ {0} /\ TabStop \in Nat \ {0}
BY TermAssumption

\* A row without characters.
LEMMA BlankRowIs ==
  BlankRow \in [0 .. Cols - 1 -> Glyphs] /\ \A c \in 0 .. Cols - 1 : BlankRow[c] = Blank
<1>1. Blank \in Glyphs
  BY TermAssumption
<1> QED
  BY <1>1 DEF BlankRow

\* A terminal starts clean (term_init).
LEMMA FreshIs == Clean(FreshTerm)
<1> DEFINE g == [r \in 0 .. Rows - 1 |-> BlankRow]
<1>1. g \in Grid /\ \A r \in 0 .. Rows - 1, c \in 0 .. Cols - 1 : g[r][c] = Blank
  BY BlankRowIs DEF Grid
<1>2. FreshTerm = [grid |-> g, row |-> 0, col |-> 0, state |-> "normal", param |-> NoParam]
  BY DEF FreshTerm
<1> HIDE DEF g
<1>3. FreshTerm \in Terms
  BY <1>1, <1>2, Sizes, ParamsHave DEF Terms
<1> QED
  BY <1>1, <1>2, <1>3, Sizes DEF Clean, BlankBelow

\* A new line is a blank one.
LEMMA NewlineIs ==
  ASSUME NEW t \in Wide, t.state = "normal", BlankBelow(t)
  PROVE  Clean(Newline(t))
<1> DEFINE up == [r \in 0 .. Rows - 1 |-> IF r = Rows - 1 THEN BlankRow ELSE t.grid[r + 1]]
<1>1. /\ t.grid \in Grid /\ t.row \in 0 .. Rows - 1 /\ t.param \in Params
      /\ 0 \in 0 .. Cols - 1 /\ Rows \in Nat \ {0} /\ Cols \in Nat \ {0}
  BY Sizes DEF Wide
<1>2. CASE t.row + 1 < Rows
  <2> DEFINE u == [t EXCEPT !.col = 0, !.row = @ + 1]
  <2>1. Newline(t) = u
    BY <1>2 DEF Newline
  <2>2. u.grid = t.grid /\ u.row = t.row + 1 /\ u.col = 0 /\ u.state = "normal" /\ u \in Terms
    <3>1. t.row + 1 \in 0 .. Rows - 1
      BY <1>1, <1>2
    <3> QED
      BY <1>1, <3>1 DEF Terms, Wide
  <2> HIDE DEF u
  <2>3. \A r \in t.row + 1 .. Rows - 1, c \in 0 .. Cols - 1 : t.grid[r][c] = Blank
    BY DEF BlankBelow
  <2>4. t.row \in Nat /\ t.row + 1 \in t.row + 1 .. Rows - 1
    BY <1>1, <1>2
  <2>5. BlankBelow(u)
    BY <1>1, <2>2, <2>3, <2>4 DEF BlankBelow
  <2>6. \A c \in u.col .. Cols - 1 : u.grid[u.row][c] = Blank
    BY <2>2, <2>3, <2>4
  <2> QED
    BY <2>1, <2>2, <2>5, <2>6 DEF Clean
<1>3. CASE ~(t.row + 1 < Rows)
  <2> DEFINE u == [t EXCEPT !.col = 0, !.grid = up]
  <2>1. Newline(t) = u
    BY <1>3 DEF Newline
  <2>2. up \in Grid
    <3>1. t.grid \in Grid
      BY <1>1
    <3>2. \A r \in 0 .. Rows - 1 : up[r] \in [0 .. Cols - 1 -> Glyphs]
      <4> SUFFICES ASSUME NEW r \in 0 .. Rows - 1
                   PROVE  up[r] \in [0 .. Cols - 1 -> Glyphs]
        OBVIOUS
      <4>1. CASE r = Rows - 1
        BY <4>1, BlankRowIs
      <4>2. CASE r # Rows - 1
        <5>1. r + 1 \in 0 .. Rows - 1
          BY <4>2, Sizes
        <5> QED
          BY <3>1, <4>2, <5>1 DEF Grid
      <4> QED
        BY <4>1, <4>2
    <3> QED
      BY <3>2 DEF Grid
  <2>3. t.row = Rows - 1 /\ up[Rows - 1] = BlankRow
    BY <1>1, <1>3
  <2> HIDE DEF up
  <2>4. u.grid = up /\ u.row = t.row /\ u.col = 0 /\ u.state = "normal" /\ u \in Terms
    BY <1>1, <2>2 DEF Terms, Wide
  <2> HIDE DEF u
  <2> QED
    BY <1>1, <2>1, <2>3, <2>4, BlankRowIs DEF Clean, BlankBelow
<1> QED
  BY <1>2, <1>3

\* What drawing does to the grid.
LEMMA DrawnIs ==
  ASSUME NEW t \in Terms, NEW from \in Int, NEW to \in Int, NEW ch \in Glyphs
  PROVE  LET u == Drawn(t, from, to, ch)
         IN  /\ u \in Terms /\ u.row = t.row /\ u.col = t.col
             /\ u.state = t.state /\ u.param = t.param
             /\ \A r \in 0 .. Rows - 1, c \in 0 .. Cols - 1 :
                  u.grid[r][c] = IF r = t.row /\ c \in from .. to - 1 THEN ch ELSE t.grid[r][c]
<1> DEFINE old == t.grid
           cells == [k \in 0 .. Cols - 1 |-> IF k \in from .. to - 1 THEN ch ELSE old[t.row][k]]
           g == [old EXCEPT ![t.row] = cells]
<1>1. old \in Grid /\ t.row \in 0 .. Rows - 1
  BY DEF Terms
<1>2. Drawn(t, from, to, ch) = [t EXCEPT !.grid = g]
  BY DEF Drawn, Terms
<1>3. \A c \in 0 .. Cols - 1 : cells[c] = IF c \in from .. to - 1 THEN ch ELSE old[t.row][c]
  OBVIOUS
<1>4. cells \in [0 .. Cols - 1 -> Glyphs]
  BY <1>1 DEF Grid
<1> HIDE DEF cells, old
<1>5. g \in Grid
  BY <1>1, <1>4 DEF Grid
<1>6. \A r \in 0 .. Rows - 1, c \in 0 .. Cols - 1 :
        g[r][c] = IF r = t.row /\ c \in from .. to - 1 THEN ch ELSE old[r][c]
  BY <1>1, <1>3 DEF Grid
<1> HIDE DEF g
<1> QED
  BY <1>2, <1>5, <1>6 DEF Terms, old

\* Drawing and moving the cursor, up to the edge.
LEMMA PutIs ==
  ASSUME NEW t \in Terms, NEW from \in Int, NEW to \in Int, NEW ch \in Glyphs, NEW n \in 0 .. Cols
  PROVE  LET u == [Drawn(t, from, to, ch) EXCEPT !.col = n]
         IN  /\ u \in Wide /\ (n # Cols => u \in Terms)
             /\ u.row = t.row /\ u.col = n /\ u.state = t.state /\ u.param = t.param
             /\ \A r \in 0 .. Rows - 1, c \in 0 .. Cols - 1 :
                  u.grid[r][c] = IF r = t.row /\ c \in from .. to - 1 THEN ch ELSE t.grid[r][c]
<1> DEFINE d == Drawn(t, from, to, ch)
           u == [d EXCEPT !.col = n]
<1>1. /\ d \in Terms /\ d.row = t.row /\ d.state = t.state /\ d.param = t.param
      /\ \A r \in 0 .. Rows - 1, c \in 0 .. Cols - 1 :
           d.grid[r][c] = IF r = t.row /\ c \in from .. to - 1 THEN ch ELSE t.grid[r][c]
  BY DrawnIs
<1> HIDE DEF d
<1>2. u.grid = d.grid /\ u.row = d.row /\ u.col = n /\ u.state = d.state /\ u.param = d.param
  BY <1>1 DEF Terms
<1>3. u \in Wide
  BY <1>1 DEF Terms, Wide
<1>4. n # Cols => n \in 0 .. Cols - 1
  BY Sizes
<1>5. n # Cols => u \in Terms
  BY <1>1, <1>4 DEF Terms
<1> HIDE DEF u
<1>6. /\ u.row = t.row /\ u.col = n /\ u.state = t.state /\ u.param = t.param
      /\ \A r \in 0 .. Rows - 1, c \in 0 .. Cols - 1 :
           u.grid[r][c] = IF r = t.row /\ c \in from .. to - 1 THEN ch ELSE t.grid[r][c]
  BY <1>1, <1>2
<1> QED
  BY <1>3, <1>5, <1>6 DEF u, d

\* A character that prints, or a tab, takes the cursor on to column n.
LEMMA AdvanceIs ==
  ASSUME NEW t, Clean(t), NEW ch \in Glyphs, NEW n \in t.col + 1 .. Cols
  PROVE  LET u == [Drawn(t, t.col, n, ch) EXCEPT !.col = n]
         IN  /\ Clean(Wrapped(u))
             /\ n < Cols =>
                  /\ Wrapped(u).row = t.row /\ Wrapped(u).col = n
                  /\ \A c \in 0 .. Cols - 1 : Wrapped(u).grid[t.row][c] =
                       IF c \in t.col .. n - 1 THEN ch ELSE t.grid[t.row][c]
<1> DEFINE u == [Drawn(t, t.col, n, ch) EXCEPT !.col = n]
<1> SUFFICES /\ Clean(Wrapped(u))
             /\ n < Cols =>
                  /\ Wrapped(u).row = t.row /\ Wrapped(u).col = n
                  /\ \A c \in 0 .. Cols - 1 : Wrapped(u).grid[t.row][c] =
                       IF c \in t.col .. n - 1 THEN ch ELSE t.grid[t.row][c]
  OBVIOUS
<1>1. /\ t \in Terms /\ t.col \in 0 .. Cols - 1 /\ t.row \in 0 .. Rows - 1 /\ t.state = "normal"
      /\ Rows \in Nat \ {0} /\ Cols \in Nat \ {0}
  BY Sizes DEF Clean, Terms
<1>2. n \in 0 .. Cols /\ t.col \in Int /\ n \in Int
  BY <1>1
<1>3. /\ u \in Wide /\ (n # Cols => u \in Terms)
      /\ u.row = t.row /\ u.col = n /\ u.state = t.state
      /\ \A r \in 0 .. Rows - 1, c \in 0 .. Cols - 1 :
           u.grid[r][c] = IF r = t.row /\ c \in t.col .. n - 1 THEN ch ELSE t.grid[r][c]
  BY <1>1, <1>2, PutIs
<1> HIDE DEF u
<1>4. BlankBelow(u)
  BY <1>1, <1>3 DEF Clean, BlankBelow
<1>5. CASE n = Cols
  <2>1. Wrapped(u) = Newline(u)
    BY <1>1, <1>3, <1>5 DEF Wrapped
  <2> QED
    BY <1>1, <1>3, <1>4, <1>5, <2>1, NewlineIs
<1>6. CASE n # Cols
  <2>1. Wrapped(u) = u
    BY <1>1, <1>2, <1>3, <1>6 DEF Wrapped
  <2>2. \A c \in u.col .. Cols - 1 : u.grid[u.row][c] = Blank
    BY <1>1, <1>2, <1>3 DEF Clean
  <2>3. Clean(u)
    BY <1>1, <1>3, <1>4, <1>6, <2>2 DEF Clean
  <2> QED
    BY <1>1, <1>3, <2>1, <2>3
<1> QED
  BY <1>5, <1>6

\* Backspace takes the cursor back over a blank.
LEMMA BackIs ==
  ASSUME NEW t, Clean(t), t.col # 0
  PROVE  LET u == Plain(t, "BS")
         IN  /\ Clean(u) /\ u.row = t.row /\ u.col = t.col - 1
             /\ \A c \in 0 .. Cols - 1 :
                  u.grid[t.row][c] = IF c = t.col - 1 THEN Blank ELSE t.grid[t.row][c]
<1> DEFINE u == [Drawn(t, t.col - 1, t.col, Blank) EXCEPT !.col = t.col - 1]
<1>1. /\ t \in Terms /\ t.col \in 1 .. Cols - 1 /\ t.row \in 0 .. Rows - 1 /\ t.state = "normal"
      /\ Rows \in Nat \ {0} /\ Cols \in Nat \ {0} /\ Blank \in Glyphs
  BY Sizes, TermAssumption DEF Clean, Terms
<1>2. t.col - 1 \in 0 .. Cols /\ t.col - 1 # Cols /\ t.col \in Int /\ t.col - 1 \in Int
  BY <1>1
<1>3. Plain(t, "BS") = u
  <2>1. Drawn(t, t.col - 1, t.col, Blank).col = t.col
    BY <1>1, <1>2, DrawnIs
  <2> QED
    BY <1>1, <2>1 DEF Plain
<1>4. /\ u \in Terms /\ u.row = t.row /\ u.col = t.col - 1 /\ u.state = t.state
      /\ \A r \in 0 .. Rows - 1, c \in 0 .. Cols - 1 :
           u.grid[r][c] = IF r = t.row /\ c \in t.col - 1 .. t.col - 1 THEN Blank ELSE t.grid[r][c]
  BY <1>1, <1>2, PutIs
<1> HIDE DEF u
<1>5. BlankBelow(u)
  BY <1>1, <1>4 DEF Clean, BlankBelow
<1>6. \A c \in u.col .. Cols - 1 : u.grid[u.row][c] = Blank
  BY <1>1, <1>4 DEF Clean
<1> QED
  BY <1>1, <1>3, <1>4, <1>5, <1>6 DEF Clean

\* The smaller and the larger of two numbers.
LEMMA OfTwo ==
  ASSUME NEW a \in Int, NEW b \in Int
  PROVE  /\ Min({a, b}) = IF a <= b THEN a ELSE b
         /\ Max({a, b}) = IF a >= b THEN a ELSE b
<1> DEFINE m == IF a <= b THEN a ELSE b
           n == IF a >= b THEN a ELSE b
<1>1. /\ m \in {a, b} /\ \A x \in {a, b} : m <= x
      /\ \A x \in {a, b} : (\A y \in {a, b} : x <= y) => x = m
  OBVIOUS
<1>2. /\ n \in {a, b} /\ \A x \in {a, b} : n >= x
      /\ \A x \in {a, b} : (\A y \in {a, b} : x >= y) => x = n
  OBVIOUS
<1> HIDE DEF m, n
<1>3. Min({a, b}) = m
  BY <1>1 DEF Min
<1>4. Max({a, b}) = n
  BY <1>2 DEF Max
<1> QED
  BY <1>3, <1>4 DEF m, n

\* The next tab stop is to the right.
LEMMA StopIs ==
  ASSUME NEW col \in 0 .. Cols - 1
  PROVE  Min({Cols, (col \div TabStop + 1) * TabStop}) \in col + 1 .. Cols
<1> DEFINE q == col \div TabStop
           r == col % TabStop
           p == q * TabStop
           stop == (q + 1) * TabStop
<1>1. /\ col \in Nat /\ TabStop \in Nat \ {0} /\ Cols \in Nat /\ col < Cols
  BY Sizes
<1>2. q \in Nat /\ r \in 0 .. TabStop - 1 /\ col = q * TabStop + r
  BY <1>1
<1> HIDE DEF q, r
<1>3. p \in Nat /\ stop = p + TabStop /\ col = p + r
  BY <1>1, <1>2
<1> HIDE DEF p, stop
<1>4. stop \in Int /\ stop > col
  BY <1>1, <1>2, <1>3
<1>5. Min({Cols, stop}) = IF Cols <= stop THEN Cols ELSE stop
  BY <1>1, <1>4, OfTwo
<1>6. Min({Cols, stop}) \in col + 1 .. Cols
  BY <1>1, <1>4, <1>5
<1> QED
  BY <1>6 DEF stop, q

\* What a character that prints does, short of the edge.
LEMMA GlyphIs ==
  ASSUME NEW t, Clean(t), NEW ch \in Glyphs
  PROVE  /\ Clean(Plain(t, ch))
         /\ t.col + 1 < Cols =>
              /\ Plain(t, ch).row = t.row /\ Plain(t, ch).col = t.col + 1
              /\ \A c \in 0 .. Cols - 1 :
                   Plain(t, ch).grid[t.row][c] = IF c = t.col THEN ch ELSE t.grid[t.row][c]
<1>1. t \in Terms /\ t.col \in 0 .. Cols - 1 /\ Cols \in Nat \ {0}
  BY Sizes DEF Clean, Terms
<1>2. ch \notin Controls
  BY TermAssumption
<1>3. /\ t.col \in Int /\ t.col + 1 \in Int /\ t.col + 1 \in t.col + 1 .. Cols
      /\ t.col .. (t.col + 1) - 1 = {t.col}
  BY <1>1
<1>4. Drawn(t, t.col, t.col + 1, ch).col = t.col
  BY <1>1, <1>3, DrawnIs
<1>5. Plain(t, ch) = Wrapped([Drawn(t, t.col, t.col + 1, ch) EXCEPT !.col = t.col + 1])
  BY <1>2, <1>4 DEF Plain, Controls
<1> QED
  BY <1>3, <1>5, AdvanceIs

\* Whatever is printed but CR and escapes leaves a clean terminal clean.
LEMMA PlainIs ==
  ASSUME NEW t, Clean(t), NEW ch \in Glyphs \cup {"NL", "BS", "TAB", "DEL"}
  PROVE  Clean(Plain(t, ch))
<1>1. /\ t \in Terms /\ t \in Wide /\ t.col \in 0 .. Cols - 1 /\ t.state = "normal"
      /\ Blank \in Glyphs /\ Cols \in Nat \ {0}
  BY Sizes, TermAssumption DEF Clean, Terms, Wide
<1>2. CASE ch = "NL"
  <2>1. Plain(t, ch) = Newline(t)
    BY <1>2 DEF Plain
  <2> QED
    BY <1>1, <2>1, NewlineIs DEF Clean
<1>3. CASE ch = "BS"
  <2>1. t.col = 0 => Plain(t, "BS") = t
    BY DEF Plain
  <2> QED
    BY <1>3, <2>1, BackIs
<1>4. CASE ch = "TAB"
  <2> DEFINE stop == Min({Cols, (t.col \div TabStop + 1) * TabStop})
  <2>1. Plain(t, ch) = Wrapped([Drawn(t, t.col, stop, Blank) EXCEPT !.col = stop])
    BY <1>4 DEF Plain
  <2>2. stop \in t.col + 1 .. Cols
    BY <1>1, StopIs
  <2> HIDE DEF stop
  <2> QED
    BY <1>1, <2>1, <2>2, AdvanceIs
<1>5. CASE ch = "DEL"
  BY <1>5 DEF Plain
<1>6. CASE ch \in Glyphs
  BY <1>6, GlyphIs
<1> QED
  BY <1>2, <1>3, <1>4, <1>5, <1>6

\* The terminal after each character of a text.
Runs(f, t, chars, n) == f = [i \in 0 .. n |-> IF i = 0 THEN t ELSE TermPut(f[i - 1], chars[i])]

\* The function inside Shown exists: built a character at a time.
LEMMA ShownRuns ==
  ASSUME NEW t, NEW chars, Len(chars) \in Nat
  PROVE  \E f : Runs(f, t, chars, Len(chars)) /\ Shown(t, chars) = f[Len(chars)]
<1> DEFINE P == {k \in Nat : \E f : Runs(f, t, chars, k)}
<1>1. 0 \in P
  <2> DEFINE f == [i \in 0 .. 0 |-> t]
  <2>1. f = [i \in 0 .. 0 |-> IF i = 0 THEN t ELSE TermPut(f[i - 1], chars[i])]
    OBVIOUS
  <2> HIDE DEF f
  <2>2. Runs(f, t, chars, 0)
    BY <2>1 DEF Runs
  <2> QED
    BY <2>2
<1>2. ASSUME NEW k \in Nat, k \in P
      PROVE  k + 1 \in P
  <2>1. PICK f : Runs(f, t, chars, k)
    BY <1>2
  <2> DEFINE v == TermPut(f[k], chars[k + 1])
             g == [i \in 0 .. k + 1 |-> IF i = k + 1 THEN v ELSE f[i]]
  <2>2. /\ g[k + 1] = v /\ \A i \in 0 .. k : g[i] = f[i]
        /\ g = [i \in 0 .. k + 1 |-> g[i]]
    <3> HIDE DEF v
    <3> QED
      OBVIOUS
  <2> HIDE DEF g
  <2>3. \A i \in 0 .. k : f[i] = IF i = 0 THEN t ELSE TermPut(f[i - 1], chars[i])
    BY <2>1 DEF Runs
  <2>4. ASSUME NEW i \in 0 .. k + 1
        PROVE  g[i] = IF i = 0 THEN t ELSE TermPut(g[i - 1], chars[i])
    <3>1. CASE i = k + 1
      <4>1. i # 0 /\ i - 1 = k /\ k \in 0 .. k
        BY <3>1
      <4> QED
        BY <2>2, <3>1, <4>1
    <3>2. CASE i # k + 1
      <4>1. i \in 0 .. k /\ (i # 0 => i - 1 \in 0 .. k)
        BY <3>2
      <4>2. g[i] = f[i] /\ (i # 0 => g[i - 1] = f[i - 1])
        BY <2>2, <4>1
      <4> QED
        BY <2>3, <4>1, <4>2
    <3> QED
      BY <3>1, <3>2
  <2>5. g = [i \in 0 .. k + 1 |-> IF i = 0 THEN t ELSE TermPut(g[i - 1], chars[i])]
    BY <2>2, <2>4
  <2>6. Runs(g, t, chars, k + 1)
    BY <2>5 DEF Runs
  <2> QED
    BY <2>6
<1>3. Len(chars) \in P
  <2> HIDE DEF P
  <2> QED
    BY <1>1, <1>2, AllOf
<1> DEFINE n == Len(chars)
           after == CHOOSE f : Runs(f, t, chars, n)
<1>4. Runs(after, t, chars, n)
  BY <1>3
<1>5. Shown(t, chars) = after[n]
  BY DEF Shown, Runs
<1> HIDE DEF after
<1> QED
  BY <1>4, <1>5

\* What is shown of nothing, and of one character more.
LEMMA RunsFrom ==
  ASSUME NEW f, NEW t, NEW chars, NEW n \in Nat, Runs(f, t, chars, n)
  PROVE  f[0] = t /\ \A i \in 1 .. n : f[i] = TermPut(f[i - 1], chars[i])
<1>1. \A i \in 0 .. n : f[i] = IF i = 0 THEN t ELSE TermPut(f[i - 1], chars[i])
  BY DEF Runs
<1> QED
  BY <1>1

\* A terminal in the middle of a text may have gone back to the start of the row,
\* if it is told next to leave it.
Printing(t, chars, i) ==
  \/ Clean(t)
  \/ t \in Terms /\ t.state = "normal" /\ BlankBelow(t) /\ i # 0 /\ chars[i] = "CR"

\* Text leaves a clean terminal clean: what a command prints may move the cursor,
\* but leaves nothing beyond it.
LEMMA TextIs ==
  ASSUME NEW t, Clean(t), NEW text, Text(text)
  PROVE  Clean(Shown(t, text))
<1> DEFINE n == Len(text)
<1>1. n \in Nat /\ \A i \in 1 .. n : text[i] \in Glyphs \cup Controls
  BY DEF Text
<1>2. PICK f : Runs(f, t, text, n) /\ Shown(t, text) = f[n]
  BY <1>1, ShownRuns
<1>3. f[0] = t /\ \A i \in 1 .. n : f[i] = TermPut(f[i - 1], text[i])
  BY <1>1, <1>2, RunsFrom
<1> DEFINE P == {i \in 0 .. n : Printing(f[i], text, i)}
<1>4. 0 \in P
  BY <1>1, <1>3 DEF Printing
<1>5. ASSUME NEW i \in 0 .. n - 1, i \in P
      PROVE  i + 1 \in P
  <2> DEFINE u == f[i]
             c == text[i + 1]
  <2>1. i + 1 \in 1 .. n /\ i + 1 # 0 /\ i + 1 - 1 = i /\ i < n /\ (i # 0 => i \in 1 .. n)
    BY <1>1
  <2>2. f[i + 1] = TermPut(u, c) /\ c \in Glyphs \cup Controls /\ c # "ESC"
    BY <1>1, <1>3, <2>1 DEF Text
  <2>3. Printing(u, text, i)
    BY <1>5
  <2>4. u \in Terms /\ u \in Wide /\ u.state = "normal" /\ BlankBelow(u)
    BY <2>3, Sizes DEF Printing, Clean, Terms, Wide
  <2>5. f[i + 1] = Plain(u, c)
    BY <2>2, <2>4 DEF TermPut
  <2>6. CASE c = "NL"
    <3>1. Plain(u, c) = Newline(u)
      BY <2>6 DEF Plain
    <3> QED
      BY <2>1, <2>4, <2>5, <3>1, NewlineIs DEF Printing
  <2>7. CASE c # "NL"
    <3>1. Clean(u)
      BY <2>1, <2>3, <2>7 DEF Printing, Text
    <3>2. CASE c = "CR"
      <4>1. Plain(u, c) = [u EXCEPT !.col = 0]
        BY <3>2 DEF Plain
      <4>2. Plain(u, c) \in Terms /\ Plain(u, c).state = "normal" /\ BlankBelow(Plain(u, c))
        <5> DEFINE v == Plain(u, c)
        <5> HIDE DEF u
        <5>1. 0 \in 0 .. Cols - 1
          BY Sizes
        <5>2. v \in Terms /\ v.state = u.state /\ v.grid = u.grid /\ v.row = u.row
          BY <2>4, <4>1, <5>1 DEF Terms
        <5> HIDE DEF v
        <5>3. BlankBelow(v)
          BY <2>4, <5>2 DEF BlankBelow
        <5> QED
          BY <2>4, <5>2, <5>3 DEF v
      <4> QED
        BY <2>1, <2>5, <3>2, <4>2 DEF Printing
    <3>3. CASE c # "CR"
      <4>1. c \in Glyphs \cup {"NL", "BS", "TAB", "DEL"}
        BY <2>2, <3>3 DEF Controls
      <4> QED
        BY <2>1, <2>5, <3>1, <4>1, PlainIs DEF Printing
    <3> QED
      BY <3>2, <3>3
  <2> QED
    BY <2>6, <2>7
<1>6. n \in P
  <2> HIDE DEF P
  <2>1. \A i \in 0 .. n - 1 : i \in P => i + 1 \in P
    BY <1>5
  <2>2. 0 .. n \subseteq P
    BY <1>1, <1>4, <2>1, UpTo
  <2>3. n \in 0 .. n
    BY <1>1
  <2> QED
    BY <2>2, <2>3
<1>7. n = 0 \/ text[n] # "CR"
  BY <1>1 DEF Text
<1> QED
  BY <1>2, <1>6, <1>7 DEF Printing

\* What the terminal makes of the characters of an escape sequence.
LEMMA DigitsAre ==
  /\ "2" \in DOMAIN DigitOf /\ DigitOf["2"] = 2
  /\ "J" \notin DOMAIN DigitOf /\ "H" \notin DOMAIN DigitOf
<1>1. Range(Digits) = {"0", "1", "2", "3", "4", "5", "6", "7", "8", "9"}
  <2>1. DOMAIN Digits = 1 .. 10
    BY DEF Digits
  <2>2. Range(Digits) = {Digits[i] : i \in 1 .. 10}
    BY <2>1 DEF Range
  <2> QED
    BY <2>2 DEF Digits
<1>2. DOMAIN Digits = 1 .. 10 /\ Digits[3] = "2" /\ \A i \in 1 .. 10 : Digits[i] = "2" => i = 3
  BY DEF Digits
<1>3. (CHOOSE i \in DOMAIN Digits : Digits[i] = "2") = 3
  BY <1>2
<1>4. DOMAIN DigitOf = Range(Digits)
  BY DEF DigitOf
<1>5. "2" \in Range(Digits)
  BY <1>1
<1>6. DigitOf["2"] = (CHOOSE i \in DOMAIN Digits : Digits[i] = "2") - 1
  BY <1>5 DEF DigitOf
<1>7. DigitOf["2"] = 2
  BY <1>3, <1>6
<1> QED
  BY <1>1, <1>4, <1>7

\* The screen is cleared, whatever was on it.
LEMMA ClearIs ==
  ASSUME NEW t, Clean(t)
  PROVE  Clean(Shown(t, <<"NL">> \o ClearScreen))
<1> DEFINE s == <<"NL">> \o ClearScreen
<1>1. /\ Len(s) = 8 /\ s[1] = "NL" /\ s[2] = "ESC" /\ s[3] = "[" /\ s[4] = "2" /\ s[5] = "J"
      /\ s[6] = "ESC" /\ s[7] = "[" /\ s[8] = "H"
  BY DEF ClearScreen
<1> HIDE DEF s
<1>2. PICK f : Runs(f, t, s, 8) /\ Shown(t, s) = f[8]
  <2>1. Len(s) \in Nat
    BY <1>1
  <2>2. \E f : Runs(f, t, s, Len(s)) /\ Shown(t, s) = f[Len(s)]
    BY <2>1, ShownRuns
  <2> QED
    BY <1>1, <2>2
<1>3. f[0] = t /\ \A i \in 1 .. 8 : f[i] = TermPut(f[i - 1], s[i])
  BY <1>2, RunsFrom
<1>4. /\ f[1] = TermPut(t, "NL") /\ f[2] = TermPut(f[1], "ESC") /\ f[3] = TermPut(f[2], "[")
      /\ f[4] = TermPut(f[3], "2") /\ f[5] = TermPut(f[4], "J") /\ f[6] = TermPut(f[5], "ESC")
      /\ f[7] = TermPut(f[6], "[") /\ f[8] = TermPut(f[7], "H")
  BY <1>1, <1>3
<1>5. Clean(f[1])
  <2>1. TermPut(t, "NL") = Plain(t, "NL")
    BY DEF TermPut, Clean
  <2> QED
    BY <1>4, <2>1, PlainIs
<1>6. f[1] \in Terms /\ f[1].state = "normal"
  BY <1>5 DEF Clean
<1>7. f[2] \in Terms /\ f[2].state = "esc"
  BY <1>4, <1>6, Escaped
<1>8. f[3] \in Terms /\ f[3].state = "csi" /\ f[3].param = NoParam
  BY <1>4, <1>7, Bracketed
<1>9. f[4] = [f[3] EXCEPT !.param = 2] /\ f[4].state = "csi" /\ f[4].param = 2
  BY Zenon, <1>4, <1>8, DigitsAre DEF TermPut, Csi, Terms
<1>10. f[5] = [FreshTerm EXCEPT !.param = 2]
  BY Zenon, <1>4, <1>9, DigitsAre DEF TermPut, Csi
<1>11. FreshTerm \in Terms /\ FreshTerm.state = "normal" /\ FreshTerm.row = 0 /\ FreshTerm.col = 0
       /\ Clean(FreshTerm)
  BY FreshIs DEF Clean, FreshTerm
<1>12. /\ f[5] \in Terms /\ f[5].state = "normal" /\ f[5].grid = FreshTerm.grid
  BY <1>10, <1>11, ParamsHave DEF Terms
<1>13. f[6] \in Terms /\ f[6].grid = FreshTerm.grid /\ f[6].state = "esc"
  BY <1>4, <1>12, Escaped
<1>14. f[7] \in Terms /\ f[7].grid = FreshTerm.grid /\ f[7].state = "csi"
  BY <1>4, <1>13, Bracketed
<1>15. f[8] = [f[7] EXCEPT !.row = 0, !.col = 0, !.state = "normal"]
  BY Zenon, <1>4, <1>14, DigitsAre DEF TermPut, Csi
<1>16. 0 \in 0 .. Rows - 1 /\ 0 \in 0 .. Cols - 1
  BY Sizes
<1>17. /\ f[8] \in Terms /\ f[8].grid = FreshTerm.grid /\ f[8].state = "normal"
       /\ f[8].row = 0 /\ f[8].col = 0
  BY <1>14, <1>15, <1>16 DEF Terms
<1>18. Clean(f[8])
  BY <1>11, <1>17 DEF Clean, BlankBelow
<1> QED
  BY <1>2, <1>18 DEF s

\* The prompt after whatever a command printed, on a clean terminal.
LEMMA OutputIs ==
  ASSUME NEW t, Clean(t), NEW out, Orderly(out)
  PROVE  Clean(Shown(Shown(t, <<"NL">> \o out), Prompt))
<1>1. Text(Prompt) /\ (Text(out) \/ out = ClearScreen)
  BY ConsoleAssumption DEF Orderly
<1>2. Clean(Shown(t, <<"NL">> \o out))
  <2>1. CASE out = ClearScreen
    BY <2>1, ClearIs
  <2>2. CASE out # ClearScreen
    <3>1. Text(out)
      BY <1>1, <2>2
    <3> DEFINE s == <<"NL">> \o out
    <3>2. /\ out \in Seq(Glyphs \cup Controls) /\ Len(out) \in Nat
          /\ <<"NL">> \in Seq(Glyphs \cup Controls) /\ Len(<<"NL">>) = 1 /\ <<"NL">>[1] = "NL"
      BY <3>1 DEF Text, Controls
    <3>3. /\ s \in Seq(Glyphs \cup Controls) /\ Len(s) = Len(out) + 1
          /\ s[1] = "NL" /\ \A i \in 1 .. Len(out) : s[i + 1] = out[i]
      BY <3>2
    <3> HIDE DEF s
    <3>4. ASSUME NEW i \in 1 .. Len(s)
          PROVE  s[i] # "ESC" /\ (s[i] = "CR" => i < Len(s) /\ s[i + 1] = "NL")
      <4>1. CASE i = 1
        BY <3>3, <4>1
      <4>2. CASE i # 1
        <5>1. i - 1 \in 1 .. Len(out) /\ i = (i - 1) + 1
          BY <3>2, <3>3, <4>2
        <5>2. s[i] = out[i - 1]
          BY <3>3, <5>1
        <5>3. out[i - 1] # "ESC" /\ (out[i - 1] = "CR" => i - 1 < Len(out) /\ out[(i - 1) + 1] = "NL")
          BY <3>1, <5>1 DEF Text
        <5>4. i < Len(s) => i \in 1 .. Len(out) /\ s[i + 1] = out[i]
          BY <3>2, <3>3, <4>2
        <5> QED
          BY <3>2, <3>3, <5>1, <5>2, <5>3, <5>4
      <4> QED
        BY <4>1, <4>2
    <3>5. Text(s)
      BY <3>3, <3>4 DEF Text
    <3> QED
      BY <3>5, TextIs DEF s
  <2> QED
    BY <2>1, <2>2
<1> QED
  BY <1>1, <1>2, TextIs

\* A digit's value.
LEMMA DigitIs ==
  ASSUME NEW c \in DOMAIN DigitOf
  PROVE  DigitOf[c] \in 0 .. 9
<1>1. c \in Range(Digits)
  BY DEF DigitOf
<1>2. \E i \in DOMAIN Digits : Digits[i] = c
  BY <1>1 DEF Range
<1>3. DOMAIN Digits = 1 .. 10
  BY DEF Digits
<1> DEFINE v == CHOOSE i \in DOMAIN Digits : Digits[i] = c
<1>4. v \in 1 .. 10
  <2> HIDE DEF Digits
  <2> QED
    BY <1>2, <1>3
<1>5. DigitOf[c] = v - 1
  <2> HIDE DEF Digits
  <2> QED
    BY <1>1 DEF DigitOf
<1> HIDE DEF v
<1> QED
  BY <1>4, <1>5

\* Whatever is printed, the terminal stays one: first, a new line.
LEMMA NewlineTerm ==
  ASSUME NEW t \in Wide
  PROVE  Newline(t) \in Terms
<1> DEFINE up == [r \in 0 .. Rows - 1 |-> IF r = Rows - 1 THEN BlankRow ELSE t.grid[r + 1]]
<1>1. /\ t.grid \in Grid /\ t.row \in 0 .. Rows - 1 /\ t.param \in Params
      /\ 0 \in 0 .. Cols - 1 /\ Rows \in Nat \ {0} /\ Cols \in Nat \ {0}
  BY Sizes DEF Wide
<1>2. CASE t.row + 1 < Rows
  <2>1. Newline(t) = [t EXCEPT !.col = 0, !.row = @ + 1]
    BY <1>2 DEF Newline
  <2>2. t.row + 1 \in 0 .. Rows - 1
    BY <1>1, <1>2
  <2> QED
    BY <1>1, <2>1, <2>2 DEF Terms, Wide
<1>3. CASE ~(t.row + 1 < Rows)
  <2>1. Newline(t) = [t EXCEPT !.col = 0, !.grid = up]
    BY <1>3 DEF Newline
  <2>2. up \in Grid
    <3>1. t.grid \in Grid
      BY <1>1
    <3>2. \A r \in 0 .. Rows - 1 : up[r] \in [0 .. Cols - 1 -> Glyphs]
      <4> SUFFICES ASSUME NEW r \in 0 .. Rows - 1
                   PROVE  up[r] \in [0 .. Cols - 1 -> Glyphs]
        OBVIOUS
      <4>1. CASE r = Rows - 1
        BY <4>1, BlankRowIs
      <4>2. CASE r # Rows - 1
        <5>1. r + 1 \in 0 .. Rows - 1
          BY <4>2, Sizes
        <5> QED
          BY <3>1, <4>2, <5>1 DEF Grid
      <4> QED
        BY <4>1, <4>2
    <3> QED
      BY <3>2 DEF Grid
  <2> HIDE DEF up
  <2> QED
    BY <1>1, <2>1, <2>2 DEF Terms, Wide
<1> QED
  BY <1>2, <1>3

\* Then, wrapping.
LEMMA WrappedTerm ==
  ASSUME NEW t \in Wide
  PROVE  Wrapped(t) \in Terms
<1>1. CASE t.col >= Cols
  BY <1>1, NewlineTerm DEF Wrapped
<1>2. CASE ~(t.col >= Cols)
  <2>1. t.col \in 0 .. Cols - 1
    BY <1>2, Sizes DEF Wide
  <2> QED
    BY <1>2, <2>1 DEF Wrapped, Wide, Terms
<1> QED
  BY <1>1, <1>2

\* A character outside an escape sequence.
LEMMA PlainTerm ==
  ASSUME NEW t \in Terms, NEW ch \in Glyphs \cup Controls
  PROVE  Plain(t, ch) \in Terms
<1>1. /\ t \in Wide /\ t.col \in 0 .. Cols - 1 /\ Blank \in Glyphs /\ Cols \in Nat \ {0}
  BY Sizes, TermAssumption DEF Terms, Wide
<1>2. CASE ch = "ESC"
  BY <1>2 DEF Plain, Terms
<1>3. CASE ch = "NL"
  BY <1>1, <1>3, NewlineTerm DEF Plain
<1>4. CASE ch = "CR"
  <2>1. Plain(t, ch) = [t EXCEPT !.col = 0] /\ 0 \in 0 .. Cols - 1
    BY <1>1, <1>4 DEF Plain
  <2> QED
    BY <2>1 DEF Terms
<1>5. CASE ch = "BS" /\ t.col = 0
  BY <1>5 DEF Plain
<1>6. CASE ch = "BS" /\ t.col # 0
  <2> DEFINE n == t.col - 1
             d == Drawn(t, n, t.col, Blank)
             u == [d EXCEPT !.col = n]
  <2>1. n \in 0 .. Cols /\ n # Cols /\ n \in Int /\ t.col \in Int
    BY <1>1, <1>6
  <2>2. d.col = t.col
    BY <1>1, <2>1, DrawnIs
  <2>3. Plain(t, ch) = [d EXCEPT !.col = @ - 1]
    BY <1>6 DEF Plain
  <2>4. Plain(t, ch) = u
    <3> HIDE DEF d
    <3> QED
      BY <2>2, <2>3
  <2> HIDE DEF n
  <2>5. u \in Terms
    BY <1>1, <2>1, PutIs
  <2> QED
    BY <2>4, <2>5
<1>7. CASE ch = "TAB"
  <2> DEFINE stop == Min({Cols, (t.col \div TabStop + 1) * TabStop})
             u == [Drawn(t, t.col, stop, Blank) EXCEPT !.col = stop]
  <2>1. Plain(t, ch) = Wrapped(u)
    BY <1>7 DEF Plain
  <2>2. stop \in t.col + 1 .. Cols
    BY <1>1, StopIs
  <2> HIDE DEF stop
  <2>3. stop \in 0 .. Cols /\ stop \in Int /\ t.col \in Int
    BY <1>1, <2>2
  <2>4. u \in Wide
    BY <1>1, <2>3, PutIs
  <2> HIDE DEF u
  <2> QED
    BY <2>1, <2>4, WrappedTerm
<1>8. CASE ch = "DEL"
  BY <1>8 DEF Plain
<1>9. CASE ch \notin Controls
  <2> DEFINE n == t.col + 1
             d == Drawn(t, t.col, n, ch)
             u == [d EXCEPT !.col = n]
  <2>1. ch \in Glyphs /\ n \in 0 .. Cols /\ n \in Int /\ t.col \in Int
    BY <1>1, <1>9
  <2>2. d.col = t.col
    <3> HIDE DEF n
    <3> QED
      BY <2>1, DrawnIs
  <2>3. Plain(t, ch) = Wrapped([d EXCEPT !.col = @ + 1])
    BY <1>9 DEF Plain, Controls
  <2>4. Plain(t, ch) = Wrapped(u)
    <3> HIDE DEF d
    <3> QED
      BY <2>2, <2>3
  <2> HIDE DEF n
  <2>5. u \in Wide
    BY <2>1, PutIs
  <2> HIDE DEF u
  <2> QED
    BY <2>4, <2>5, WrappedTerm
<1> QED
  BY <1>2, <1>3, <1>4, <1>5, <1>6, <1>7, <1>8, <1>9 DEF Controls

\* A character anywhere.
LEMMA PutTerm ==
  ASSUME NEW t \in Terms, NEW ch \in Glyphs \cup Controls
  PROVE  TermPut(t, ch) \in Terms
<1>1. /\ t.state \in {"normal", "esc", "csi"} /\ t.param \in Params
      /\ 0 \in 0 .. Rows - 1 /\ 0 \in 0 .. Cols - 1
  BY Sizes DEF Terms
<1>2. CASE t.state = "normal"
  BY <1>2, PlainTerm DEF TermPut
<1>3. CASE t.state = "esc"
  <2>1. TermPut(t, ch) = IF ch = "[" THEN [t EXCEPT !.state = "csi", !.param = NoParam]
                         ELSE [t EXCEPT !.state = "normal"]
    BY <1>3 DEF TermPut
  <2> QED
    BY <2>1, ParamsHave DEF Terms
<1>4. CASE t.state = "csi"
  <2>1. TermPut(t, ch) = Csi(t, ch)
    BY <1>4 DEF TermPut
  <2>2. CASE ch \in DOMAIN DigitOf
    <3> DEFINE p == IF t.param = NoParam THEN DigitOf[ch]
                    ELSE (t.param * 10 + DigitOf[ch]) % ParamSize
    <3>1. Csi(t, ch) = [t EXCEPT !.param = p]
      BY <2>2 DEF Csi
    <3>2. DigitOf[ch] \in 0 .. 9 /\ ParamSize \in Nat /\ ParamSize > 9
      BY <2>2, DigitIs, TermAssumption
    <3>3. p \in Params
      <4>1. CASE t.param = NoParam
        BY <3>2, <4>1 DEF Params
      <4>2. CASE t.param # NoParam
        <5>1. t.param * 10 + DigitOf[ch] \in Nat
          BY <1>1, <3>2, <4>2 DEF Params
        <5> QED
          BY <3>2, <4>2, <5>1 DEF Params
      <4> QED
        BY <4>1, <4>2
    <3> HIDE DEF p
    <3> QED
      BY <2>1, <3>1, <3>3 DEF Terms
  <2>3. CASE ch \notin DOMAIN DigitOf
    <3>1. \/ Csi(t, ch) = [FreshTerm EXCEPT !.param = t.param]
          \/ Csi(t, ch) = [t EXCEPT !.row = 0, !.col = 0, !.state = "normal"]
          \/ Csi(t, ch) = [t EXCEPT !.state = "normal"]
      BY <2>3 DEF Csi
    <3>2. FreshTerm \in Terms
      BY FreshIs DEF Clean
    <3>3. t.param \in Params
      BY <2>1 DEF Terms
    <3>4. [FreshTerm EXCEPT !.param = t.param] \in Terms
      BY <3>2, <3>3, WithParam
    <3>5. [t EXCEPT !.row = 0, !.col = 0, !.state = "normal"] \in Terms
      BY <1>1, <2>1 DEF Terms
    <3>6. [t EXCEPT !.state = "normal"] \in Terms
      BY <2>1, InState
    <3> DEFINE a == [FreshTerm EXCEPT !.param = t.param]
               b == [t EXCEPT !.row = 0, !.col = 0, !.state = "normal"]
               c == [t EXCEPT !.state = "normal"]
    <3> HIDE DEF a, b, c
    <3>7. Csi(t, ch) \in {a, b, c}
      BY <3>1 DEF a, b, c
    <3>8. {a, b, c} \subseteq Terms
      BY <3>4, <3>5, <3>6 DEF a, b, c
    <3> QED
      BY <2>1, <3>7, <3>8
  <2> QED
    BY <2>2, <2>3
<1> QED
  BY <1>1, <1>2, <1>3, <1>4

\* Any number of characters.
LEMMA ShownTerm ==
  ASSUME NEW t \in Terms, NEW s \in Seq(Glyphs \cup Controls)
  PROVE  Shown(t, s) \in Terms
<1> DEFINE n == Len(s)
<1>1. n \in Nat /\ \A i \in 1 .. n : s[i] \in Glyphs \cup Controls
  OBVIOUS
<1>2. PICK f : Runs(f, t, s, n) /\ Shown(t, s) = f[n]
  BY <1>1, ShownRuns
<1>3. f[0] = t /\ \A i \in 1 .. n : f[i] = TermPut(f[i - 1], s[i])
  BY <1>1, <1>2, RunsFrom
<1> DEFINE P == {i \in 0 .. n : f[i] \in Terms}
<1>4. 0 \in P
  BY <1>1, <1>3
<1>5. ASSUME NEW i \in 0 .. n - 1, i \in P
      PROVE  i + 1 \in P
  <2>1. i + 1 \in 1 .. n /\ i + 1 - 1 = i /\ i + 1 \in 0 .. n
    BY <1>1
  <2>2. f[i + 1] = TermPut(f[i], s[i + 1]) /\ s[i + 1] \in Glyphs \cup Controls /\ f[i] \in Terms
    BY <1>1, <1>3, <1>5, <2>1
  <2>3. TermPut(f[i], s[i + 1]) \in Terms
    BY <2>2, PutTerm
  <2> QED
    BY <2>1, <2>2, <2>3
<1>6. n \in P
  <2> HIDE DEF P
  <2>1. \A i \in 0 .. n - 1 : i \in P => i + 1 \in P
    BY <1>5
  <2>2. 0 .. n \subseteq P
    BY <1>1, <1>4, <2>1, UpTo
  <2> QED
    BY <1>1, <2>2
<1> QED
  BY <1>2, <1>6

\* A command's output and the prompt after it.
LEMMA OutputTerm ==
  ASSUME NEW t \in Terms, NEW out \in Seq(Glyphs \cup Controls)
  PROVE  Shown(Shown(t, <<"NL">> \o out), Prompt) \in Terms
<1>1. Prompt \in Seq(Glyphs \cup Controls)
  BY ConsoleAssumption DEF Text
<1>2. <<"NL">> \o out \in Seq(Glyphs \cup Controls)
  <2>1. <<"NL">> \in Seq(Glyphs \cup Controls)
    BY DEF Controls
  <2> QED
    BY <2>1
<1> QED
  BY <1>1, <1>2, ShownTerm

-----------------------------------------------------------------------------
(* The line on the screen.                                                  *)

\* Characters that print, short of the edge, stand where they were typed.
LEMMA EchoIs ==
  ASSUME NEW t, Clean(t), NEW l \in Seq(Glyphs), t.col + Len(l) < Cols
  PROVE  /\ Clean(Shown(t, l)) /\ Shown(t, l).row = t.row /\ Shown(t, l).col = t.col + Len(l)
         /\ \A c \in 0 .. t.col - 1 : Shown(t, l).grid[t.row][c] = t.grid[t.row][c]
         /\ \A i \in 1 .. Len(l) : Shown(t, l).grid[t.row][t.col + i - 1] = l[i]
<1> DEFINE n == Len(l)
<1>1. n \in Nat /\ t.col \in Nat /\ Cols \in Nat /\ \A i \in 1 .. n : l[i] \in Glyphs
  BY Sizes DEF Clean, Terms
<1>2. PICK f : Runs(f, t, l, n) /\ Shown(t, l) = f[n]
  BY <1>1, ShownRuns
<1>3. f[0] = t /\ \A i \in 1 .. n : f[i] = TermPut(f[i - 1], l[i])
  BY <1>1, <1>2, RunsFrom
<1> DEFINE Fine(u, k) ==
             /\ Clean(u) /\ u.row = t.row /\ u.col = t.col + k
             /\ \A c \in 0 .. t.col - 1 : u.grid[t.row][c] = t.grid[t.row][c]
             /\ \A i \in 1 .. k : u.grid[t.row][t.col + i - 1] = l[i]
           P == {k \in 0 .. n : Fine(f[k], k)}
<1>4. 0 \in P
  BY <1>1, <1>3
<1>5. ASSUME NEW k \in 0 .. n - 1, k \in P
      PROVE  k + 1 \in P
  <2> DEFINE u == f[k]
             v == f[k + 1]
             ch == l[k + 1]
  <2>1. k + 1 \in 1 .. n /\ k + 1 - 1 = k /\ ch \in Glyphs /\ k + 1 \in 0 .. n
    BY <1>1
  <2>2. Fine(u, k)
    BY <1>5
  <2>3. v = Plain(u, ch)
    <3>1. v = TermPut(u, ch)
      BY <1>3, <2>1
    <3>2. u.state = "normal"
      BY <2>2 DEF Clean
    <3> QED
      BY <3>1, <3>2 DEF TermPut
  <2>4. u.col + 1 < Cols
    BY <1>1, <2>2
  <2> HIDE DEF u, v, ch
  <2>5. /\ Clean(v) /\ v.row = u.row /\ v.col = u.col + 1
        /\ \A c \in 0 .. Cols - 1 : v.grid[u.row][c] = IF c = u.col THEN ch ELSE u.grid[u.row][c]
    BY <2>1, <2>2, <2>3, <2>4, GlyphIs
  <2>6. \A c \in 0 .. t.col - 1 : v.grid[t.row][c] = t.grid[t.row][c]
    BY <1>1, <2>1, <2>2, <2>5
  <2>7. ASSUME NEW i \in 1 .. k + 1
        PROVE  v.grid[t.row][t.col + i - 1] = l[i]
    <3>1. t.col + i - 1 \in 0 .. Cols - 1
      BY <1>1, <2>1
    <3>2. CASE i = k + 1
      BY <2>2, <2>5, <3>1, <3>2 DEF ch
    <3>3. CASE i # k + 1
      <4>1. i \in 1 .. k /\ t.col + i - 1 # u.col
        BY <1>1, <2>2, <3>3
      <4> QED
        BY Zenon, <2>2, <2>5, <3>1, <4>1
    <3> QED
      BY <3>2, <3>3
  <2>8. v.row = t.row /\ v.col = t.col + (k + 1)
    <3>1. u.row = t.row /\ u.col = t.col + k
      BY <2>2
    <3>2. v.row = u.row /\ v.col = u.col + 1
      BY <2>5
    <3>3. k \in Int /\ t.col \in Int
      BY <1>1
    <3> QED
      BY <3>1, <3>2, <3>3
  <2>9. Fine(v, k + 1)
    BY <2>5, <2>6, <2>7, <2>8
  <2> QED
    BY <2>1, <2>9 DEF v
<1>6. n \in P
  <2> HIDE DEF P
  <2>1. \A k \in 0 .. n - 1 : k \in P => k + 1 \in P
    BY <1>5
  <2>2. 0 .. n \subseteq P
    BY <1>1, <1>4, <2>1, UpTo
  <2> QED
    BY <1>1, <2>2
<1>7. Fine(f[n], n)
  BY <1>6
<1> QED
  BY <1>2, <1>7

\* A function on 1 .. n is a sequence of that length.
LEMMA IsSequence ==
  ASSUME NEW S, NEW n \in Nat, NEW b \in [1 .. n -> S]
  PROVE  b \in Seq(S) /\ Len(b) = n
<1>1. b \in Seq(S)
  OBVIOUS
<1>2. Len(b) \in Nat /\ DOMAIN b = 1 .. Len(b) /\ DOMAIN b = 1 .. n
  BY <1>1, LenProperties
<1> QED
  BY <1>1, <1>2

\* The characters that rub out.
LEMMA RuboutsAre ==
  ASSUME NEW k \in Nat
  PROVE  Rubouts(k) \in Seq({" ", "BS"}) /\ Len(Rubouts(k)) = 3 * k
<1> DEFINE m == 3 * k
           b == [i \in 1 .. m |-> IF i % 3 = 2 THEN " " ELSE "BS"]
<1>1. m \in Nat /\ Rubouts(k) = b
  BY DEF Rubouts
<1> HIDE DEF m
<1>2. b \in [1 .. m -> {" ", "BS"}]
  OBVIOUS
<1> HIDE DEF b
<1>3. b \in Seq({" ", "BS"}) /\ Len(b) = m
  BY <1>1, <1>2, IsSequence
<1> QED
  BY <1>1, <1>3 DEF m

\* "\b \b" k times takes the last k characters of the row away.
LEMMA RuboutsIs ==
  ASSUME NEW t, Clean(t), NEW k \in 0 .. t.col
  PROVE  LET u == Shown(t, Rubouts(k))
         IN  /\ Clean(u) /\ u.row = t.row /\ u.col = t.col - k
             /\ \A c \in 0 .. t.col - k - 1 : u.grid[t.row][c] = t.grid[t.row][c]
<1> DEFINE s == Rubouts(k)
           n == Len(s)
<1>1. k \in Nat /\ t.col \in 0 .. Cols - 1 /\ Cols \in Nat
  BY Sizes DEF Clean, Terms
<1>2. /\ n = 3 * k /\ n \in Nat
      /\ \A i \in 0 .. k - 1 : s[3 * i + 1] = "BS" /\ s[3 * i + 2] = " " /\ s[3 * i + 3] = "BS"
  <2>1. s = [i \in 1 .. 3 * k |-> IF i % 3 = 2 THEN " " ELSE "BS"] /\ 3 * k \in Nat
    BY <1>1 DEF Rubouts
  <2>2. n = 3 * k
    BY <1>1, RuboutsAre
  <2>3. ASSUME NEW i \in 0 .. k - 1
        PROVE  s[3 * i + 1] = "BS" /\ s[3 * i + 2] = " " /\ s[3 * i + 3] = "BS"
    <3>1. {3 * i + 1, 3 * i + 2, 3 * i + 3} \subseteq 1 .. 3 * k
      BY <1>1
    <3>2. (3 * i + 1) % 3 = 1 /\ (3 * i + 2) % 3 = 2 /\ (3 * i + 3) % 3 = 0
      OBVIOUS
    <3>3. \A j \in 1 .. 3 * k : s[j] = IF j % 3 = 2 THEN " " ELSE "BS"
      BY <2>1
    <3> HIDE DEF s
    <3> DEFINE a1 == 3 * i + 1
               a2 == 3 * i + 2
               a3 == 3 * i + 3
    <3>4. /\ a1 \in 1 .. 3 * k /\ a1 % 3 # 2 /\ a2 \in 1 .. 3 * k /\ a2 % 3 = 2
          /\ a3 \in 1 .. 3 * k /\ a3 % 3 # 2
      BY <3>1, <3>2
    <3> HIDE DEF a1, a2, a3
    <3>5. s[a1] = "BS" /\ s[a2] = " " /\ s[a3] = "BS"
      BY <3>3, <3>4
    <3> QED
      BY <3>5 DEF a1, a2, a3
  <2> QED
    BY <2>1, <2>2, <2>3
<1> HIDE DEF s, n
<1>3. PICK f : Runs(f, t, s, n) /\ Shown(t, s) = f[n]
  BY <1>2, ShownRuns DEF n
<1>4. f[0] = t /\ \A i \in 1 .. n : f[i] = TermPut(f[i - 1], s[i])
  <2>1. n \in Nat /\ Runs(f, t, s, n)
    BY <1>2, <1>3
  <2> QED
    BY <2>1, RunsFrom
<1> DEFINE Fine(u, i) ==
             /\ Clean(u) /\ u.row = t.row /\ u.col = t.col - i
             /\ \A c \in 0 .. t.col - i - 1 : u.grid[t.row][c] = t.grid[t.row][c]
           P == {i \in 0 .. k : Fine(f[3 * i], i)}
<1>5. 0 \in P
  <2>1. 3 * 0 = 0 /\ 0 \in 0 .. k
    BY <1>1
  <2>2. Fine(t, 0)
    BY <1>1
  <2> QED
    BY <1>4, <2>1, <2>2
<1>6. ASSUME NEW i \in 0 .. k - 1, i \in P
      PROVE  i + 1 \in P
  <2> DEFINE u == f[3 * i]
             v == f[3 * i + 1]
             w == f[3 * i + 2]
             x == f[3 * i + 3]
  <2> DEFINE a0 == 3 * i
             a1 == 3 * i + 1
             a2 == 3 * i + 2
             a3 == 3 * i + 3
  <2>1. /\ a1 \in 1 .. n /\ a2 \in 1 .. n /\ a3 \in 1 .. n
        /\ a1 - 1 = a0 /\ a2 - 1 = a1 /\ a3 - 1 = a2 /\ 3 * (i + 1) = a3
    <3>1. n = 3 * k
      BY <1>2
    <3> QED
      BY <1>1, <3>1
  <2>2. v = TermPut(u, "BS") /\ w = TermPut(v, " ") /\ x = TermPut(w, "BS")
    <3>1. s[a1] = "BS" /\ s[a2] = " " /\ s[a3] = "BS"
      BY <1>2
    <3>2. u = f[a0] /\ v = f[a1] /\ w = f[a2] /\ x = f[a3]
      OBVIOUS
    <3> HIDE DEF a0, a1, a2, a3, u, v, w, x
    <3> QED
      BY <1>4, <2>1, <3>1, <3>2
  <2>3. Fine(u, i)
    BY <1>6
  <2>16. x = f[3 * (i + 1)]
    BY <2>1
  <2> HIDE DEF u, v, w, x, a0, a1, a2, a3
  <2>4. u.col # 0 /\ u.col \in Nat /\ u.col < Cols
    BY <1>1, <2>3
  <2>5. v = Plain(u, "BS")
    BY <2>2, <2>3 DEF Clean, TermPut
  <2>6. /\ Clean(v) /\ v.row = u.row /\ v.col = u.col - 1
        /\ \A c \in 0 .. Cols - 1 :
             v.grid[u.row][c] = IF c = u.col - 1 THEN Blank ELSE u.grid[u.row][c]
    BY <2>3, <2>4, <2>5, BackIs
  <2>7. w = Plain(v, " ")
    BY <2>2, <2>6 DEF Clean, TermPut
  <2>8. " " \in Glyphs
    BY TermAssumption DEF Blank
  <2>9. /\ Clean(w) /\ w.row = v.row /\ w.col = v.col + 1
        /\ \A c \in 0 .. Cols - 1 : w.grid[v.row][c] = IF c = v.col THEN " " ELSE v.grid[v.row][c]
    <3>1. v.col + 1 < Cols
      BY <2>4, <2>6, <1>1
    <3> QED
      BY Zenon, <2>6, <2>7, <2>8, <3>1, GlyphIs
  <2>10. x = Plain(w, "BS")
    BY Zenon, <2>2, <2>9 DEF Clean, TermPut
  <2>11. /\ Clean(x) /\ x.row = w.row /\ x.col = w.col - 1
         /\ \A c \in 0 .. Cols - 1 :
              x.grid[w.row][c] = IF c = w.col - 1 THEN Blank ELSE w.grid[w.row][c]
    <3>1. u.col # 0 /\ u.col \in Nat /\ v.col = u.col - 1 /\ w.col = v.col + 1
      BY <2>4, <2>6, <2>9
    <3>2. w.col # 0
      BY <3>1
    <3> HIDE DEF Fine
    <3> QED
      BY <2>9, <2>10, <3>2, BackIs
  <2>12. /\ u.row = t.row /\ v.row = t.row /\ w.row = t.row /\ x.row = t.row
         /\ u.col = t.col - i /\ v.col = t.col - i - 1 /\ w.col = t.col - i
         /\ x.col = t.col - (i + 1)
    <3>1. /\ u.row = t.row /\ v.row = u.row /\ w.row = v.row /\ x.row = w.row
          /\ u.col = t.col - i /\ v.col = u.col - 1 /\ w.col = v.col + 1 /\ x.col = w.col - 1
      BY <2>3, <2>6, <2>9, <2>11
    <3>2. t.col \in Int /\ i \in Int
      BY <1>1
    <3> QED
      BY <3>1, <3>2
  <2>13. ASSUME NEW c \in 0 .. t.col - (i + 1) - 1
         PROVE  x.grid[t.row][c] = t.grid[t.row][c]
    <3>1. c \in 0 .. Cols - 1 /\ c \in 0 .. t.col - i - 1 /\ c # u.col - 1 /\ c # v.col /\ c # w.col - 1
      BY <1>1, <2>12
    <3>2. u.grid[t.row][c] = t.grid[t.row][c]
      BY <2>3, <3>1
    <3>3. v.grid[t.row][c] = u.grid[t.row][c]
      BY <2>6, <2>12, <3>1
    <3>4. w.grid[t.row][c] = v.grid[t.row][c]
      BY <2>9, <2>12, <3>1
    <3>5. x.grid[t.row][c] = w.grid[t.row][c]
      BY <2>11, <2>12, <3>1
    <3> QED
      BY <3>2, <3>3, <3>4, <3>5
  <2>14. Fine(x, i + 1)
    BY <2>11, <2>12, <2>13
  <2>15. i + 1 \in 0 .. k
    BY <1>1
  <2> QED
    BY <2>16, <2>14, <2>15
<1>7. k \in P
  <2> HIDE DEF P
  <2> QED
    BY <1>1, <1>5, <1>6, UpTo
<1>8. Fine(f[3 * k], k)
  BY <1>7
<1> QED
  BY <1>2, <1>3, <1>8 DEF s

-----------------------------------------------------------------------------
(* The ring as a queue.                                                     *)

\* What the keyboard, the serial line and the terminal exchange.
Characters == Glyphs \cup Controls

\* Rings of what is in S.
Rings(S) == [0 .. RingSize - 1 -> S]

\* What ring rg holds between tail t and head h, oldest first.
Held(rg, h, t) ==
  [i \in 1 .. (h + RingSize - t) % RingSize |-> rg[(t + i - 1) % RingSize]]

\* Remainders, once round the ring.
LEMMA Round ==
  ASSUME NEW a \in 0 .. 2 * RingSize - 1
  PROVE  a % RingSize = IF a < RingSize THEN a ELSE a - RingSize
BY ConsoleAssumption

\* How much the ring holds, and where: Held and Round without remainders.
Count(h, t) == IF h >= t THEN h - t ELSE h + RingSize - t
Place(t, i) == IF t + i - 1 < RingSize THEN t + i - 1 ELSE t + i - 1 - RingSize
After(i)    == IF i + 1 < RingSize THEN i + 1 ELSE 0

\* What a ring holds, told without remainders.
LEMMA HeldIs ==
  ASSUME NEW S, NEW rg \in Rings(S),
         NEW h \in 0 .. RingSize - 1, NEW t \in 0 .. RingSize - 1
  PROVE  /\ Count(h, t) \in 0 .. RingSize - 1
         /\ Held(rg, h, t) \in Seq(S) /\ Len(Held(rg, h, t)) = Count(h, t)
         /\ \A i \in 1 .. Count(h, t) : Held(rg, h, t)[i] = rg[Place(t, i)]
<1> DEFINE n == Count(h, t)
           b == [i \in 1 .. n |-> rg[Place(t, i)]]
<1>1. RingSize \in Nat \ {0}
  BY ConsoleAssumption
<1>2. n \in 0 .. RingSize - 1 /\ n \in Nat
  BY <1>1 DEF Count
<1>3. (h + RingSize - t) % RingSize = n
  <2> DEFINE a == h + RingSize - t
  <2>1. a \in 0 .. 2 * RingSize - 1 /\ n = IF a < RingSize THEN a ELSE a - RingSize
    BY <1>1 DEF Count
  <2> HIDE DEF a, n
  <2>2. a % RingSize = n
    BY <2>1, Round
  <2> QED
    BY <2>2 DEF a
<1>4. ASSUME NEW i \in 1 .. n
      PROVE  (t + i - 1) % RingSize = Place(t, i) /\ Place(t, i) \in 0 .. RingSize - 1
  <2> DEFINE a == t + i - 1
             p == Place(t, i)
  <2> HIDE DEF n
  <2>1. a \in 0 .. 2 * RingSize - 1 /\ p = IF a < RingSize THEN a ELSE a - RingSize
    BY <1>1, <1>2 DEF Place
  <2>2. p \in 0 .. RingSize - 1
    BY <1>1, <2>1
  <2> HIDE DEF a, p
  <2>3. a % RingSize = p
    BY <2>1, Round
  <2> QED
    BY <2>2, <2>3 DEF a, p
<1>5. Held(rg, h, t) = b
  BY <1>3, <1>4 DEF Held
<1> HIDE DEF n
<1>6. b \in [1 .. n -> S] /\ \A i \in 1 .. n : b[i] = rg[Place(t, i)]
  BY <1>4 DEF Rings
<1> HIDE DEF b
<1>7. b \in Seq(S) /\ Len(b) = n
  BY <1>2, <1>6, IsSequence
<1> QED
  BY <1>2, <1>5, <1>6, <1>7 DEF n

\* The next place in the ring.
LEMMA AfterIs ==
  ASSUME NEW i \in 0 .. RingSize - 1
  PROVE  (i + 1) % RingSize = After(i) /\ After(i) \in 0 .. RingSize - 1
<1> DEFINE a == i + 1
<1>1. RingSize \in Nat \ {0}
  BY ConsoleAssumption
<1>2. a \in 0 .. 2 * RingSize - 1 /\ After(i) = IF a < RingSize THEN a ELSE a - RingSize
  BY <1>1 DEF After
<1>3. After(i) \in 0 .. RingSize - 1
  BY <1>1 DEF After
<1> HIDE DEF a
<1>4. a % RingSize = After(i)
  BY <1>2, Round
<1> QED
  BY <1>3, <1>4 DEF a

\* A full ring has one slot left, between the newest and the oldest.
LEMMA FullHeld ==
  ASSUME NEW S, NEW rg \in Rings(S),
         NEW h \in 0 .. RingSize - 1, NEW t \in 0 .. RingSize - 1, After(h) = t
  PROVE  Len(Held(rg, h, t)) = RingSize - 1
<1>1. RingSize \in Nat \ {0}
  BY ConsoleAssumption
<1>2. Count(h, t) = RingSize - 1
  BY <1>1 DEF After, Count
<1> QED
  BY <1>2, HeldIs

\* A character goes to the end, if the ring is not full.
LEMMA PushHeld ==
  ASSUME NEW S, NEW rg \in Rings(S), NEW c \in S,
         NEW h \in 0 .. RingSize - 1, NEW t \in 0 .. RingSize - 1, After(h) # t
  PROVE  /\ Len(Held(rg, h, t)) < RingSize - 1
         /\ Held([rg EXCEPT ![h] = c], After(h), t) = Append(Held(rg, h, t), c)
<1> DEFINE u == [rg EXCEPT ![h] = c]
           n == After(h)
           old == Held(rg, h, t)
           new == Held(u, n, t)
           k == Count(h, t)
<1>1. RingSize \in Nat \ {0} /\ n \in 0 .. RingSize - 1
  BY ConsoleAssumption, AfterIs
<1>2. u \in Rings(S) /\ u[h] = c /\ \A j \in 0 .. RingSize - 1 : j # h => u[j] = rg[j]
  BY DEF Rings
<1> HIDE DEF u, k
<1>3. /\ k \in 0 .. RingSize - 1 /\ old \in Seq(S) /\ Len(old) = k
      /\ \A i \in 1 .. k : old[i] = rg[Place(t, i)]
  BY HeldIs DEF k
<1> HIDE DEF n
<1>4. /\ new \in Seq(S) /\ Len(new) = Count(n, t)
      /\ \A i \in 1 .. Count(n, t) : new[i] = u[Place(t, i)]
  <2>1. u \in Rings(S)
    BY <1>2
  <2>2. n \in 0 .. RingSize - 1
    BY <1>1
  <2> HIDE DEF old
  <2>3. Held(u, n, t) \in Seq(S) /\ Len(Held(u, n, t)) = Count(n, t)
    BY <2>1, <2>2, HeldIs
  <2>4. \A i \in 1 .. Count(n, t) : Held(u, n, t)[i] = u[Place(t, i)]
    BY <2>1, <2>2, HeldIs
  <2> QED
    BY <2>3, <2>4 DEF new
<1> HIDE DEF old, new
<1>5. n # t
  BY DEF n
<1>6. k < RingSize - 1 /\ new = Append(old, c)
  <2>1. k < RingSize - 1 /\ Count(n, t) = k + 1
    BY <1>1, <1>5 DEF n, k, After, Count
  <2>2. ASSUME NEW i \in 1 .. k + 1
        PROVE  new[i] = Append(old, c)[i]
    <3>1. CASE i = k + 1
      <4>1. Place(t, i) = h
        BY <1>1, <3>1 DEF k, Count, Place
      <4>2. new[i] = c
        BY <1>2, <1>4, <2>1, <4>1
      <4> QED
        BY <1>3, <3>1, <4>2
    <3>2. CASE i # k + 1
      <4>1. i \in 1 .. k
        BY <1>3, <3>2
      <4>2. Place(t, i) # h /\ Place(t, i) \in 0 .. RingSize - 1
        BY <1>1, <1>3, <4>1 DEF k, Count, Place
      <4>3. new[i] = rg[Place(t, i)] /\ old[i] = rg[Place(t, i)]
        BY <1>2, <1>3, <1>4, <2>1, <4>1, <4>2
      <4>4. Append(old, c)[i] = old[i]
        BY <1>3, <4>1
      <4> QED
        BY <4>3, <4>4
    <3> QED
      BY <3>1, <3>2
  <2>3. Append(old, c) \in Seq(S) /\ Len(Append(old, c)) = k + 1
    BY <1>3
  <2>4. new = Append(old, c)
    BY <1>4, <2>1, <2>2, <2>3, SeqEqual
  <2> QED
    BY <2>1, <2>4
<1> QED
  BY <1>3, <1>6 DEF n, old, new, u

\* The oldest character goes first.
LEMMA ReadHeld ==
  ASSUME NEW S, NEW rg \in Rings(S), NEW c \in S,
         NEW h \in 0 .. RingSize - 1, NEW t \in 0 .. RingSize - 1, h # t
  PROVE  /\ Held(rg, h, t) # << >> /\ Head(Held(rg, h, t)) = rg[t]
         /\ Held([rg EXCEPT ![t] = c], h, After(t)) = Tail(Held(rg, h, t))
<1> DEFINE u == [rg EXCEPT ![t] = c]
           n == After(t)
           old == Held(rg, h, t)
           new == Held(u, h, n)
           k == Count(h, t)
<1>1. RingSize \in Nat \ {0} /\ n \in 0 .. RingSize - 1
  BY ConsoleAssumption, AfterIs
<1>2. u \in Rings(S) /\ \A j \in 0 .. RingSize - 1 : j # t => u[j] = rg[j]
  BY DEF Rings
<1> HIDE DEF u, k
<1>3. /\ k \in 0 .. RingSize - 1 /\ old \in Seq(S) /\ Len(old) = k
      /\ \A i \in 1 .. k : old[i] = rg[Place(t, i)]
  BY HeldIs DEF k
<1> HIDE DEF n
<1>4. /\ new \in Seq(S) /\ Len(new) = Count(h, n)
      /\ \A i \in 1 .. Count(h, n) : new[i] = u[Place(n, i)]
  <2>1. u \in Rings(S)
    BY <1>2
  <2>2. n \in 0 .. RingSize - 1
    BY <1>1
  <2> HIDE DEF old
  <2>3. Held(u, h, n) \in Seq(S) /\ Len(Held(u, h, n)) = Count(h, n)
    BY <2>1, <2>2, HeldIs
  <2>4. \A i \in 1 .. Count(h, n) : Held(u, h, n)[i] = u[Place(n, i)]
    BY <2>1, <2>2, HeldIs
  <2> QED
    BY <2>3, <2>4 DEF new
<1> HIDE DEF old, new
<1>5. k >= 1 /\ Count(h, n) = k - 1
  BY <1>1 DEF n, k, After, Count
<1>6. old # << >> /\ Head(old) = rg[t]
  <2>1. Place(t, 1) = t /\ 1 \in 1 .. k
    BY <1>1, <1>3, <1>5 DEF Place
  <2>2. old[1] = rg[t]
    BY <1>3, <2>1
  <2> QED
    BY <1>3, <1>5, <2>2
<1>7. Tail(old) \in Seq(S) /\ Len(Tail(old)) = k - 1 /\ \A i \in 1 .. k - 1 : Tail(old)[i] = old[i + 1]
  BY <1>3, <1>5, <1>6
<1>8. ASSUME NEW i \in 1 .. k - 1
      PROVE  new[i] = Tail(old)[i]
  <2>1. i + 1 \in 1 .. k
    BY <1>3
  <2>2. Place(n, i) = Place(t, i + 1) /\ Place(n, i) \in 0 .. RingSize - 1 /\ Place(n, i) # t
    BY <1>1, <1>3, <2>1 DEF n, After, Place
  <2> QED
    BY <1>2, <1>3, <1>4, <1>5, <1>7, <2>1, <2>2
<1>9. new = Tail(old)
  BY <1>4, <1>5, <1>7, <1>8, SeqEqual
<1> QED
  BY <1>6, <1>9 DEF n, old, new, u

-----------------------------------------------------------------------------
(* The history.                                                             *)

\* The lines, repetitions counted once, after each line.
Keep(kept, l) == IF kept # << >> /\ Last(kept) = l THEN kept ELSE Append(kept, l)

\* The function f inside Distinct, as far as line n.
Keeps(f, lines, n) == f = [i \in 0 .. n |-> IF i = 0 THEN << >> ELSE Keep(f[i - 1], lines[i])]

\* That function exists.
LEMMA DistinctRuns ==
  ASSUME NEW lines, Len(lines) \in Nat
  PROVE  \E f : Keeps(f, lines, Len(lines)) /\ Distinct(lines) = f[Len(lines)]
<1> DEFINE P == {k \in Nat : \E f : Keeps(f, lines, k)}
<1>1. 0 \in P
  <2> DEFINE f == [i \in 0 .. 0 |-> << >>]
  <2>1. f = [i \in 0 .. 0 |-> IF i = 0 THEN << >> ELSE Keep(f[i - 1], lines[i])]
    OBVIOUS
  <2> HIDE DEF f
  <2>2. Keeps(f, lines, 0)
    BY <2>1 DEF Keeps
  <2> QED
    BY <2>2
<1>2. ASSUME NEW k \in Nat, k \in P
      PROVE  k + 1 \in P
  <2>1. PICK f : Keeps(f, lines, k)
    BY <1>2
  <2> DEFINE v == Keep(f[k], lines[k + 1])
             g == [i \in 0 .. k + 1 |-> IF i = k + 1 THEN v ELSE f[i]]
  <2>2. /\ g[k + 1] = v /\ \A i \in 0 .. k : g[i] = f[i]
        /\ g = [i \in 0 .. k + 1 |-> g[i]]
    <3> HIDE DEF v
    <3> QED
      OBVIOUS
  <2> HIDE DEF g
  <2>3. \A i \in 0 .. k : f[i] = IF i = 0 THEN << >> ELSE Keep(f[i - 1], lines[i])
    BY <2>1 DEF Keeps
  <2>4. ASSUME NEW i \in 0 .. k + 1
        PROVE  g[i] = IF i = 0 THEN << >> ELSE Keep(g[i - 1], lines[i])
    <3>1. CASE i = k + 1
      <4>1. i # 0 /\ i - 1 = k /\ k \in 0 .. k
        BY <3>1
      <4> QED
        BY <2>2, <3>1, <4>1
    <3>2. CASE i # k + 1
      <4>1. i \in 0 .. k /\ (i # 0 => i - 1 \in 0 .. k)
        BY <3>2
      <4>2. g[i] = f[i] /\ (i # 0 => g[i - 1] = f[i - 1])
        BY <2>2, <4>1
      <4> QED
        BY <2>3, <4>1, <4>2
    <3> QED
      BY <3>1, <3>2
  <2>5. g = [i \in 0 .. k + 1 |-> IF i = 0 THEN << >> ELSE Keep(g[i - 1], lines[i])]
    BY <2>2, <2>4
  <2>6. Keeps(g, lines, k + 1)
    BY <2>5 DEF Keeps
  <2> QED
    BY <2>6
<1>3. Len(lines) \in P
  <2> HIDE DEF P
  <2> QED
    BY <1>1, <1>2, AllOf
<1> DEFINE n == Len(lines)
           kept == CHOOSE f : Keeps(f, lines, n)
<1>4. Keeps(kept, lines, n)
  BY <1>3
<1>5. Distinct(lines) = kept[n]
  BY DEF Distinct, Keeps, Keep
<1> HIDE DEF kept
<1> QED
  BY <1>4, <1>5

\* What it gives, line by line.
LEMMA KeepsFrom ==
  ASSUME NEW f, NEW lines, NEW n \in Nat, Keeps(f, lines, n)
  PROVE  f[0] = << >> /\ \A i \in 1 .. n : f[i] = Keep(f[i - 1], lines[i])
<1>1. \A i \in 0 .. n : f[i] = IF i = 0 THEN << >> ELSE Keep(f[i - 1], lines[i])
  BY DEF Keeps
<1> QED
  BY <1>1

\* One more line is kept unless it repeats the last.
LEMMA DistinctNext ==
  ASSUME NEW S, NEW lines \in Seq(S), NEW l \in S
  PROVE  Distinct(Append(lines, l)) = Keep(Distinct(lines), l)
<1> DEFINE n == Len(lines)
           more == Append(lines, l)
<1>1. /\ n \in Nat /\ Len(more) = n + 1 /\ more[n + 1] = l
      /\ \A i \in 1 .. n : more[i] = lines[i]
  OBVIOUS
<1> HIDE DEF more
<1>2. PICK f : Keeps(f, lines, n) /\ Distinct(lines) = f[n]
  BY <1>1, DistinctRuns
<1>3. PICK g : Keeps(g, more, n + 1) /\ Distinct(more) = g[n + 1]
  <2>1. Len(more) \in Nat
    BY <1>1
  <2>2. \E g : Keeps(g, more, Len(more)) /\ Distinct(more) = g[Len(more)]
    BY <2>1, DistinctRuns
  <2> QED
    BY <1>1, <2>2
<1>4. f[0] = << >> /\ \A i \in 1 .. n : f[i] = Keep(f[i - 1], lines[i])
  BY <1>1, <1>2, KeepsFrom
<1>5. g[0] = << >> /\ \A i \in 1 .. n + 1 : g[i] = Keep(g[i - 1], more[i])
  <2>1. n + 1 \in Nat
    BY <1>1
  <2> QED
    BY <1>3, <2>1, KeepsFrom
<1> DEFINE P == {i \in 0 .. n : f[i] = g[i]}
<1>6. 0 \in P
  BY <1>1, <1>4, <1>5
<1>7. ASSUME NEW i \in 0 .. n - 1, i \in P
      PROVE  i + 1 \in P
  <2>1. i + 1 \in 1 .. n /\ i + 1 \in 1 .. n + 1 /\ i + 1 - 1 = i /\ i + 1 \in 0 .. n
    BY <1>1
  <2>2. f[i + 1] = Keep(f[i], lines[i + 1]) /\ g[i + 1] = Keep(g[i], more[i + 1])
    BY <1>4, <1>5, <2>1
  <2> QED
    BY <1>1, <1>7, <2>1, <2>2
<1>8. n \in P
  <2> HIDE DEF P
  <2>1. \A i \in 0 .. n - 1 : i \in P => i + 1 \in P
    BY <1>7
  <2>2. 0 .. n \subseteq P
    BY <1>1, <1>6, <2>1, UpTo
  <2> QED
    BY <1>1, <2>2
<1>9. f[n] = g[n]
  BY <1>8
<1>10. n + 1 \in 1 .. n + 1 /\ n + 1 - 1 = n
  BY <1>1
<1>11. g[n + 1] = Keep(g[n], l)
  BY <1>1, <1>5, <1>10
<1> QED
  BY <1>2, <1>3, <1>9, <1>11 DEF more

\* Only lines that were there are kept.
LEMMA DistinctIn ==
  ASSUME NEW S, NEW lines \in Seq(S)
  PROVE  Distinct(lines) \in Seq(S)
<1> DEFINE n == Len(lines)
<1>1. n \in Nat /\ \A i \in 1 .. n : lines[i] \in S
  OBVIOUS
<1>2. PICK f : Keeps(f, lines, n) /\ Distinct(lines) = f[n]
  BY <1>1, DistinctRuns
<1>3. f[0] = << >> /\ \A i \in 1 .. n : f[i] = Keep(f[i - 1], lines[i])
  BY <1>1, <1>2, KeepsFrom
<1> DEFINE P == {i \in 0 .. n : f[i] \in Seq(S)}
<1>4. 0 \in P
  <2>1. << >> \in Seq(S) /\ 0 \in 0 .. n
    BY <1>1
  <2> QED
    BY <1>3, <2>1
<1>5. ASSUME NEW i \in 0 .. n - 1, i \in P
      PROVE  i + 1 \in P
  <2>1. i + 1 \in 1 .. n /\ i + 1 - 1 = i /\ i + 1 \in 0 .. n
    BY <1>1
  <2>2. f[i + 1] = Keep(f[i], lines[i + 1]) /\ lines[i + 1] \in S
    BY <1>1, <1>3, <2>1
  <2>3. f[i] \in Seq(S)
    BY <1>5
  <2>4. Keep(f[i], lines[i + 1]) \in Seq(S)
    <3> DEFINE s == f[i]
               l == lines[i + 1]
    <3>1. s \in Seq(S) /\ l \in S
      BY <2>2, <2>3
    <3> HIDE DEF s, l
    <3>2. Keep(s, l) \in Seq(S)
      BY <3>1 DEF Keep
    <3> QED
      BY <3>2 DEF s, l
  <2> QED
    BY <2>1, <2>2, <2>4
<1>6. n \in P
  <2> HIDE DEF P
  <2>1. \A i \in 0 .. n - 1 : i \in P => i + 1 \in P
    BY <1>5
  <2>2. 0 .. n \subseteq P
    BY <1>1, <1>4, <2>1, UpTo
  <2> QED
    BY <1>1, <2>2
<1> QED
  BY <1>2, <1>6

\* No line, none kept.
LEMMA DistinctNone == Distinct(<< >>) = << >>
<1>1. Len(<< >>) = 0
  OBVIOUS
<1>2. PICK f : Keeps(f, << >>, 0) /\ Distinct(<< >>) = f[0]
  BY <1>1, DistinctRuns
<1>3. f[0] = << >>
  BY <1>2, KeepsFrom
<1> QED
  BY <1>2, <1>3

\* The last lines of all, as many as there is room for.
Recent(all) == SubSeq(all, Max({1, Len(all) - HistMax + 1}), Len(all))

\* How many of n lines there is room for.
Fit(n) == IF n <= HistMax THEN n ELSE HistMax

\* One line more fits, or the history stays full.
LEMMA FitIs ==
  ASSUME NEW n \in Nat
  PROVE  /\ Fit(n) \in Nat /\ Fit(n) <= n /\ Fit(n) <= HistMax
         /\ Fit(n) = HistMax => Fit(n + 1) = HistMax /\ n >= HistMax
         /\ Fit(n) # HistMax => Fit(n) = n /\ Fit(n + 1) = n + 1
         /\ n # 0 => Fit(n) # 0
<1>1. HistMax \in Nat \ {0}
  BY ConsoleAssumption
<1> QED
  BY <1>1 DEF Fit

\* The last lines, one by one.
LEMMA RecentIs ==
  ASSUME NEW S, NEW all \in Seq(S)
  PROVE  /\ Recent(all) \in Seq(S) /\ Len(Recent(all)) = Fit(Len(all))
         /\ \A i \in 1 .. Fit(Len(all)) : Recent(all)[i] = all[Len(all) - Fit(Len(all)) + i]
<1> DEFINE n == Len(all)
           k == Fit(n)
           a == n - HistMax + 1
           m == n - k + 1
<1>1. n \in Nat /\ HistMax \in Nat \ {0} /\ k \in 0 .. n /\ \A i \in 1 .. n : all[i] \in S
  <2>1. HistMax \in Nat \ {0} /\ n \in Nat /\ \A i \in 1 .. n : all[i] \in S
    BY ConsoleAssumption
  <2> HIDE DEF n
  <2>2. k \in Nat /\ k <= n
    BY <2>1, FitIs
  <2> QED
    BY <2>1, <2>2
<1>2. a \in Int /\ m = IF 1 >= a THEN 1 ELSE a
  BY <1>1 DEF Fit
<1>3. Max({1, a}) = m
  <2> HIDE DEF a, m
  <2>1. 1 \in Int
    OBVIOUS
  <2>2. Max({1, a}) = IF 1 >= a THEN 1 ELSE a
    BY <1>2, <2>1, OfTwo
  <2> QED
    BY <1>2, <2>2
<1>4. Recent(all) = SubSeq(all, m, n)
  BY <1>3 DEF Recent
<1>5. m \in Int /\ n \in Int /\ \A i \in m .. n : i \in 1 .. n
  BY <1>1
<1>6. n - m + 1 = k /\ (m <= n \/ k = 0) /\ \A i \in 1 .. k : m + i - 1 = n - k + i
  BY <1>1
<1> HIDE DEF m, k, n
<1>7. \A i \in m .. n : all[i] \in S
  BY <1>1, <1>5
<1> DEFINE r == SubSeq(all, m, n)
<1>8. r \in Seq(S)
  BY <1>5, <1>7, SubSeqProperties
<1>9. Len(r) = IF m <= n THEN n - m + 1 ELSE 0
  BY <1>5, <1>7, SubSeqProperties
<1>10. \A i \in 1 .. n - m + 1 : r[i] = all[m + i - 1]
  BY <1>5, <1>7, SubSeqProperties
<1> HIDE DEF r
<1>11. Len(r) = k
  BY <1>6, <1>9, <1>5
<1>12. \A i \in 1 .. k : r[i] = all[n - k + i]
  BY <1>6, <1>10
<1> QED
  BY <1>4, <1>8, <1>11, <1>12 DEF n, k, r

\* A line more at the end, and the first gone if there is no room for it.
LEMMA PushedIs ==
  ASSUME NEW S, NEW all \in Seq(S), NEW l \in S
  PROVE  Recent(Append(all, l)) =
           IF Len(Recent(all)) = HistMax THEN Append(Tail(Recent(all)), l)
           ELSE Append(Recent(all), l)
<1> DEFINE h == Recent(all)
           n == Len(all)
           more == Append(all, l)
           g == Recent(more)
<1>1. n \in Nat /\ HistMax \in Nat \ {0}
  BY ConsoleAssumption
<1>2. h \in Seq(S) /\ Len(h) = Fit(n) /\ \A i \in 1 .. Fit(n) : h[i] = all[n - Fit(n) + i]
  BY RecentIs
<1>3. /\ more \in Seq(S) /\ Len(more) = n + 1 /\ more[n + 1] = l
      /\ \A i \in 1 .. n : more[i] = all[i]
  OBVIOUS
<1> HIDE DEF h, n, more
<1>4. /\ g \in Seq(S) /\ Len(g) = Fit(n + 1)
      /\ \A i \in 1 .. Fit(n + 1) : g[i] = more[(n + 1) - Fit(n + 1) + i]
  <2> DEFINE len == Len(more)
  <2>2. len = n + 1
    BY <1>3
  <2>1. /\ g \in Seq(S) /\ Len(g) = Fit(len)
        /\ \A i \in 1 .. Fit(len) : g[i] = more[len - Fit(len) + i]
    BY <1>3, RecentIs
  <2> HIDE DEF len, g
  <2> QED
    BY <1>1, <2>1, <2>2, Zenon
<1> HIDE DEF g
<1>5. CASE Fit(n) = HistMax
  <2> DEFINE p == Append(Tail(h), l)
  <2>1. Fit(n + 1) = HistMax /\ n >= HistMax
    BY <1>1, <1>5, FitIs
  <2>2. h # << >>
    BY <1>1, <1>2, <1>5
  <2>3. /\ Tail(h) \in Seq(S) /\ Len(Tail(h)) = HistMax - 1
        /\ \A i \in 1 .. HistMax - 1 : Tail(h)[i] = h[i + 1]
    BY <1>1, <1>2, <1>5, <2>2
  <2>4. /\ p \in Seq(S) /\ Len(p) = HistMax /\ p[HistMax] = l
        /\ \A i \in 1 .. HistMax - 1 : p[i] = Tail(h)[i]
    <3> DEFINE u == Tail(h)
    <3> HIDE DEF u
    <3>1. u \in Seq(S) /\ Len(u) = HistMax - 1
      BY <2>3 DEF u
    <3>2. /\ Append(u, l) \in Seq(S) /\ Len(Append(u, l)) = HistMax
          /\ Append(u, l)[HistMax] = l /\ \A i \in 1 .. HistMax - 1 : Append(u, l)[i] = u[i]
      BY <1>1, <3>1
    <3> QED
      BY <3>2 DEF u
  <2> HIDE DEF p
  <2>5. ASSUME NEW i \in 1 .. HistMax
        PROVE  p[i] = g[i]
    <3>1. g[i] = more[(n + 1) - HistMax + i]
      BY <1>4, <2>1
    <3>2. CASE i = HistMax
      <4>1. (n + 1) - HistMax + i = n + 1
        BY <1>1, <3>2
      <4> QED
        BY <1>3, <2>4, <3>1, <3>2, <4>1
    <3>3. CASE i # HistMax
      <4>1. /\ i \in 1 .. HistMax - 1 /\ i + 1 \in 1 .. HistMax
            /\ (n + 1) - HistMax + i \in 1 .. n /\ n - HistMax + (i + 1) = (n + 1) - HistMax + i
        BY <1>1, <2>1, <3>3
      <4>2. p[i] = h[i + 1]
        BY <2>3, <2>4, <4>1
      <4>3. h[i + 1] = all[(n + 1) - HistMax + i]
        BY <1>2, <1>5, <4>1
      <4> QED
        BY <1>3, <3>1, <4>1, <4>2, <4>3
    <3> QED
      BY <3>2, <3>3
  <2>6. g = p
    BY <1>4, <2>1, <2>4, <2>5, SeqEqual
  <2> QED
    BY <1>2, <1>5, <2>6 DEF g, p, h, more
<1>6. CASE Fit(n) # HistMax
  <2> DEFINE p == Append(h, l)
  <2>1. Fit(n) = n /\ Fit(n + 1) = n + 1
    BY <1>1, <1>6, FitIs
  <2>2. h \in Seq(S) /\ Len(h) = n
    BY <1>2, <2>1
  <2>3. /\ p \in Seq(S) /\ Len(p) = n + 1 /\ p[n + 1] = l
        /\ \A i \in 1 .. n : p[i] = h[i]
    BY <2>2
  <2> HIDE DEF p
  <2>4. ASSUME NEW i \in 1 .. n + 1
        PROVE  p[i] = g[i]
    <3>1. g[i] = more[i]
      <4>1. g[i] = more[(n + 1) - (n + 1) + i]
        BY Zenon, <1>4, <2>1
      <4>2. (n + 1) - (n + 1) + i = i
        BY <1>1
      <4> QED
        BY <4>1, <4>2
    <3>2. CASE i = n + 1
      BY <1>3, <2>3, <3>1, <3>2
    <3>3. CASE i # n + 1
      <4>1. i \in 1 .. n /\ n - n + i = i
        BY <1>1, <3>3
      <4>2. h[i] = all[i]
        BY <1>2, <2>1, <4>1
      <4> QED
        BY <1>3, <2>3, <3>1, <4>1, <4>2
    <3> QED
      BY <3>2, <3>3
  <2>5. g = p
    BY <1>4, <2>1, <2>3, <2>4, SeqEqual
  <2> QED
    BY <1>2, <1>6, <2>5 DEF g, p, h, more
<1> QED
  BY <1>5, <1>6

\* hist_push keeps the last lines of all, counting repetitions once.
LEMMA HistPushIs ==
  ASSUME NEW S, NEW all \in Seq(S), NEW l \in S, l # << >>
  PROVE  HistPush(Recent(all), l) = Recent(Keep(all, l))
<1> DEFINE h == Recent(all)
           n == Len(all)
<1>1. n \in Nat /\ HistMax \in Nat \ {0}
  BY ConsoleAssumption
<1>2. h \in Seq(S) /\ Len(h) = Fit(n) /\ \A i \in 1 .. Fit(n) : h[i] = all[n - Fit(n) + i]
  BY RecentIs
<1>3. (n = 0 <=> all = << >>) /\ (Len(h) = 0 <=> h = << >>)
  BY <1>2
<1> HIDE DEF h, n
<1>4. h = << >> <=> all = << >>
  BY <1>1, <1>2, <1>3, FitIs
<1>5. h # << >> => Last(h) = Last(all)
  <2> SUFFICES ASSUME h # << >> PROVE h[Fit(n)] = all[n]
    BY <1>2 DEF Last, n
  <2>1. Fit(n) \in 1 .. Fit(n) /\ n - Fit(n) + Fit(n) = n
    BY <1>1, <1>2, <1>3, FitIs
  <2> QED
    BY <1>2, <2>1
<1>6. Recent(Append(all, l)) = IF Len(h) = HistMax THEN Append(Tail(h), l) ELSE Append(h, l)
  BY PushedIs DEF h
<1>7. HistPush(h, l) = IF h # << >> /\ Last(h) = l THEN h
                       ELSE IF Len(h) = HistMax THEN Append(Tail(h), l) ELSE Append(h, l)
  BY DEF HistPush
<1>8. CASE all # << >> /\ Last(all) = l
  BY <1>4, <1>5, <1>7, <1>8 DEF Keep, h
<1>9. CASE ~(all # << >> /\ Last(all) = l)
  BY <1>4, <1>5, <1>6, <1>7, <1>9 DEF Keep, h
<1> QED
  BY <1>8, <1>9

-----------------------------------------------------------------------------
(* The inductive invariant.                                                 *)

\* The ring's indices are within it, and the bytes on their way are characters.
QueueInv ==
  /\ head \in 0 .. RingSize - 1 /\ tail \in 0 .. RingSize - 1
  /\ ring \in Rings(Characters \cup {NoChar})
  /\ Held(ring, head, tail) \in Seq(Characters)
  /\ uart \in Seq(Characters) /\ Len(uart) <= UartSize

\* What read_line can hold.
Lines == {l \in Seq(Glyphs) : Len(l) <= LineMax}

\* Terminal t shows line l from column `from' to the cursor.
Shows(t, from, l) ==
  /\ t.col = from + Len(l)
  /\ \A i \in 1 .. Len(l) : t.grid[t.row][from + i - 1] = l[i]

\* The line editor's variables have their types.
EditInv ==
  /\ pc \in {"line", "esc", "csi"} /\ line \in Lines /\ over \in BOOLEAN /\ spoilt \in BOOLEAN
  /\ term \in Terms /\ start \in 0 .. Cols - 1

\* The line is on the screen, unless its echo has wrapped or it was not all kept.
LineInv == Clean(term) /\ (~over => Shows(term, start, line))

\* The history is the last of the lines entered.
HistoryInv ==
  /\ hist \in Seq(Lines) /\ Len(hist) <= HistMax /\ hpos \in 0 .. Len(hist)
  /\ ran \in Seq(Lines) /\ hist = Recent(Distinct(ran))

\* The counters of the bounds.
BoundInv == shift \in BOOLEAN /\ typed \in 0 .. MaxTyped /\ sent \in 0 .. MaxSent

\* The inductive invariant.
IInv == QueueInv /\ EditInv /\ (~spoilt => LineInv) /\ HistoryInv /\ BoundInv

\* What waits in the ring, without the bound variable of Waiting.
LEMMA WaitingIs == Waiting = Held(ring, head, tail)
BY DEF Waiting, Held

\* The same after a step.
LEMMA WaitingWas == Waiting' = Held(ring', head', tail')
BY DEF Waiting, Held

\* Reading takes the byte that waited longest, and makes of it a character.
LEMMA ReadIs ==
  ASSUME QueueInv, Read
  PROVE  /\ QueueInv' /\ Byte \in Characters
         /\ IF head # tail THEN Waiting # << >> /\ Waiting' = Tail(Waiting)
            ELSE Waiting' = Waiting
<1>1. /\ head \in 0 .. RingSize - 1 /\ tail \in 0 .. RingSize - 1
      /\ ring \in Rings(Characters \cup {NoChar}) /\ Held(ring, head, tail) \in Seq(Characters)
      /\ uart \in Seq(Characters) /\ Len(uart) <= UartSize
  BY DEF QueueInv
<1>2. head' = head /\ "BS" \in Characters
  BY DEF Read, input, Characters, Controls
<1>3. CASE head # tail
  <2> DEFINE old == Held(ring, head, tail)
             new == Held(ring', head', tail')
  <2>1. uart' = uart /\ ring' = [ring EXCEPT ![tail] = NoChar] /\ tail' = (tail + 1) % RingSize
    BY <1>3 DEF Read
  <2>2. tail' = After(tail) /\ tail' \in 0 .. RingSize - 1
    BY <1>1, <2>1, AfterIs
  <2>3. ring' \in Rings(Characters \cup {NoChar})
    BY <1>1, <2>1 DEF Rings
  <2>4. old # << >> /\ Head(old) = ring[tail] /\ new = Tail(old)
    <3>1. NoChar \in Characters \cup {NoChar}
      OBVIOUS
    <3>2. /\ old # << >> /\ Head(old) = ring[tail]
          /\ Held([ring EXCEPT ![tail] = NoChar], head, After(tail)) = Tail(old)
      <4> HIDE DEF NoChar
      <4> QED
        BY <1>1, <1>3, <3>1, ReadHeld
    <3> QED
      BY <1>2, <2>1, <2>2, <3>2
  <2> HIDE DEF old, new
  <2>5. old \in Seq(Characters)
    BY <1>1 DEF old
  <2>6. Tail(old) \in Seq(Characters) /\ Head(old) \in Characters
    BY <2>4, <2>5
  <2>7. Byte \in Characters
    BY <1>2, <1>3, <2>4, <2>6 DEF Byte
  <2>8. QueueInv'
    BY <1>1, <1>2, <2>1, <2>2, <2>3, <2>4, <2>6 DEF QueueInv, new
  <2> QED
    BY <1>3, <2>4, <2>7, <2>8, WaitingIs, WaitingWas DEF old, new
<1>4. CASE head = tail
  <2>1. uart # << >> /\ uart' = Tail(uart) /\ ring' = ring /\ tail' = tail
    BY <1>4 DEF Read, HasInput
  <2>2. Tail(uart) \in Seq(Characters) /\ Head(uart) \in Characters /\ Len(Tail(uart)) <= UartSize
    <3>1. UartSize \in Nat
      BY ConsoleAssumption
    <3> QED
      BY <1>1, <2>1, <3>1
  <2>3. Byte \in Characters
    BY <1>2, <1>4, <2>2 DEF Byte
  <2>4. QueueInv'
    BY <1>1, <1>2, <2>1, <2>2 DEF QueueInv
  <2> QED
    BY <1>2, <1>4, <2>1, <2>3, <2>4, WaitingIs, WaitingWas
<1> QED
  BY <1>3, <1>4

\* A key adds its character at the end of what waits, or the ring is full.
LEMMA KeyDownIs ==
  ASSUME QueueInv, NEW k \in Keys, KeyDown(k)
  PROVE  /\ QueueInv'
         /\ \E c \in Chars : Waiting' =
              IF Len(Waiting) < RingSize - 1 THEN Append(Waiting, c) ELSE Waiting
<1> DEFINE c == IF shift THEN Upper[k] ELSE Lower[k]
           old == Held(ring, head, tail)
           new == Held(ring', head', tail')
<1>1. /\ head \in 0 .. RingSize - 1 /\ tail \in 0 .. RingSize - 1
      /\ ring \in Rings(Characters \cup {NoChar}) /\ old \in Seq(Characters)
      /\ uart \in Seq(Characters) /\ Len(uart) <= UartSize
  BY DEF QueueInv
<1>2. c \in Chars /\ c # NoChar /\ Push(c) /\ tail' = tail /\ uart' = uart
  BY DEF KeyDown, Chars
<1>3. c \in Characters
  BY <1>2, ConsoleAssumption DEF Characters
<1> HIDE DEF c
<1>4. /\ (head + 1) % RingSize = After(head) /\ After(head) \in 0 .. RingSize - 1
  BY <1>1, AfterIs
<1>6. CASE After(head) = tail
  <2>1. ring' = ring /\ head' = head
    BY <1>2, <1>4, <1>6 DEF Push
  <2>2. QueueInv'
    BY <1>1, <1>2, <2>1 DEF QueueInv
  <2>3. Len(old) = RingSize - 1
    BY <1>1, <1>6, FullHeld
  <2>4. ~(Len(old) < RingSize - 1)
    BY <2>3, ConsoleAssumption
  <2> QED
    BY <1>2, <2>1, <2>2, <2>4, WaitingIs, WaitingWas
<1>7. CASE After(head) # tail
  <2>1. ring' = [ring EXCEPT ![head] = c] /\ head' = After(head)
    BY <1>2, <1>4, <1>7 DEF Push
  <2>2. ring' \in Rings(Characters \cup {NoChar})
    BY <1>1, <1>3, <2>1 DEF Rings
  <2>3. Len(old) < RingSize - 1 /\ new = Append(old, c)
    <3> DEFINE S == Characters \cup {NoChar}
    <3>1. c \in S /\ ring \in Rings(S)
      BY <1>1, <1>3
    <3>2. head \in 0 .. RingSize - 1 /\ tail \in 0 .. RingSize - 1
      BY <1>1
    <3> HIDE DEF S
    <3>3. /\ Len(Held(ring, head, tail)) < RingSize - 1
          /\ Held([ring EXCEPT ![head] = c], After(head), tail) = Append(Held(ring, head, tail), c)
      BY <1>7, <3>1, <3>2, PushHeld
    <3> QED
      BY <1>2, <2>1, <3>3
  <2> HIDE DEF old, new
  <2>4. Append(old, c) \in Seq(Characters)
    BY <1>1, <1>3
  <2>5. QueueInv'
    BY <1>1, <1>2, <1>4, <2>1, <2>2, <2>3, <2>4 DEF QueueInv, new
  <2> QED
    BY <1>2, <2>3, <2>5, WaitingIs, WaitingWas DEF old, new
<1> QED
  BY <1>6, <1>7

\* The serial line adds to the UART's bytes, and leaves the ring alone.
LEMMA SerialIs ==
  ASSUME QueueInv, NEW c \in SerialBytes, Serial(c)
  PROVE  QueueInv' /\ Waiting' = Waiting
<1>1. /\ ring' = ring /\ head' = head /\ tail' = tail
      /\ uart' = IF Len(uart) < UartSize THEN Append(uart, c) ELSE uart
  BY DEF Serial
<1>2. c \in Characters /\ UartSize \in Nat
  BY ConsoleAssumption DEF Characters
<1>3. uart \in Seq(Characters) /\ Len(uart) <= UartSize
  BY DEF QueueInv
<1>4. uart' \in Seq(Characters) /\ Len(uart') <= UartSize
  BY <1>1, <1>2, <1>3
<1>5. QueueInv'
  BY <1>1, <1>4 DEF QueueInv
<1> QED
  BY <1>1, <1>5, WaitingIs, WaitingWas

\* Nothing that waits changes when the ring and the UART do not.
LEMMA QueueStays ==
  ASSUME QueueInv, UNCHANGED <<ring, head, tail, uart>>
  PROVE  QueueInv' /\ Waiting' = Waiting
BY WaitingIs, WaitingWas DEF QueueInv

-----------------------------------------------------------------------------
(* The shell's steps.                                                       *)

\* hist_push keeps the history what it should be, for the line about to run.
LEMMA HistPushed ==
  ASSUME HistoryInv, NEW l \in Lines
  PROVE  /\ HistPush(hist, l) \in Seq(Lines) /\ Len(HistPush(hist, l)) <= HistMax
         /\ HistPush(hist, l) = Recent(Distinct(IF l = << >> THEN ran ELSE Append(ran, l)))
<1> DEFINE p == HistPush(hist, l)
<1>1. hist \in Seq(Lines) /\ Len(hist) <= HistMax /\ ran \in Seq(Lines)
  BY DEF HistoryInv
<1>2. HistMax \in Nat \ {0}
  BY ConsoleAssumption
<1>3. p \in Seq(Lines) /\ Len(p) <= HistMax
  <2>1. CASE Len(hist) = HistMax
    <3>1. hist # << >>
      BY <1>2, <2>1
    <3>2. Tail(hist) \in Seq(Lines) /\ Len(Tail(hist)) = HistMax - 1
      BY <1>1, <2>1, <3>1
    <3>3. Append(Tail(hist), l) \in Seq(Lines) /\ Len(Append(Tail(hist), l)) = HistMax
      BY <1>2, <3>2
    <3> QED
      BY <1>1, <2>1, <3>3 DEF HistPush
  <2>2. CASE Len(hist) # HistMax
    <3>1. Append(hist, l) \in Seq(Lines) /\ Len(Append(hist, l)) <= HistMax
      BY <1>1, <1>2, <2>2
    <3> QED
      BY <1>1, <2>2, <3>1 DEF HistPush
  <2> QED
    BY <2>1, <2>2
<1>4. p = Recent(Distinct(IF l = << >> THEN ran ELSE Append(ran, l)))
  <2>1. CASE l = << >>
    BY <2>1 DEF HistPush, HistoryInv
  <2>2. CASE l # << >>
    <3>1. Distinct(ran) \in Seq(Lines)
      BY <1>1, DistinctIn
    <3>2. HistPush(Recent(Distinct(ran)), l) = Recent(Keep(Distinct(ran), l))
      BY <2>2, <3>1, HistPushIs
    <3>3. Distinct(Append(ran, l)) = Keep(Distinct(ran), l)
      BY <1>1, DistinctNext
    <3> QED
      BY <2>2, <3>2, <3>3 DEF HistoryInv
  <2> QED
    BY <2>1, <2>2
<1> QED
  BY <1>3, <1>4

\* A fresh line after a prompt.
LEMMA StartLineIs ==
  ASSUME NEW t, Shown(t, Prompt) \in Terms, StartLine(t), spoilt' \in BOOLEAN
  PROVE  EditInv' /\ hpos' = Len(hist') /\ (Clean(Shown(t, Prompt)) => LineInv')
<1> DEFINE u == Shown(t, Prompt)
<1>1. /\ term' = u /\ start' = u.col /\ over' = FALSE /\ pc' = "line" /\ line' = << >>
      /\ hpos' = Len(hist')
  BY DEF StartLine
<1>2. LineMax \in Nat
  BY ConsoleAssumption
<1> HIDE DEF u
<1>3. u \in Terms /\ u.col \in 0 .. Cols - 1
  BY DEF u, Terms
<1>4. << >> \in Lines
  BY <1>2 DEF Lines
<1>5. Shows(u, u.col, << >>)
  BY <1>3 DEF Shows
<1>6. EditInv'
  BY <1>1, <1>3, <1>4 DEF EditInv
<1>7. Clean(u) => LineInv'
  BY <1>1, <1>5 DEF LineInv
<1> QED
  BY <1>1, <1>6, <1>7 DEF u

\* Enter leaves an empty line after a fresh prompt, and the line in the history.
LEMMA EnterIs ==
  ASSUME IInv, Enter
  PROVE  EditInv' /\ (~spoilt' => LineInv') /\ HistoryInv'
<1>1. PICK out \in IF line = << >> THEN {<< >>} ELSE Outputs :
        StartLine(Shown(term, <<"NL">> \o out)) /\ spoilt' = (spoilt \/ ~Orderly(out))
  BY DEF Enter
<1>2. term \in Terms /\ line \in Lines /\ ran \in Seq(Lines) /\ (~spoilt => Clean(term))
  BY DEF IInv, EditInv, LineInv, HistoryInv
<1>3. out \in Seq(Glyphs \cup Controls)
  <2>1. out = << >> \/ out \in Outputs
    OBVIOUS
  <2>2. << >> \in Seq(Glyphs \cup Controls)
    OBVIOUS
  <2>3. Outputs \subseteq Seq(Glyphs \cup Controls)
    BY ConsoleAssumption
  <2> QED
    BY <2>1, <2>2, <2>3
<1>4. EditInv' /\ hpos' = Len(hist') /\ (~spoilt' => LineInv')
  <2> DEFINE t == Shown(term, <<"NL">> \o out)
  <2>1. Shown(t, Prompt) \in Terms
    BY <1>2, <1>3, OutputTerm
  <2>2. ~spoilt' => ~spoilt /\ Orderly(out)
    BY <1>1, Zenon
  <2>3. ~spoilt' => Clean(Shown(t, Prompt))
    BY <1>2, <2>2, OutputIs
  <2>4. StartLine(t) /\ spoilt' \in BOOLEAN
    BY <1>1
  <2> HIDE DEF t
  <2> QED
    BY <2>1, <2>3, <2>4, StartLineIs
<1>5. /\ hist' = HistPush(hist, line)
      /\ ran' = IF line = << >> THEN ran ELSE Append(ran, line)
  BY DEF Enter
<1>6. /\ HistPush(hist, line) \in Seq(Lines) /\ Len(HistPush(hist, line)) <= HistMax
      /\ HistPush(hist, line) = Recent(Distinct(IF line = << >> THEN ran ELSE Append(ran, line)))
  BY <1>2, HistPushed DEF IInv
<1>7. hist' \in Seq(Lines) /\ Len(hist') <= HistMax /\ hist' = Recent(Distinct(ran'))
  BY <1>5, <1>6
<1>8. ran' \in Seq(Lines)
  BY <1>2, <1>5
<1>9. hpos' \in 0 .. Len(hist')
  BY <1>4, <1>7
<1> QED
  BY <1>4, <1>7, <1>8, <1>9 DEF HistoryInv

\* Echoed characters and backspaces leave a clean terminal clean.
LEMMA StillClean ==
  ASSUME NEW t \in Terms, NEW s \in Seq(Glyphs \cup {"BS"})
  PROVE  Shown(t, s) \in Terms /\ (Clean(t) => Clean(Shown(t, s)))
<1>1. s \in Seq(Glyphs \cup Controls)
  BY DEF Controls
<1>2. ASSUME NEW i \in 1 .. Len(s)
      PROVE  s[i] # "ESC" /\ s[i] # "CR"
  <2>1. s[i] \in Glyphs \cup {"BS"}
    OBVIOUS
  <2>2. s[i] \in Glyphs => s[i] \notin Controls
    BY TermAssumption
  <2> QED
    BY <2>1, <2>2 DEF Controls
<1>3. Text(s)
  BY <1>1, <1>2 DEF Text
<1> QED
  BY <1>1, <1>3, TextIs, ShownTerm

\* Rubouts show blanks.
LEMMA RuboutsClean ==
  ASSUME NEW t \in Terms, NEW k \in Nat
  PROVE  Shown(t, Rubouts(k)) \in Terms /\ (Clean(t) => Clean(Shown(t, Rubouts(k))))
<1> DEFINE S == Glyphs \cup {"BS"}
           m == 3 * k
           b == [i \in 1 .. m |-> IF i % 3 = 2 THEN " " ELSE "BS"]
<1>1. Rubouts(k) = b
  BY DEF Rubouts
<1>2. " " \in S /\ "BS" \in S /\ m \in Nat
  <2>1. " " \in Glyphs
    BY TermAssumption DEF Blank
  <2>2. " " \in S /\ "BS" \in S
    BY <2>1
  <2>3. m \in Nat
    OBVIOUS
  <2> QED
    BY <2>2, <2>3
<1> HIDE DEF S, m
<1>3. b \in [1 .. m -> S]
  BY <1>2
<1> HIDE DEF b
<1>4. b \in Seq(S)
  BY <1>2, <1>3, IsSequence
<1> QED
  BY <1>1, <1>4, StillClean DEF S

\* A sequence without its last element.
LEMMA FrontIs ==
  ASSUME NEW S, NEW s \in Seq(S), s # << >>
  PROVE  /\ Front(s) \in Seq(S) /\ Len(Front(s)) = Len(s) - 1
         /\ \A i \in 1 .. Len(s) - 1 : Front(s)[i] = s[i]
<1> DEFINE n == Len(s)
           m == n - 1
           u == SubSeq(s, 1, m)
<1>1. n \in Nat /\ n >= 1 /\ \A i \in 1 .. n : s[i] \in S
  OBVIOUS
<1>2. Front(s) = u
  BY DEF Front
<1>3. 1 \in Int /\ m \in Int /\ m - 1 + 1 = m /\ \A i \in 1 .. m : i \in 1 .. n /\ 1 + i - 1 = i
  BY <1>1
<1> HIDE DEF n, m
<1>4. \A i \in 1 .. m : s[i] \in S
  BY <1>1, <1>3
<1>5. u \in Seq(S)
  BY <1>3, <1>4, SubSeqProperties
<1>6. Len(u) = IF 1 <= m THEN m - 1 + 1 ELSE 0
  BY <1>3, <1>4, SubSeqProperties
<1>7. \A i \in 1 .. m - 1 + 1 : u[i] = s[1 + i - 1]
  BY <1>3, <1>4, SubSeqProperties
<1> HIDE DEF u
<1>8. Len(u) = m
  BY <1>1, <1>3, <1>6 DEF m
<1>9. \A i \in 1 .. m : u[i] = s[i]
  BY <1>3, <1>7
<1> QED
  BY <1>2, <1>5, <1>8, <1>9 DEF m, n

\* Backspace takes the last character from the line and from the screen.
LEMMA EraseIs ==
  ASSUME EditInv, ~spoilt => LineInv, Erase
  PROVE  EditInv' /\ (~spoilt' => LineInv')
<1>1. /\ pc' = pc /\ start' = start /\ over' = over /\ spoilt' = spoilt
      /\ line' = IF line = << >> THEN line ELSE Front(line)
      /\ term' = IF line = << >> THEN term ELSE Shown(term, <<"BS", " ", "BS">>)
  BY DEF Erase
<1>2. /\ pc \in {"line", "esc", "csi"} /\ line \in Lines /\ over \in BOOLEAN
      /\ spoilt \in BOOLEAN /\ term \in Terms /\ start \in 0 .. Cols - 1
      /\ ~spoilt => Clean(term) /\ (~over => Shows(term, start, line))
  BY DEF EditInv, LineInv
<1>3. CASE line = << >>
  BY <1>1, <1>2, <1>3 DEF EditInv, LineInv
<1>4. CASE line # << >>
  <2> DEFINE n == Len(line)
             u == Shown(term, <<"BS", " ", "BS">>)
             l == Front(line)
  <2>1. n \in Nat /\ n >= 1 /\ line \in Seq(Glyphs) /\ n <= LineMax
    BY <1>2, <1>4 DEF Lines
  <2>2. l \in Seq(Glyphs) /\ Len(l) = n - 1 /\ \A i \in 1 .. n - 1 : l[i] = line[i]
    BY <1>4, <2>1, FrontIs
  <2>3. <<"BS", " ", "BS">> = Rubouts(1)
    <3> DEFINE s == Rubouts(1)
               b == <<"BS", " ", "BS">>
    <3>1. 1 \in Nat /\ 3 * 1 = 3
      OBVIOUS
    <3>2. s \in Seq({" ", "BS"}) /\ Len(s) = 3
      BY <3>1, RuboutsAre
    <3>3. s[1] = "BS" /\ s[2] = " " /\ s[3] = "BS"
      BY DEF Rubouts
    <3>4. b \in Seq({" ", "BS"}) /\ Len(b) = 3 /\ b[1] = "BS" /\ b[2] = " " /\ b[3] = "BS"
      OBVIOUS
    <3> HIDE DEF s, b
    <3>5. \A i \in 1 .. 3 : s[i] = b[i]
      <4>1. \A i \in 1 .. 3 : i = 1 \/ i = 2 \/ i = 3
        OBVIOUS
      <4> QED
        BY <3>3, <3>4, <4>1
    <3>6. s = b
      BY <3>2, <3>4, <3>5, SeqEqual
    <3> QED
      BY <3>6 DEF s, b
  <2>4. term' = u /\ line' = l /\ u = Shown(term, Rubouts(1))
    BY <1>1, <1>4, <2>3
  <2> HIDE DEF u, l, n
  <2>5. u \in Terms /\ (~spoilt => Clean(u))
    <3>1. 1 \in Nat
      OBVIOUS
    <3> QED
      BY <1>2, <2>4, <3>1, RuboutsClean
  <2>6. LineMax \in Nat
    BY ConsoleAssumption
  <2>7. l \in Lines
    BY <2>1, <2>2, <2>6 DEF Lines
  <2>8. ASSUME ~spoilt, ~over
        PROVE  Shows(u, start, l)
    <3>1. term.col = start + n /\ \A i \in 1 .. n : term.grid[term.row][start + i - 1] = line[i]
      BY <1>2, <2>8 DEF Shows, n
    <3>2. /\ u.row = term.row /\ u.col = term.col - 1
          /\ \A c \in 0 .. term.col - 1 - 1 : u.grid[term.row][c] = term.grid[term.row][c]
      <4>1. 1 \in 0 .. term.col
        BY <1>2, <2>1, <3>1
      <4> QED
        BY <1>2, <2>4, <2>8, <4>1, RuboutsIs
    <3>3. ASSUME NEW i \in 1 .. n - 1
          PROVE  u.grid[u.row][start + i - 1] = l[i]
      <4>1. start + i - 1 \in 0 .. term.col - 1 - 1 /\ i \in 1 .. n
        BY <1>2, <2>1, <3>1
      <4> QED
        BY <2>2, <3>1, <3>2, <4>1
    <3>4. u.col = start + (n - 1)
      BY <1>2, <2>1, <3>1, <3>2
    <3> QED
      BY <2>2, <3>3, <3>4 DEF Shows
  <2> QED
    BY <1>1, <1>2, <2>4, <2>5, <2>7, <2>8 DEF EditInv, LineInv
<1> QED
  BY <1>3, <1>4

\* A character that prints is added to the line and to the screen.
LEMMA EchoKeeps ==
  ASSUME EditInv, ~spoilt => LineInv, Byte \in Characters, Echo
  PROVE  EditInv' /\ (~spoilt' => LineInv')
<1> DEFINE c == Byte
           n == Len(line)
           u == Shown(term, <<c>>)
<1>1. /\ pc' = pc /\ start' = start /\ term' = u /\ spoilt' = spoilt
      /\ line' = IF n < LineMax THEN Append(line, c) ELSE line
      /\ over' = (over \/ n = LineMax \/ start + n + 1 >= Cols)
  BY DEF Echo
<1>2. /\ pc \in {"line", "esc", "csi"} /\ line \in Lines /\ over \in BOOLEAN
      /\ spoilt \in BOOLEAN /\ term \in Terms /\ start \in 0 .. Cols - 1
      /\ ~spoilt => Clean(term) /\ (~over => Shows(term, start, line))
  BY DEF EditInv, LineInv
<1>3. c \in Glyphs
  BY DEF Echo, Characters
<1>4. n \in Nat /\ line \in Seq(Glyphs) /\ n <= LineMax /\ LineMax \in Nat /\ Cols \in Nat
  BY <1>2, ConsoleAssumption, Sizes DEF Lines
<1> HIDE DEF c, u
<1>5. <<c>> \in Seq(Glyphs) /\ <<c>> \in Seq(Glyphs \cup {"BS"}) /\ Len(<<c>>) = 1 /\ <<c>>[1] = c
  BY <1>3
<1>6. u \in Terms /\ (~spoilt => Clean(u))
  BY <1>2, <1>5, StillClean DEF u
<1>7. line' \in Lines
  <2>1. CASE n < LineMax
    <3>1. Append(line, c) \in Seq(Glyphs) /\ Len(Append(line, c)) = n + 1
      BY <1>3, <1>4
    <3> QED
      BY <1>1, <1>4, <2>1, <3>1 DEF Lines
  <2>2. CASE ~(n < LineMax)
    BY <1>1, <1>2, <2>2
  <2> QED
    BY <2>1, <2>2
<1>8. ASSUME ~spoilt, ~over'
      PROVE  Shows(u, start, line')
  <2>1. ~over /\ n < LineMax /\ start + n + 1 < Cols
    <3>1. ~(over \/ n = LineMax \/ start + n + 1 >= Cols)
      BY <1>1, <1>8, Zenon
    <3> QED
      BY <1>2, <1>4, <3>1
  <2>2. term.col = start + n /\ \A i \in 1 .. n : term.grid[term.row][start + i - 1] = line[i]
    BY <1>2, <1>8, <2>1 DEF Shows
  <2>3. /\ u.row = term.row /\ u.col = term.col + 1
        /\ \A k \in 0 .. term.col - 1 : u.grid[term.row][k] = term.grid[term.row][k]
        /\ u.grid[term.row][term.col] = c
    <3>1. term.col + Len(<<c>>) < Cols /\ 1 \in 1 .. Len(<<c>>) /\ term.col + 1 - 1 = term.col
      BY <1>2, <1>4, <1>5, <2>1, <2>2
    <3>2. /\ u.row = term.row /\ u.col = term.col + Len(<<c>>)
          /\ \A k \in 0 .. term.col - 1 : u.grid[term.row][k] = term.grid[term.row][k]
          /\ \A i \in 1 .. Len(<<c>>) : u.grid[term.row][term.col + i - 1] = <<c>>[i]
      BY <1>2, <1>5, <1>8, <3>1, EchoIs DEF u
    <3> QED
      BY <1>5, <3>1, <3>2
  <2>4. /\ line' = Append(line, c) /\ Len(line') = n + 1 /\ line'[n + 1] = c
        /\ \A i \in 1 .. n : line'[i] = line[i]
    BY <1>1, <1>4, <2>1
  <2>5. ASSUME NEW i \in 1 .. n + 1
        PROVE  u.grid[u.row][start + i - 1] = line'[i]
    <3>1. CASE i = n + 1
      <4>1. start + i - 1 = term.col
        BY <1>2, <1>4, <2>2, <3>1
      <4> QED
        BY <2>3, <2>4, <3>1, <4>1
    <3>2. CASE i # n + 1
      <4>1. i \in 1 .. n /\ start + i - 1 \in 0 .. term.col - 1
        BY <1>2, <1>4, <2>2, <3>2
      <4> QED
        BY <2>2, <2>3, <2>4, <4>1
    <3> QED
      BY <3>1, <3>2
  <2>6. u.col = start + (n + 1)
    BY <1>2, <1>4, <2>2, <2>3
  <2> QED
    BY <2>4, <2>5, <2>6 DEF Shows
<1>9. over' \in BOOLEAN
  BY <1>1
<1> QED
  BY <1>1, <1>2, <1>6, <1>7, <1>8, <1>9 DEF EditInv, LineInv

\* A recalled line takes the place of the one that was there, on the screen too.
LEMMA RecallIs ==
  ASSUME EditInv, ~spoilt => LineInv, HistoryInv, Recall
  PROVE  EditInv' /\ (~spoilt' => LineInv') /\ HistoryInv'
<1> DEFINE n == Len(line)
           e == Shown(term, Rubouts(n))
           l == line'
           u == Shown(e, l)
<1>1. /\ hpos' = IF Byte = "A" THEN Max({hpos - 1, 0}) ELSE Min({hpos + 1, Len(hist)})
      /\ line' = (IF hpos' < Len(hist) THEN hist[hpos' + 1] ELSE << >>)
      /\ term' = u /\ over' = (over \/ start + Len(l) >= Cols)
      /\ pc' = "line" /\ hist' = hist /\ start' = start /\ ran' = ran /\ spoilt' = spoilt
  BY DEF Recall, EraseLine
<1>2. /\ line \in Lines /\ over \in BOOLEAN
      /\ spoilt \in BOOLEAN /\ term \in Terms /\ start \in 0 .. Cols - 1
      /\ ~spoilt => Clean(term) /\ (~over => Shows(term, start, line))
  BY DEF EditInv, LineInv
<1>3. hist \in Seq(Lines) /\ Len(hist) \in Nat /\ hpos \in 0 .. Len(hist)
  BY DEF HistoryInv
<1>4. hpos' \in 0 .. Len(hist)
  <2>1. Max({hpos - 1, 0}) = IF hpos - 1 >= 0 THEN hpos - 1 ELSE 0
    <3>1. hpos - 1 \in Int /\ 0 \in Int
      BY <1>3
    <3> QED
      BY <3>1, OfTwo
  <2>2. Min({hpos + 1, Len(hist)}) = IF hpos + 1 <= Len(hist) THEN hpos + 1 ELSE Len(hist)
    <3>1. hpos + 1 \in Int /\ Len(hist) \in Int
      BY <1>3
    <3> QED
      BY <3>1, OfTwo
  <2> QED
    BY <1>1, <1>3, <2>1, <2>2
<1>5. l \in Lines
  <2>1. LineMax \in Nat
    BY ConsoleAssumption
  <2>2. << >> \in Lines
    BY <2>1 DEF Lines
  <2>3. hpos' < Len(hist) => hpos' + 1 \in 1 .. Len(hist)
    <3> DEFINE h == hpos'
               m == Len(hist)
    <3> HIDE DEF h, m
    <3>1. h \in 0 .. m /\ m \in Nat
      BY <1>3, <1>4 DEF h, m
    <3>2. h < m => h + 1 \in 1 .. m
      BY <3>1
    <3> QED
      BY <3>2 DEF h, m
  <2> QED
    BY <1>1, <1>3, <2>2, <2>3
<1>6. /\ n \in Nat /\ l \in Seq(Glyphs) /\ Len(l) \in Nat /\ Cols \in Nat
      /\ l \in Seq(Glyphs \cup {"BS"})
  BY <1>2, <1>5, Sizes DEF Lines
<1>7. HistoryInv'
  BY <1>1, <1>4 DEF HistoryInv
<1> HIDE DEF e, u, n, l
<1>8. e \in Terms /\ (~spoilt => Clean(e))
  BY <1>2, <1>6, RuboutsClean DEF e
<1>9. u \in Terms /\ (~spoilt => Clean(u))
  BY <1>6, <1>8, StillClean DEF u
<1>10. ASSUME ~spoilt, ~over'
       PROVE  Shows(u, start, l)
  <2>1. ~over /\ start + Len(l) < Cols
    <3>1. ~(over \/ start + Len(l) >= Cols)
      BY <1>1, <1>10, Zenon
    <3> QED
      BY <1>2, <1>6, <3>1
  <2>2. term.col = start + n
    BY <1>2, <1>10, <2>1 DEF Shows, n
  <2>3. e.col = start
    <3>1. n \in 0 .. term.col
      BY <1>2, <1>6, <2>2
    <3>2. e.col = term.col - n
      BY <1>2, <1>10, <3>1, RuboutsIs DEF e
    <3> QED
      BY <1>2, <1>6, <2>2, <3>2
  <2>4. /\ u.row = e.row /\ u.col = e.col + Len(l)
        /\ \A i \in 1 .. Len(l) : u.grid[e.row][e.col + i - 1] = l[i]
    <3>1. e.col + Len(l) < Cols
      BY <2>1, <2>3
    <3> QED
      BY <1>6, <1>8, <1>10, <3>1, EchoIs DEF u
  <2> QED
    BY <2>3, <2>4 DEF Shows
<1>11. over' \in BOOLEAN
  BY <1>1
<1> QED
  BY <1>1, <1>2, <1>5, <1>7, <1>9, <1>10, <1>11 DEF EditInv, LineInv, l

-----------------------------------------------------------------------------
(* The invariant holds.                                                     *)

\* It holds when the shell starts.
LEMMA InitIInv == Init => IInv
<1> SUFFICES ASSUME Init PROVE IInv
  OBVIOUS
<1>1. RingSize \in Nat \ {0} /\ LineMax \in Nat /\ HistMax \in Nat /\ UartSize \in Nat
      /\ MaxTyped \in Nat /\ MaxSent \in Nat
  BY ConsoleAssumption
<1>2. QueueInv
  <2>1. /\ ring = [i \in 0 .. RingSize - 1 |-> NoChar]
        /\ head = 0 /\ tail = 0 /\ uart = << >>
    BY DEF Init
  <2>2. ring \in Rings(Characters \cup {NoChar}) /\ 0 \in 0 .. RingSize - 1 /\ Count(0, 0) = 0
    BY <1>1, <2>1 DEF Rings, Count
  <2> DEFINE S == Characters \cup {NoChar}
             h == Held(ring, 0, 0)
  <2>3. h \in Seq(S) /\ Len(h) = 0
    <3> HIDE DEF S
    <3> QED
      BY <2>2, HeldIs DEF S
  <2> HIDE DEF h, S
  <2>4. h = << >>
    BY <2>3
  <2>5. h \in Seq(Characters)
    BY <2>4
  <2> QED
    BY <1>1, <2>1, <2>2, <2>5 DEF QueueInv, h
<1>3. EditInv /\ LineInv
  <2> DEFINE u == Shown(FreshTerm, Prompt)
  <2>1. /\ term = u /\ start = u.col /\ over = FALSE /\ spoilt = FALSE
        /\ pc = "line" /\ line = << >>
    BY DEF Init
  <2>2. Clean(u)
    BY FreshIs, ConsoleAssumption, TextIs
  <2> HIDE DEF u
  <2>3. u.col \in 0 .. Cols - 1 /\ << >> \in Lines /\ Shows(u, u.col, << >>)
    BY <1>1, <2>2 DEF Clean, Terms, Lines, Shows
  <2> QED
    BY <2>1, <2>2, <2>3 DEF EditInv, LineInv, Clean
<1>4. HistoryInv
  <2>1. hist = << >> /\ hpos = 0 /\ ran = << >>
    BY DEF Init
  <2>2. Recent(<< >>) = << >>
    <3>1. << >> \in Seq(Lines) /\ Len(<< >>) = 0
      OBVIOUS
    <3> DEFINE e == << >>
               r == Recent(e)
    <3>2. Fit(0) = 0
      BY <1>1 DEF Fit
    <3>3. r \in Seq(Lines) /\ Len(r) = Fit(Len(e))
      BY <3>1, RecentIs
    <3> HIDE DEF r
    <3>4. r = << >>
      BY <3>1, <3>2, <3>3
    <3> QED
      BY <3>4 DEF r
  <2> QED
    BY <1>1, <2>1, <2>2, DistinctNone DEF HistoryInv
<1>5. BoundInv
  <2>1. shift = FALSE /\ typed = 0 /\ sent = 0
    BY DEF Init
  <2>2. shift \in BOOLEAN
    BY <2>1
  <2>3. typed \in 0 .. MaxTyped /\ sent \in 0 .. MaxSent
    BY <1>1, <2>1
  <2> QED
    BY <2>2, <2>3 DEF BoundInv
<1> QED
  BY <1>2, <1>3, <1>4, <1>5 DEF IInv

\* Every step of the shell keeps it.
LEMMA ShellStep ==
  ASSUME IInv, Shell
  PROVE  /\ QueueInv' /\ EditInv' /\ (~spoilt' => LineInv') /\ HistoryInv'
         /\ UNCHANGED <<shift, typed, sent>>
<1>1. QueueInv /\ EditInv /\ (~spoilt => LineInv) /\ HistoryInv
  BY DEF IInv
<1>2. ASSUME UNCHANGED <<hist, hpos, ran>>
      PROVE  HistoryInv'
  BY <1>1, <1>2 DEF HistoryInv
<1>3. ASSUME UNCHANGED <<line, term, start, over, spoilt>>, pc' \in {"line", "esc", "csi"}
      PROVE  EditInv' /\ (~spoilt' => LineInv')
  BY <1>1, <1>3 DEF EditInv, LineInv
<1>4. ASSUME Read
      PROVE  QueueInv' /\ Byte \in Characters /\ UNCHANGED <<shift, typed, sent>>
  BY <1>1, <1>4, ReadIs DEF Read, input
<1>5. CASE AfterEsc
  <2>1. /\ Read /\ UNCHANGED <<line, term, start, over, spoilt, hist, hpos, ran>>
        /\ pc' \in {"line", "esc", "csi"}
    BY <1>5 DEF AfterEsc
  <2> QED
    BY <1>2, <1>3, <1>4, <2>1
<1>6. CASE GiveUp
  <2>1. /\ UNCHANGED <<line, term, start, over, spoilt, hist, hpos, ran>> /\ pc' \in {"line", "esc", "csi"}
        /\ UNCHANGED <<ring, head, tail, uart>> /\ UNCHANGED <<shift, typed, sent>>
    BY <1>6 DEF GiveUp, input
  <2>2. QueueInv'
    BY <1>1, <2>1, QueueStays
  <2> QED
    BY <1>2, <1>3, <2>1, <2>2
<1>7. CASE Control
  <2>1. /\ Read /\ UNCHANGED <<line, term, start, over, spoilt, hist, hpos, ran>>
        /\ pc' \in {"line", "esc", "csi"}
    BY <1>7 DEF Control
  <2> QED
    BY <1>2, <1>3, <1>4, <2>1
<1>8. CASE Erase
  <2>1. Read /\ UNCHANGED <<hist, hpos, ran>>
    BY <1>8 DEF Erase
  <2> QED
    BY <1>1, <1>2, <1>4, <1>8, <2>1, EraseIs
<1>9. CASE Echo
  <2>1. Read /\ UNCHANGED <<hist, hpos, ran>>
    BY <1>9 DEF Echo
  <2> QED
    BY <1>1, <1>2, <1>4, <1>9, <2>1, EchoKeeps
<1>10. CASE Enter
  <2>1. Read
    BY <1>10 DEF Enter
  <2> QED
    BY <1>4, <1>10, <2>1, EnterIs
<1>11. CASE Recall
  <2>1. Read
    BY <1>11 DEF Recall
  <2> QED
    BY <1>1, <1>4, <1>11, <2>1, RecallIs
<1> QED
  BY <1>5, <1>6, <1>7, <1>8, <1>9, <1>10, <1>11 DEF Shell

\* Input does not disturb the shell.
LEMMA ShellStays ==
  ASSUME EditInv, ~spoilt => LineInv, HistoryInv, UNCHANGED shell
  PROVE  EditInv' /\ (~spoilt' => LineInv') /\ HistoryInv'
BY DEF shell, EditInv, LineInv, HistoryInv

\* Every step keeps it.
LEMMA Step ==
  ASSUME IInv, [Next]_vars
  PROVE  IInv'
<1>1. QueueInv /\ EditInv /\ (~spoilt => LineInv) /\ HistoryInv /\ BoundInv
  BY DEF IInv
<1>2. typed \in 0 .. MaxTyped /\ sent \in 0 .. MaxSent /\ MaxTyped \in Nat /\ MaxSent \in Nat
  BY <1>1, ConsoleAssumption DEF BoundInv
<1>3. CASE Shell
  <2>1. BoundInv'
    BY <1>1, <1>3, ShellStep DEF BoundInv
  <2> QED
    BY <1>3, <2>1, ShellStep DEF IInv
<1>4. CASE Shift
  <2>1. QueueInv'
    BY <1>1, <1>4, QueueStays DEF Shift
  <2>2. EditInv' /\ (~spoilt' => LineInv') /\ HistoryInv'
    BY <1>1, <1>4, ShellStays DEF Shift
  <2>3. BoundInv'
    BY <1>1, <1>4 DEF Shift, BoundInv
  <2> QED
    BY <2>1, <2>2, <2>3 DEF IInv
<1>5. ASSUME NEW k \in Keys, KeyDown(k)
      PROVE  IInv'
  <2>1. QueueInv'
    BY <1>1, <1>5, KeyDownIs
  <2>2. EditInv' /\ (~spoilt' => LineInv') /\ HistoryInv'
    BY <1>1, <1>5, ShellStays DEF KeyDown
  <2>3. BoundInv'
    <3>1. typed < MaxTyped /\ typed' = typed + 1 /\ shift' = shift /\ sent' = sent
      BY <1>5 DEF KeyDown
    <3>2. typed' \in 0 .. MaxTyped
      BY <1>2, <3>1
    <3> QED
      BY <1>1, <3>1, <3>2 DEF BoundInv
  <2> QED
    BY <2>1, <2>2, <2>3 DEF IInv
<1>6. ASSUME NEW c \in SerialBytes, Serial(c)
      PROVE  IInv'
  <2>1. QueueInv'
    BY <1>1, <1>6, SerialIs
  <2>2. EditInv' /\ (~spoilt' => LineInv') /\ HistoryInv'
    BY <1>1, <1>6, ShellStays DEF Serial
  <2>3. BoundInv'
    <3>1. sent < MaxSent /\ sent' = sent + 1 /\ shift' = shift /\ typed' = typed
      BY <1>6 DEF Serial
    <3>2. sent' \in 0 .. MaxSent
      BY <1>2, <3>1
    <3> QED
      BY <1>1, <3>1, <3>2 DEF BoundInv
  <2> QED
    BY <2>1, <2>2, <2>3 DEF IInv
<1>7. CASE UNCHANGED vars
  <2>1. QueueInv'
    BY <1>1, <1>7, QueueStays DEF vars, input
  <2>2. EditInv' /\ (~spoilt' => LineInv') /\ HistoryInv'
    BY <1>1, <1>7, ShellStays DEF vars
  <2>3. BoundInv'
    BY <1>1, <1>7 DEF vars, input, BoundInv
  <2> QED
    BY <2>1, <2>2, <2>3 DEF IInv
<1> QED
  BY <1>3, <1>4, <1>5, <1>6, <1>7 DEF Next

\* The console's inductive invariant: bytes on their way are characters, the screen
\* shows the line (read_line), and the history is the last lines run (hist_push).
THEOREM Invariant == Spec => []IInv
<1>1. IInv /\ [Next]_vars => IInv'
  BY Step
<1> QED
  BY <1>1, InitIInv, PTL DEF Spec

-----------------------------------------------------------------------------
(* What follows from it.                                                    *)

\* The ring's indices, the cursor, the line and the history stay within their arrays
\* (kbd.cpp, term.cpp and huginn.cpp's buffers).
THEOREM TypeSafe == Spec => []TypeOK
<1>1. ASSUME IInv
      PROVE  TypeOK
  <2>1. TermType(term) /\ start \in 0 .. Cols - 1
    BY <1>1 DEF IInv, EditInv, Terms, Grid, TermType
  <2> QED
    BY <1>1, <2>1 DEF IInv, QueueInv, EditInv, HistoryInv, BoundInv, Lines, TypeOK
<1> QED
  BY <1>1, Invariant, PTL

\* What is on the screen after the prompt is the line that Enter would run
\* (read_line's echo, and term_putchar).
THEOREM LineIsShown == Spec => []ShownIsLine
<1>1. ASSUME IInv, ~over, ~spoilt
      PROVE  /\ term.state = "normal" /\ term.col = start + Len(line)
             /\ \A c \in start .. Cols - 1 :
                  term.grid[term.row][c] = IF c < term.col THEN line[c - start + 1] ELSE Blank
  <2>1. /\ Clean(term) /\ start \in 0 .. Cols - 1 /\ Shows(term, start, line)
        /\ Len(line) \in Nat
    BY <1>1 DEF IInv, EditInv, LineInv, Lines
  <2>2. /\ term.state = "normal" /\ term.col = start + Len(line)
        /\ \A c \in term.col .. Cols - 1 : term.grid[term.row][c] = Blank
        /\ \A i \in 1 .. Len(line) : term.grid[term.row][start + i - 1] = line[i]
    BY <2>1 DEF Clean, Shows
  <2>3. ASSUME NEW c \in start .. Cols - 1
        PROVE  term.grid[term.row][c] = IF c < term.col THEN line[c - start + 1] ELSE Blank
    <3>1. Cols \in Nat
      BY Sizes
    <3>2. CASE c < term.col
      <4>1. c - start + 1 \in 1 .. Len(line) /\ start + (c - start + 1) - 1 = c
        BY <2>1, <2>2, <3>1, <3>2
      <4> QED
        BY <2>2, <3>2, <4>1
    <3>3. CASE ~(c < term.col)
      <4>1. c \in term.col .. Cols - 1
        BY <2>1, <2>2, <3>1, <3>3
      <4> QED
        BY <2>2, <3>3, <4>1
    <3> QED
      BY <3>2, <3>3
  <2> QED
    BY <2>2, <2>3
<1>2. IInv => ShownIsLine
  BY <1>1 DEF ShownIsLine
<1> QED
  BY <1>2, Invariant, PTL

\* The history is the last lines that were run, repetitions counted once (hist_push).
THEOREM HistoryKept == Spec => []HistoryIsRecent
<1>1. IInv => HistoryIsRecent
  BY DEF IInv, HistoryInv, HistoryIsRecent, Recent
<1> QED
  BY <1>1, Invariant, PTL

\* The keyboard's ring is a queue that drops a character only when full
\* (kbd_buffer_push, and kbd_getchar).
THEOREM RingIsQueue == Spec => ImplementsKeyQueue
<1>1. Init => Queue!Init
  <2> SUFFICES ASSUME Init PROVE Waiting = << >> /\ typed = 0
    BY DEF Queue!Init
  <2>1. head = 0 /\ tail = 0 /\ typed = 0 /\ QueueInv
    BY InitIInv DEF Init, IInv
  <2>2. RingSize \in Nat \ {0}
    BY ConsoleAssumption
  <2> DEFINE S == Characters \cup {NoChar}
  <2>3. Waiting \in Seq(S) /\ Len(Waiting) = 0
    <3>1. ring \in Rings(S) /\ 0 \in 0 .. RingSize - 1 /\ Count(0, 0) = 0
      BY <2>1, <2>2 DEF QueueInv, Count
    <3> HIDE DEF S
    <3> QED
      BY <2>1, <3>1, HeldIs, WaitingIs
  <2> HIDE DEF S
  <2> QED
    BY <2>1, <2>3
<1>2. ASSUME IInv, [Next]_vars
      PROVE  [Queue!Next]_<<Waiting, typed>>
  <2>1. QueueInv
    BY <1>2 DEF IInv
  <2>2. ASSUME Read
        PROVE  [Queue!Next]_<<Waiting, typed>>
    <3>1. typed' = typed
      BY <2>2 DEF Read, input
    <3> QED
      BY <2>1, <2>2, <3>1, ReadIs DEF Queue!Next, Queue!Take
  <2>3. CASE UNCHANGED <<ring, head, tail, uart, typed>>
    BY <2>1, <2>3, QueueStays
  <2>4. ASSUME NEW k \in Keys, KeyDown(k)
        PROVE  Queue!Next
    <3>1. typed' = typed + 1
      BY <2>4 DEF KeyDown
    <3>2. PICK c \in Chars : Waiting' =
            IF Len(Waiting) < RingSize - 1 THEN Append(Waiting, c) ELSE Waiting
      BY <2>1, <2>4, KeyDownIs
    <3>3. Queue!Type(c)
      BY <3>1, <3>2 DEF Queue!Type
    <3> QED
      BY <3>3 DEF Queue!Next
  <2>5. ASSUME NEW c \in SerialBytes, Serial(c)
        PROVE  UNCHANGED <<Waiting, typed>>
    <3>1. typed' = typed
      BY <2>5 DEF Serial
    <3> QED
      BY <2>1, <2>5, <3>1, SerialIs
  <2>6. Shell => Read \/ UNCHANGED <<ring, head, tail, uart, typed>>
    BY DEF Shell, AfterEsc, GiveUp, Control, Erase, Echo, Enter, Recall, input
  <2>7. Shift \/ UNCHANGED vars => UNCHANGED <<ring, head, tail, uart, typed>>
    BY DEF Shift, vars, input
  <2> QED
    BY <1>2, <2>2, <2>3, <2>4, <2>5, <2>6, <2>7 DEF Next
<1> QED
  BY <1>1, <1>2, Invariant, PTL DEF Spec, ImplementsKeyQueue, Queue!Spec, Queue!vars
=============================================================================
