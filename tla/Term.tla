-------------------------------- MODULE Term --------------------------------
(***************************************************************************)
(* The terminal's character grid (kernel/term.cpp): where term_putchar puts *)
(* a character, and the escape sequences it knows.  A character is a string *)
(* of one letter, or the name of a control character.                      *)
(***************************************************************************)
EXTENDS Integers, Sequences, SequencesExt

CONSTANTS
  Cols,     \* TERM_COLS
  Rows,     \* TERM_ROWS
  TabStop,  \* columns between tab stops
  Glyphs,   \* the characters that print
  ParamSize \* how many values g_param has: 2^32

Blank    == " "
BlankRow == [c \in 0 .. Cols - 1 |-> Blank]
NoParam  == -1
Params   == (0 .. ParamSize - 1) \cup {NoParam}
Controls == {"ESC", "NL", "CR", "BS", "TAB", "DEL"}
Digits   == <<"0", "1", "2", "3", "4", "5", "6", "7", "8", "9">>

ASSUME TermAssumption ==
  /\ {Cols, Rows, TabStop} \subseteq Nat \ {0} /\ ParamSize \in Nat /\ ParamSize > 9
  /\ {Blank, "[", "J", "H"} \cup Range(Digits) \subseteq Glyphs
  /\ Glyphs \cap Controls = {}

\* term_init.
FreshTerm == [grid  |-> [r \in 0 .. Rows - 1 |-> BlankRow], row |-> 0, col |-> 0,
              state |-> "normal", param |-> NoParam]

\* term_newline: at the bottom the grid scrolls.
Newline(t) ==
  IF t.row + 1 < Rows THEN [t EXCEPT !.col = 0, !.row = @ + 1]
  ELSE [t EXCEPT !.col = 0,
                 !.grid = [r \in 0 .. Rows - 1 |-> IF r = Rows - 1 THEN BlankRow ELSE @[r + 1]]]

\* Mutant: the line is wrapped a column late.
WrappedLate(t) == IF t.col > Cols THEN Newline(t) ELSE t

Wrapped(t) == IF t.col >= Cols THEN Newline(t) ELSE t

\* Row t.row with the cells from column `from` to column to - 1 set to c.
Drawn(t, from, to, c) ==
  [t EXCEPT !.grid[t.row] = [k \in 0 .. Cols - 1 |-> IF k \in from .. to - 1 THEN c ELSE @[k]]]

Plain(t, c) ==
  CASE c = "ESC" -> [t EXCEPT !.state = "esc"]
    [] c = "NL"  -> Newline(t)
    [] c = "CR"  -> [t EXCEPT !.col = 0]
    [] c = "BS"  -> IF t.col = 0 THEN t
                    ELSE [Drawn(t, t.col - 1, t.col, Blank) EXCEPT !.col = @ - 1]
    [] c = "TAB" -> LET stop == Min({Cols, (t.col \div TabStop + 1) * TabStop})
                    IN  Wrapped([Drawn(t, t.col, stop, Blank) EXCEPT !.col = stop])
    [] c = "DEL" -> t
    [] OTHER     -> Wrapped([Drawn(t, t.col, t.col + 1, c) EXCEPT !.col = @ + 1])

DigitOf == [c \in Range(Digits) |-> (CHOOSE i \in DOMAIN Digits : Digits[i] = c) - 1]

\* After ESC [ : digits, then J clears the screen, H goes home, all else is dropped.
Csi(t, c) ==
  IF c \in DOMAIN DigitOf
    THEN [t EXCEPT !.param = IF @ = NoParam THEN DigitOf[c]
                             ELSE (@ * 10 + DigitOf[c]) % ParamSize]
  ELSE IF c = "J" /\ t.param \in {NoParam, 2} THEN [FreshTerm EXCEPT !.param = t.param]
  ELSE IF c = "H" THEN [t EXCEPT !.row = 0, !.col = 0, !.state = "normal"]
  ELSE [t EXCEPT !.state = "normal"]

\* term_putchar.
TermPut(t, c) ==
  CASE t.state = "normal" -> Plain(t, c)
    [] t.state = "esc"    -> IF c = "[" THEN [t EXCEPT !.state = "csi", !.param = NoParam]
                             ELSE [t EXCEPT !.state = "normal"]
    [] t.state = "csi"    -> Csi(t, c)

\* SYS_WRITE to descriptor 1 or 2.
Shown(t, chars) ==
  LET after[i \in 0 .. Len(chars)] == IF i = 0 THEN t ELSE TermPut(after[i - 1], chars[i])
  IN  after[Len(chars)]

TermType(t) ==
  /\ t.grid \in [0 .. Rows - 1 -> [0 .. Cols - 1 -> Glyphs]]
  /\ t.row \in 0 .. Rows - 1 /\ t.col \in 0 .. Cols - 1
  /\ t.state \in {"normal", "esc", "csi"} /\ t.param \in Params

=============================================================================
