------------------------------- MODULE Console -------------------------------
(***************************************************************************)
(* The way from a key to the shell's line and back to the screen: the       *)
(* keyboard interrupt and its ring (kbd.cpp, isr_handler), the UART that    *)
(* SYS_READ falls back to, huginn's line editor with its history            *)
(* (huginn.cpp, read_line) and the terminal it echoes to.                   *)
(*                                                                          *)
(* A step of the shell is one byte: the SYS_READ that finds it and the      *)
(* writes it leads to.  In between, interrupts only add to the ring, which  *)
(* might as well have been after the step, and nobody else writes.  The     *)
(* shell's yields while there is nothing to read change nothing.            *)
(***************************************************************************)
EXTENDS Term

CONSTANTS
  RingSize,     \* KBD_BUF_SIZE: one slot stays empty
  UartSize,     \* bytes the UART holds
  LineMax,      \* characters in a line, 63
  HistMax,      \* HIST_N
  Keys,         \* keys other than shift
  Lower, Upper, \* map_lower, map_upper: what a key gives, NoChar if nothing
  SerialBytes,  \* what arrives on the serial line
  Prompt,       \* the prompt, as characters
  Outputs,      \* what commands print
  MaxTyped,     \* bound: characters typed
  MaxSent       \* bound: bytes sent on the serial line

NoChar == "none"

\* What keys give.
Chars == {Lower[k] : k \in Keys} \cup {Upper[k] : k \in Keys}

\* Text without escapes that never goes back over a line.
Text(s) ==
  /\ s \in Seq(Glyphs \cup Controls)
  /\ \A i \in 1 .. Len(s) : s[i] # "ESC" /\ (s[i] = "CR" => i < Len(s) /\ s[i + 1] = "NL")

ClearScreen == <<"ESC", "[", "2", "J", "ESC", "[", "H">>

\* What huginn's own commands print: text, or what clears the screen.
Orderly(out) == Text(out) \/ out = ClearScreen

\* Files, which cat prints, and programs may hold anything.
ASSUME ConsoleAssumption ==
  /\ {RingSize, LineMax, HistMax, UartSize} \subseteq Nat \ {0}
  /\ (Chars \ {NoChar}) \cup SerialBytes \subseteq Glyphs \cup Controls
  /\ Text(Prompt) /\ Outputs \subseteq Seq(Glyphs \cup Controls)
  /\ {MaxTyped, MaxSent} \subseteq Nat

VARIABLES
  shift,       \* g_shift
  ring,        \* kbd_buf
  head, tail,  \* kbd_head, kbd_tail
  uart,        \* the UART's bytes
  pc,          \* where read_line is: at a "line" byte, after "esc", or after "csi"
  line,        \* line[0 .. n)
  hpos,        \* the history entry shown; Len(hist) for none
  hist,        \* hist[0 .. hist_count)
  term,        \* the terminal
  start,       \* history: the column the prompt ended at
  over,        \* history: the line's echo has wrapped, or shows more than was kept
  spoilt,      \* history: something has been printed that is not orderly
  ran,         \* history: the lines entered
  typed, sent  \* counters for the bounds

input == <<shift, head, typed, sent>>
shell == <<pc, line, hpos, hist, term, start, over, spoilt, ran>>
vars  == <<input, ring, tail, uart, shell>>

-----------------------------------------------------------------------------
(* Input.                                                                   *)

\* Mutant: the ring is full only when head has come round to tail.
PushFullLate(c) ==
  /\ ring' = [ring EXCEPT ![head] = c]
  /\ head' = (head + 1) % RingSize

\* kbd_buffer_push: a full ring drops the character.
Push(c) ==
  IF (head + 1) % RingSize = tail THEN UNCHANGED <<ring, head>>
  ELSE /\ ring' = [ring EXCEPT ![head] = c]
       /\ head' = (head + 1) % RingSize

\* IRQ1 with the scancode of a key: only what prints, Enter, Backspace and Tab are kept.
KeyDown(k) ==
  LET c == IF shift THEN Upper[k] ELSE Lower[k]
  IN  /\ typed < MaxTyped
      /\ c \notin {NoChar, "ESC", "DEL", "CR"}
      /\ Push(c)
      /\ typed' = typed + 1
      /\ UNCHANGED <<shift, tail, uart, sent, shell>>

\* IRQ1 with the scancode of shift, pressed or released.
Shift ==
  /\ shift' = ~shift
  /\ UNCHANGED <<ring, head, typed, sent, tail, uart, shell>>

\* The serial line: a byte the UART has no room for is lost.
Serial(c) ==
  /\ sent < MaxSent
  /\ sent' = sent + 1
  /\ uart' = IF Len(uart) < UartSize THEN Append(uart, c) ELSE uart
  /\ UNCHANGED <<shift, ring, head, typed, tail, shell>>

HasInput == head # tail \/ uart # << >>

\* SYS_READ of one byte: the keyboard first; DEL is Backspace.
Byte ==
  LET c == IF head # tail THEN ring[tail] ELSE Head(uart)
  IN  IF c = "DEL" THEN "BS" ELSE c

\* What is left in a slot that was read does not matter.
Read ==
  /\ HasInput
  /\ IF head # tail
     THEN /\ tail' = (tail + 1) % RingSize /\ ring' = [ring EXCEPT ![tail] = NoChar]
          /\ UNCHANGED uart
     ELSE uart' = Tail(uart) /\ UNCHANGED <<tail, ring>>
  /\ UNCHANGED input

-----------------------------------------------------------------------------
(* The line editor.                                                         *)

\* "\b \b", n times.
Rubouts(n) == [i \in 1 .. 3 * n |-> IF i % 3 = 2 THEN " " ELSE "BS"]

\* Mutant: one character of the line stays.
EraseLineShort(t) == Shown(t, Rubouts(Max({0, Len(line) - 1})))

EraseLine(t) == Shown(t, Rubouts(Len(line)))

\* Mutant: a full history drops its newest line.
HistDropNewest(h, l) ==
  IF l = << >> THEN h
  ELSE IF h # << >> /\ Last(h) = l THEN h
  ELSE IF Len(h) = HistMax THEN Append(Front(h), l) ELSE Append(h, l)

\* hist_push: not the empty line, nor the same line twice in a row.
HistPush(h, l) ==
  IF l = << >> THEN h
  ELSE IF h # << >> /\ Last(h) = l THEN h
  ELSE IF Len(h) = HistMax THEN Append(Tail(h), l) ELSE Append(h, l)

\* The prompt is printed at terminal t, and read_line starts.
StartLine(t) ==
  LET shown == Shown(t, Prompt)
  IN  /\ term' = shown /\ start' = shown.col /\ over' = FALSE
      /\ pc' = "line" /\ line' = << >> /\ hpos' = Len(hist')

\* Enter: the line is remembered and run, and the command prints.
Enter ==
  /\ pc = "line" /\ Read /\ Byte \in {"CR", "NL"}
  /\ hist' = HistPush(hist, line)
  /\ ran' = IF line = << >> THEN ran ELSE Append(ran, line)
  /\ \E out \in IF line = << >> THEN {<< >>} ELSE Outputs :
       /\ StartLine(Shown(term, <<"NL">> \o out))
       /\ spoilt' = (spoilt \/ ~Orderly(out))

Erase ==
  /\ pc = "line" /\ Read /\ Byte = "BS"
  /\ line' = IF line = << >> THEN line ELSE Front(line)
  /\ term' = IF line = << >> THEN term ELSE Shown(term, <<"BS", " ", "BS">>)
  /\ UNCHANGED <<pc, hpos, hist, start, over, spoilt, ran>>

\* A character that prints is echoed, and kept if the line has room.
Echo ==
  /\ pc = "line" /\ Read /\ Byte \notin Controls
  /\ term' = Shown(term, <<Byte>>)
  /\ line' = IF Len(line) < LineMax THEN Append(line, Byte) ELSE line
  /\ over' = (over \/ Len(line) = LineMax \/ start + Len(line) + 1 >= Cols)
  /\ UNCHANGED <<pc, hpos, hist, start, spoilt, ran>>

\* Other control characters are dropped; ESC starts a sequence.
Control ==
  /\ pc = "line" /\ Read /\ Byte \in {"TAB", "ESC"}
  /\ pc' = IF Byte = "ESC" THEN "esc" ELSE "line"
  /\ UNCHANGED <<line, hpos, hist, term, start, over, spoilt, ran>>

\* The byte after ESC, and any byte but A and B after ESC [.
AfterEsc ==
  /\ Read
  /\ pc = "esc" \/ (pc = "csi" /\ Byte \notin {"A", "B"})
  /\ pc' = IF pc = "esc" /\ Byte = "[" THEN "csi" ELSE "line"
  /\ UNCHANGED <<line, hpos, hist, term, start, over, spoilt, ran>>

\* ESC [ A and ESC [ B: an older or newer line from the history, or none.
Recall ==
  /\ pc = "csi" /\ Read /\ Byte \in {"A", "B"}
  /\ hpos' = IF Byte = "A" THEN Max({hpos - 1, 0}) ELSE Min({hpos + 1, Len(hist)})
  /\ line' = IF hpos' < Len(hist) THEN hist[hpos' + 1] ELSE << >>
  /\ term' = Shown(EraseLine(term), line')
  /\ over' = (over \/ start + Len(line') >= Cols)
  /\ pc' = "line"
  /\ UNCHANGED <<hist, start, spoilt, ran>>

\* read_byte_bounded gives up: the byte may come later, and is then typed text.
GiveUp ==
  /\ pc # "line" /\ ~HasInput
  /\ pc' = "line"
  /\ UNCHANGED <<input, ring, tail, uart, line, hpos, hist, term, start, over, spoilt, ran>>

Shell == AfterEsc \/ GiveUp \/ Control \/ Erase \/ Echo \/ Enter \/ Recall

Init ==
  LET shown == Shown(FreshTerm, Prompt)
  IN  /\ shift = FALSE /\ ring = [i \in 0 .. RingSize - 1 |-> NoChar]
      /\ head = 0 /\ tail = 0 /\ uart = << >>
      /\ pc = "line" /\ line = << >> /\ hpos = 0 /\ hist = << >>
      /\ term = shown /\ start = shown.col /\ over = FALSE /\ spoilt = FALSE
      /\ ran = << >> /\ typed = 0 /\ sent = 0

Next ==
  \/ Shell \/ Shift
  \/ \E k \in Keys : KeyDown(k)
  \/ \E c \in SerialBytes : Serial(c)

Spec == Init /\ [][Next]_vars

-----------------------------------------------------------------------------
(* Properties.                                                              *)

\* What the ring holds, oldest first.
Waiting == [i \in 1 .. (head + RingSize - tail) % RingSize |-> ring[(tail + i - 1) % RingSize]]

\* Types: the ring's indices, the cursor in the grid, the line and the history within
\* their arrays.
TypeOK ==
  /\ {shift, over, spoilt} \subseteq BOOLEAN
  /\ head \in 0 .. RingSize - 1 /\ tail \in 0 .. RingSize - 1 /\ Len(uart) <= UartSize
  /\ pc \in {"line", "esc", "csi"} /\ Len(line) <= LineMax
  /\ hpos \in 0 .. Len(hist) /\ Len(hist) <= HistMax
  /\ TermType(term) /\ start \in 0 .. Cols - 1
  /\ typed \in 0 .. MaxTyped /\ sent \in 0 .. MaxSent

\* The ring is a queue with room for one character less than its slots: none is lost
\* before that, and none is read twice, out of order or before it was typed.
Queue == INSTANCE KeyQueue WITH
  Chars <- Chars, Room <- RingSize - 1,
  waiting <- Waiting, typed <- typed

ImplementsKeyQueue == Queue!Spec

\* What the screen shows after the prompt is the line that Enter would run, through
\* every echo, erasure and recalled line, and after whatever commands printed, as
\* long as the line has not wrapped nor overflowed, and what was printed was orderly.
ShownIsLine ==
  ~over /\ ~spoilt =>
    /\ term.state = "normal"
    /\ term.col = start + Len(line)
    /\ \A c \in start .. Cols - 1 :
         term.grid[term.row][c] = IF c < term.col THEN line[c - start + 1] ELSE Blank

\* The history is the last HistMax lines that were run, repetitions counted once.
Distinct(lines) ==
  LET kept[i \in 0 .. Len(lines)] ==
        IF i = 0 THEN << >>
        ELSE IF kept[i - 1] # << >> /\ Last(kept[i - 1]) = lines[i] THEN kept[i - 1]
        ELSE Append(kept[i - 1], lines[i])
  IN  kept[Len(lines)]

HistoryIsRecent ==
  LET all == Distinct(ran)
  IN  hist = SubSeq(all, Max({1, Len(all) - HistMax + 1}), Len(all))

=============================================================================
