------------------------------ MODULE MCConsole ------------------------------
(* A letter whose capital is also the last byte of an arrow key, Enter and    *)
(* Backspace on the keyboard; arrows, Enter and DEL on the serial line.       *)
EXTENDS Console

MCLower   == [a |-> "a", enter |-> "NL", back |-> "BS", home |-> NoChar]
MCUpper   == [MCLower EXCEPT !.a = "A"]
MCGlyphs  == Range(Digits) \cup {" ", "[", "J", "H", "$", "x", "a", "A", "B"}
MCPrompt  == <<"$", " ">>
MCOutputs == {<<"x", "TAB", "DEL", "CR", "NL", "x">>, ClearScreen, <<"x", "x", "x", "CR">>}
MCBytes   == {"ESC", "[", "A", "B", "CR", "DEL"}
=============================================================================
