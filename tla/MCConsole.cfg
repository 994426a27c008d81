CONSTANTS
  Cols = 5
  Rows = 2
  TabStop = 2
  Glyphs <- MCGlyphs
  ParamSize = 16
  RingSize = 3
  UartSize = 2
  LineMax = 3
  HistMax = 2
  Keys = {"a", "enter", "back", "home"}
  Lower <- MCLower
  Upper <- MCUpper
  SerialBytes <- MCBytes
  Prompt <- MCPrompt
  Outputs <- MCOutputs
  MaxTyped = 4
  MaxSent = 3
SPECIFICATION Spec
INVARIANTS TypeOK ShownIsLine HistoryIsRecent
PROPERTIES ImplementsKeyQueue
