CONSTANTS
  Width = 4
  Height = 3
  Stride = 4
  Rows = 3
  BarHeight = 1
  WinMax = 3
  Packets <- MCPackets
  Windows0 <- MCWindows
  MaxPackets = 6
  MaxSpoilt = 1
SPECIFICATION Spec
INVARIANTS TypeOK FollowsHand DragSound
PROPERTIES PressesWhatIsShown
