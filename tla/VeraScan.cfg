\* Frames of eight lines, six of them visible; NTSC's fields start at 1 and 9.
SPECIFICATION FairSpec
CONSTANTS
  Width = 4
  Budget = 40
  Wrap = 64
  Bits = 4
  Map <- MCMap
  Tiles <- MCTiles
  Pictures <- MCPictures
  ScanHeight = 8
  ScreenHeight = 6
  NtscLow = 1
  NtscHigh = 9
  Rows = 7
  MaxLines = 2
  Compares = {0, 1, 3}
  Scenes <- MCScenes
  Programs <- MCPrograms
INVARIANTS
  CollisionsReported
  ForemostShown
  OutputAtTick
PROPERTIES
  InterruptsRecur
