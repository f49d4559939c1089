\* Two groups of four cells; cells 6 and 7 are mirrored; a pixel is four units.
SPECIFICATION Spec
CHECK_DEADLOCK FALSE
CONSTANTS
  Cells = 8
  Span = 16
  LowPart = 4
  MidPart = 2
  Group = 4
  Nib = 2
  One = 4
  XSpan = 16
  TileW = 2
  MapSize = 2
  TileBase = 0
  MapBase = 4
  Palette = {6}
  Sprites = {7}
  Noise <- MCNoise
  Hops = {4}
  Bytes = {1, 2}
  Masks <- MCMasks
  Programs <- MCPrograms
  Slopes = {1, 3, 4}
  Positions = {0, 5, 11}
INVARIANTS
  PrefetchCurrent
  CopiesFollow
  LineOnCourse
