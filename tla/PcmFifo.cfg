\* Two bytes fill the ring of three; two values tell neighbours apart.
SPECIFICATION PcmFairSpec
CONSTANTS
  Size = 3
  Modulus = 5
  Frames = {1, 2, 4}
  Values = {0, 1}
INVARIANTS
  HoldsTheWaiting
PROPERTIES
  FullDrains
