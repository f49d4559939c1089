\* FIFOs of two characters, a look at the terminal in every second pass.
SPECIFICATION FairSpec
CONSTANTS
  FifoSize = 2
  Controls <- MCControls
  InputSkip = 2
  Early = 1
  Scripts = {3}
  Lines = {2}
  Presses = {1, 3}
  Ticks = {4}
  Programs <- MCPrograms
  MaxKeys <- MCMaxKeys
INVARIANTS
  StaleOnlyWithinSlice
  ScriptIntact
  TypedRouted
PROPERTIES
  HighestPresented
  InputArrives
