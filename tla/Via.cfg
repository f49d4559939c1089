\* Counters of nine values, each half of three; a start of timer 1 is followed for
\* three slices.
SPECIFICATION FairSpec
CONSTANTS
  Base = 3
  MaxTick = 5
  MaxCalls = 3
  Programs <- MCPrograms
INVARIANTS
  IrqFollows
  T1KeepsTime
PROPERTIES
  FlagsHaveCause
  T1Expires
