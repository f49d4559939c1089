\* FIFOs of two characters; ticks of one and of three PCLK cycles, against
\* generators that count to 2 and to 3.
SPECIFICATION FairSpec
CONSTANTS
  Channels = {"A", "B"}
  FifoSize = 2
  Chars <- MCChars
  Ticks = {0, 12}
  Controls <- MCControls
INVARIANTS
  TypeOK
  RxInterruptHasCause
PROPERTIES
  NoForgottenChar
  OutputFollows
  ZeroCountsRecur
