\* The boot response is five bytes and the FIFOs have room.
SPECIFICATION Spec
CONSTANTS
  Capacity = 8
  Preload = 5
  MaxSends = 1
  MaxReplies = 5
INVARIANTS
  ReceiveGetsEachByte
