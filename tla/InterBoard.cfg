\* FIFOs of two bytes, both filled and overflowed by three sends and three
\* replies, of which two wait when the boards start.
SPECIFICATION FairSpec
CONSTANTS
  Capacity = 2
  Preload = 2
  MaxSends = 3
  MaxReplies = 3
INVARIANTS
  SentOnce
  SeenInOrder
PROPERTIES
  QueuedArrives
