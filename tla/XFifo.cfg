\* A ring of three slots and three values: 3 * (1 + 3 + 9 + 27) contents.
SPECIFICATION Spec
CONSTANTS
  Size = 3
  Values = {1, 2, 3}
  Nothing = 0
INVARIANTS
  RingInv
PROPERTIES
  ImplementsQueue
