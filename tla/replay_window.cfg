\* Nine sequences in any order, with repetitions, against a window of three bits.
SPECIFICATION WindowSpec
CONSTANTS
  W = 3
  Sequence = {0, 1, 2, 3, 4, 5, 6, 7, 8}
INVARIANTS
  WindowExact
PROPERTIES
  FilterSpec
