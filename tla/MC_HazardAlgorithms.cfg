CONSTANTS
  R = 4
  MaxSlots = 4
  Words = {0, 1, 2, 3, 4, 5}
SPECIFICATION Spec
INVARIANTS
  CompactCorrect
  SearchCorrect
