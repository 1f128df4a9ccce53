\* Program unit 2, read block 4: every chunk split of a 7-byte image.
CONSTANTS
  P = 2
  R = 4
  Slot = 8
  ImageLen = 7
  MaxChunk = 3
  Bits = {0, 1}
SPECIFICATION Spec
CHECK_DEADLOCK FALSE
INVARIANTS TypeOK WrittenIsImage ReadsInBounds AheadErased WInv
