\* A read size that is not a multiple of the program size (3 and 2):
\* bd_read_program_unit asserts only readblock_size >= progunit_size.
CONSTANTS
  P = 2
  R = 3
  Slot = 6
  ImageLen = 5
  MaxChunk = 3
  Bits = {0, 1}
SPECIFICATION Spec
CHECK_DEADLOCK FALSE
INVARIANT ReadsInBounds
