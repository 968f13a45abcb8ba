SPECIFICATION Spec
CONSTANTS
  x = x
  y = y
  Byte = {x, y}
  AsciiByte = {x, y}
  NA_STRING = NA_STRING
  Slice = {p1, p2, p3}
  W = {w1, w2}
  Lengths = {2}
  Input <- ShortInputs
  ReserveLengths = {2}
  MaxHeld = 2
  slice_alignment = 3
  max_slice_bytes = 3
  min_multi_string_slice_bytes = 2
  max_initial_slice_bytes = 4
  vector_len_scale = 1
  size_bits = 4
  max_block = 2
  Junk = Junk
  Freed = Freed
  Nil = Nil
SYMMETRY SymmetryAll
INVARIANTS
  TypeOK
  PiecesDisjoint
  ReadsBack
PROPERTIES
  CompactionTight
