SPECIFICATION Spec
CONSTANTS
  x = x
  y = y
  Byte = {x, y}
  AsciiByte = {x, y}
  NA_STRING = NA_STRING
  Obj = {b1, b2}
  Slice = {p1, p2}
  Kinds = {"GrowableBuilder", "Builder"}
  Lengths = {2}
  ShardCounts = {1}
  Input <- MixedInputs
  slice_alignment = 2
  max_slice_bytes = 4
  min_multi_string_slice_bytes = 2
  max_initial_slice_bytes = 4
  vector_len_scale = 1
  size_bits = 4
  max_capacity = 3
  Junk = Junk
  Freed = Freed
  Nil = Nil
SYMMETRY SymmetryObjects
INVARIANTS
  TypeOK
  SlicesOwnedOnce
  BytesDisjoint
  ReadsBack
