SPECIFICATION Spec
CONSTANTS
  x = x
  y = y
  Byte = {x, y}
  AsciiByte = {x, y}
  NA_STRING = NA_STRING
  Obj = {b1, b2}
  Slice = {p1, p2}
  Kinds = {"ParallelBuilder"}
  Lengths = {2}
  ShardCounts = {2}
  Input <- ShortInputs
  slice_alignment = 2
  max_slice_bytes = 4
  min_multi_string_slice_bytes = 2
  max_initial_slice_bytes = 4
  vector_len_scale = 1
  size_bits = 4
  max_capacity = 3
  Junk = Junk
  Freed = Freed
  Nil = Nil
SYMMETRY SymmetryObjects
INVARIANTS
  SlicesOwnedOnce
  BytesDisjoint
  ReadsBack
