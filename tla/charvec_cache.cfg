SPECIFICATION Spec
CONSTANTS
  Byte <- MCByte
  AsciiByte <- MCAscii
  NA_STRING = NA_STRING
  NA_INDEX = NA_INDEX
  Vec = {v1}
  Ext = {e1, e2, e3, e4}
  MaxLen = 3
  ChunkSize = 2
  Input <- CacheInput
  InputView <- CacheViews
  Inputs <- NoSubscripts
  NoExt = NoExt
  NoChunk = NoChunk
  Nil = Nil
  NoResult = NoResult
  NewStrings = NewStrings
VIEW CacheState
SYMMETRY SymmetryExt
INVARIANTS
  TypeOK
  CacheCoherent
  BytesExclusive
  StoreReleased
