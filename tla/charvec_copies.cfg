SPECIFICATION Spec
CONSTANTS
  Byte <- MCByte
  AsciiByte <- MCAscii
  NA_STRING = NA_STRING
  NA_INDEX = NA_INDEX
  Vec = {v1, v2}
  Ext = {e1, e2, e3}
  MaxLen = 2
  ChunkSize = 2
  Input <- PairInput
  InputView <- PairViews
  Inputs <- PairSubscripts
  NoExt = NoExt
  NoChunk = NoChunk
  Nil = Nil
  NoResult = NoResult
  NewStrings = NewStrings
VIEW CacheState
SYMMETRY SymmetryBoth
INVARIANTS
  BytesExclusive
PROPERTIES
  ReaderViewsStable
  RefinesStringVector
