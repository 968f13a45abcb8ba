SPECIFICATION Spec
CONSTANTS
  Byte <- MCByte
  AsciiByte <- MCAscii
  NA_STRING = NA_STRING
  NA_INDEX = NA_INDEX
  NarrowMod = 4
  MaxRaw = 30
  MaxString = 2
  Vec = {v1, v2, v3}
  Session = {s1}
  BigEndian = {}
  Raw = {r1, r2}
  MaxLen = 2
  Input <- PackInput
  InputView <- CopyViews
  InputRecord <- PackRecords
  InputSlices <- PackSlices
  Inputs <- PackSubscripts
  ForceWide = {TRUE, FALSE}
  Exports = {}
  Faults = {}
  NoRaw = NoRaw
  Nil = Nil
  NoStream = NoStream
  Damaged = Damaged
  NoResult = NoResult
  NewStrings = NewStrings
VIEW PackState
SYMMETRY SymmetryBoth
INVARIANTS
  LayoutOK
PROPERTIES
  DataImmutable
  RefinesStringVector
