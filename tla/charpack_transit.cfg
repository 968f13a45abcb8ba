SPECIFICATION Spec
CONSTANTS
  Byte <- MCByte
  AsciiByte <- MCAscii
  NA_STRING = NA_STRING
  NA_INDEX = NA_INDEX
  NarrowMod = 4
  MaxRaw = 30
  MaxString = 2
  Vec = {v1}
  Session = {s1, s2}
  BigEndian = {s1}
  Raw = {r1}
  MaxLen = 2
  Input <- NoRecords
  InputView <- PackViews
  InputRecord <- NoRecords
  InputSlices <- NoRecords
  Inputs <- NoRecords
  ForceWide = {TRUE, FALSE}
  Exports = {v1}
  Faults = {"cut", "lengthened", "end", "tag"}
  NoRaw = NoRaw
  Nil = Nil
  NoStream = NoStream
  Damaged = Damaged
  NoResult = NoResult
  NewStrings = NewStrings
VIEW PackState
INVARIANTS
  TypeOK
  LayoutOK
PROPERTIES
  DataImmutable
  TextSurvivesTransit
