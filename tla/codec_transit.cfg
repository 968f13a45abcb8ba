SPECIFICATION Spec
CONSTANTS
  Byte <- MCByte
  AsciiByte <- MCAscii
  NA_STRING = NA_STRING
  Vec = {v1}
  Session = {s1, s2}
  BigEndian = {s1}
  MaxLen = 2
  MaxRaw = 26
  MaxString = 2
  InputView <- TransitViews
  Older = {"CPV1", "CPV2"}
  Faults = {"cut", "lengthened", "sizes", "encoding", "prefix"}
  Junk = Junk
  Absent = Absent
  NoStream = NoStream
  Damaged = Damaged
INVARIANTS
  TypeOK
  StatesAreReadable
PROPERTIES
  TextSurvivesTransit
  AcceptedStatesAreExact
