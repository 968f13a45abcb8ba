SPECIFICATION Spec
CONSTANTS
  charvec = charvec
  other = other
  v = v
  w = w
  ww = ww
  u = u
  p = p
  wp = wp
  wwp = wwp
  wwwp = wwwp
  f0 = f0
  f1 = f1
  f2 = f2
  Vec = {v, w, ww, p, wp, wwp, wwwp}
  Class = {charvec}
  ClassOf <- ClassOfEach
  Data1 <- DataOfEach
  Length <- SameLength
  max_unwrap_depth = 2
  Fns = {f0}
  Stateless = {f0}
  Offers <- OneOffer
  DropsData = {charvec}
  Slot = {s1, s2}
  State = {p1}
  MaxCalls = 2
  Null = Null
  NoVec = NoVec
  InPlace = InPlace
  DirectFns = DirectFns
SYMMETRY SymmetrySlots
PROPERTIES
  InnerLeftAlone
