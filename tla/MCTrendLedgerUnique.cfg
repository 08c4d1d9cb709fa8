SPECIFICATION Spec
CONSTANTS
  p1 = p1
  p2 = p2
  p3 = p3
  p4 = p4
  Garbled = Garbled
  Nobody = Nobody
  Appenders <- FourCalls
  Identity <- SharedIdentity
SYMMETRY SameIdentityCalls
INVARIANT UniqueRows
