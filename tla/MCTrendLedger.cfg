\* Liveness is checked without symmetry.
SPECIFICATION FairSpec
CONSTANTS
  p1 = p1
  p2 = p2
  p3 = p3
  p4 = p4
  Garbled = Garbled
  Nobody = Nobody
  Appenders <- FourCalls
  Identity <- SharedIdentity
INVARIANTS
  TypeOK
  RepeatsNeedAnError
  LossIsLoud
PROPERTIES
  AppendOnly
  EveryCallEnds
