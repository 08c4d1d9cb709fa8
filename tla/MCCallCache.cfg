\* Deployments go on for ever, so nothing deadlocks when all calls have ended.
SPECIFICATION Spec
CONSTANTS
  c1 = c1
  c2 = c2
  c3 = c3
  c4 = c4
  d1 = d1
  d2 = d2
  r1 = r1
  r2 = r2
  i1 = i1
  i2 = i2
  i3 = i3
  Absent = Absent
  Calls <- MCCalls
  Deployments <- MCDeployments
  Requests <- MCRequests
  Identities <- MCIdentities
  IdentityOf <- MCIdentityOf
  Request <- MCRequest
  Kind <- MCKind
  Declared <- MCDeclared
  NoCache <- MCNoCache
INVARIANTS
  TypeOK
  HitAnswersThisCall
  OnlyGoodAnswersAreRepeated
  KeysKeepTheirMeaning
