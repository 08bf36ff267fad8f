SPECIFICATION Spec
CONSTANTS
  SessionIds = {s1, s2, s3}
  UserData = {u1, u2}
  TTLs <- MCTTLs
  DefaultTTL = 2
  MaxTime = 3
  Colliding = {s3}
  Absent = Absent
  NoId = NoId
  Never = Never
SYMMETRY UserSymmetry
INVARIANTS
  TypeOK
  SlidingExpiry
  RejectedForGood
  GuardedReadSucceeds
PROPERTIES
  ServesSessions
