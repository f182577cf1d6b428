\* A user with two instances, and one without bandwidth.
SPECIFICATION Spec
CONSTANTS
  k1 = k1
  kZero = kZero
  i1 = i1
  i2 = i2
  DemandKeys = {k1, kZero}
  Instances = {i1, i2}
  Null = Null
  Limit <- MCLimit
  CountsOf <- MCCountsOf
  UnderscoredUsers = TRUE
  MaxAge = 2
INVARIANTS TypeOK SharesAddUp
PROPERTY SharesConverge
