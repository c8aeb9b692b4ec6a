CONSTANTS
  Versions = {v1}
  Legacy = {v1}
  Attempts = {w1, w2}
  Jobs = {j1, j2}
  RetryLimit = 1
  MaxSends = 2
  LastRetryMayDie = TRUE
  LateCalls = FALSE
  Nil = Nil
SYMMETRY Symmetry
SPECIFICATION VideoSpec
INVARIANT TranscodingIsAttended
CHECK_DEADLOCK FALSE
