SPECIFICATION StorageSpec
CONSTANTS
  Contents = {c1}
  CourseRuns = {k1}
  Assets = {p1, p2}
  Requests = {q1, q2}
  MaxFiles = 2
  MaxPending = 1
  MaxCopies = 2
  Bytes = {"clean", "blocked", "wrong"}
  SlowStore = FALSE
  LostAcks = FALSE
  Versions = {v1, v2}
  Legacy = {v1}
  Attempts = {p1, p2, p3}
  Jobs = {q1, q2}
  RetryLimit = 1
  MaxSends = 2
  LastRetryMayDie = FALSE
  LateCalls = FALSE
  None = None
  Nil = Nil
SYMMETRY Symmetry
CONSTRAINT Bounds
INVARIANTS ReadyServesInspected PublishedIsServable ClosedIsGone
PROPERTIES SubmittedFilesFrozen ServedStaysWhole
CHECK_DEADLOCK FALSE
