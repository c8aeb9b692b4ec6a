SPECIFICATION EndsSpec
CONSTANTS
  NoKey = NoKey
  Keys = {k1, k2}
  Payments = {p1, p2}
  Decisions = {"d1", "d2"}
  Polls = {"q1", "q2"}
  Contents = {c1}
  CourseRuns = {run1}
  Assets = {a1}
  Requests = {r1}
  MaxFiles = 1
  MaxPending = 1
  MaxCopies = 1
  Bytes = {"clean"}
  SlowStore = TRUE
  LostAcks = TRUE
  Versions = {v1}
  Legacy = {v1}
  Attempts = {w1, w2}
  Jobs = {j1, j2}
  RetryLimit = 1
  MaxSends = 1
  LastRetryMayDie = FALSE
  LateCalls = FALSE
  None = None
  Nil = Nil
  TranscodeJobs = {"t1", "t2"}
  IdleExit = TRUE
  Concurrency = 1
INVARIANTS
  NothingCutOff
  OneCheckoutPerKey
PROPERTIES
  ImplementsPromise
  NoticesArrive
  StorageSettles
  StopsInTime
CHECK_DEADLOCK FALSE
