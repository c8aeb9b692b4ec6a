SPECIFICATION Spec
CONSTANTS
  Contents = {c1}
  CourseRuns = {}
  Assets = {a1}
  Requests = {r1}
  MaxFiles = 1
  MaxPending = 1
  MaxCopies = 1
  Bytes = {"clean", "blocked", "wrong"}
  SlowStore = FALSE
  LostAcks = TRUE
  None = None
INVARIANT ReadyServesInspected
CHECK_DEADLOCK FALSE
