SPECIFICATION AccountsSpec
CONSTANTS
  Requests = {r1, r2}
  SignRequests = {r1, r2}
  AdminRequests = {r1, r2}
  MaxSessions = 1
  ChainLimit = 2
  MaxResets = 0
  Browsers = {}
  OwnerBrowsers = {}
  Subjects = {}
  MaxAttempts = 1
  MaxCodes = 1
  MaxNonces = 0
  Threshold = 1
  CodesPerSet = 1
  MaxSets = 1
  MaxEnrolments = 0
  MaxStep = 1
  Users = {"a", "b", "c"}
  FirstAdmins = {"a", "b", "c"}
  Members = {}
  AppliedRoles = {}
  PrivacyTypes = {}
  MaxCertificates = 1
  Audited = {}
  Group <- GroupOf
  BatchSize = 2
  MaxAlerts = 0
  MaxRuns = 0
  MaxChanges = 0
SYMMETRY Symmetry
INVARIANT AdminRemains
CHECK_DEADLOCK FALSE
