\* Three session rows: one sign-in rotates twice, or rotates beside another one.
SPECIFICATION AccountsSpec
CONSTANTS
  Requests = {r1, r2}
  MaxSessions = 3
  ChainLimit = 4
  MaxResets = 1
  Browsers = {"b1", "b2"}
  OwnerBrowsers = {"b1"}
  Subjects = {"g1", "g2"}
  MaxAttempts = 2
  MaxCodes = 2
  MaxNonces = 2
  SignRequests = {r1, r2}
  Threshold = 2
  CodesPerSet = 1
  MaxSets = 2
  MaxEnrolments = 2
  MaxStep = 1
  Users = {"a", "u"}
  AdminRequests = {r1, r2}
  FirstAdmins = {"a"}
  Members = {"u"}
  AppliedRoles = {"trainer"}
  PrivacyTypes = {"deletion"}
  MaxCertificates = 1
  Audited = {1, 2, 3}
  Group <- GroupOf
  BatchSize = 2
  MaxAlerts = 1
  MaxRuns = 2
  MaxChanges = 1
SYMMETRY Symmetry
CONSTRAINT Few
INVARIANTS
  OneLivePerLogin
  LinkRedeemedOnce
  MailboxProvedFirst
  FactorsHold
  RolesFitAccounts
  JobsReportAll
PROPERTIES
  EndedStaysEnded
  LogoutsAreExact
\* A deleted account with no request in flight and no time left has stopped.
CHECK_DEADLOCK FALSE
