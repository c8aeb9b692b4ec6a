SPECIFICATION BrowserSpec
CONSTANTS
  Accounts = {s1, s2}
  Items = {"x"}
  MaxActs = 2
  MaxFaults = 2
  Shoppers = {"a", "b"}
  Goods = {"x", "y"}
  MaxClicks = 6
  MaxMissed = 1
  PlaySessions = {s1, s2}
  Duration = 2
  MaxGap = 1
  MaxAge = 1
  MaxTail = 1
  MaxPlayers = 1
  SeekTargets = {1}
  MaxReports = 3
  MaxWatchClock = 2
  Chosen = {s1, s2}
  NoFile = NoFile
  Sources = {s1, s2}
  PartCount = 2
  Keys = {k1, k2}
  Nothing = Nothing
  FileKinds = {"docs", "web", "api", "shared", "database"}
  MaxCommits = 2
  MaxDeploys = 3
  MaxUploads = 3
  MaxReleases = 1
  MinLength = 4
  MaxLength = 5
  RepeatLimit = 3
  SequenceLimit = 3
  CoreLength = 3
  TokenLength = 2
  Blocked <- BlockedWords
  ServiceTerms <- Terms
  RawTokens <- MemberNames
  Longest = 5
SYMMETRY Symmetry
INVARIANTS
  CreditedWasSeen
  QueuedIsOneFile
  BasketHolds
  SuccessWasWhole
  PasswordsAreJudgedAlike
  EntranceLeads
PROPERTIES OneAccountAtATime ResentOnlyIfAbsent
CHECK_DEADLOCK FALSE
