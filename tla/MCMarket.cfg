CONSTANTS
  ListKinds = {"reports", "wallet", "courses", "applications", "submissions"}
  ListRows = {1, 2, 3, 4}
  Instants = {2, 3}
  Micros = 2
  PageSize = 2
  MaxWrites = 1
  Terms = {"live", "cloud", "dear"}
  Hosted = {"cloud"}
  Covers = {1, 2}
  ListingFiles = {x1, x2}
  Reviewers = {"r1"}
  Logins = {"s1", "s2"}
  Clicks = {x1, x2}
  MaxTokens = 2
  Dialogs = {x1, x2}
  Payloads = {y1, y2}
  MaxKeys = 2
  MaxCalls = 3
  DeskAccounts = {"a", "b"}
  MaxPayments = 1
  MaxTerms = 2
  MaxOut = 2
  MaxAsks = 2
  MaxEntries = 2
  MaxTotal = 8
  MaxEntry = 6
  MaxRatio = 1
  RatioFloor = 2
  MaxRecords = 2
  LieSets = {{}, {"name"}, {"method"}, {"encrypted"}, {"descriptor"}, {"offset"}, {"longer"}, {"shorter"}, {"less"},
             {"more"}, {"checksum"}, {"swallow"}, {"longer", "descriptor"}, {"longer", "sized", "matching"},
             {"shorter", "descriptor", "sized", "matching"}, {"swallow", "sized"}, {"swallow", "sized", "matching"}}
  Verifications = {x1, x2}
  SlotLimit = 1
  MaxVersions = 2
  Chunks = 2
  Scanner = TRUE
SYMMETRY MarketSymmetry
SPECIFICATION MarketSpec
INVARIANTS
  ListsAreWhole
  PublishedAsReviewed
  ConfirmedByWhoActs
  RecordedAsConfirmed
  PaymentsToldTruly
  ArchivesAreSound
  InspectionsHold
CHECK_DEADLOCK FALSE
