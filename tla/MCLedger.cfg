SPECIFICATION LedgerSpec
CONSTANTS
  right = right
  Worker = {w1, w2}
  Operator = {}
  Challenge = {c1}
  NoWorker = NoWorker
  Priority = {1}
  PlatformPriority = 1
  Flag = {right, wrong, wrong2}
  Correct <- AllCorrect
  Candidates <- AnyFlag
  Class <- AllHigh
  RunMode = "competition"
  Options <- CompetitionOptions
  PlatformKind = "real_platform"
  ProfilePolicy = {"allow_submission"}
  Adapter = "ready"
  Policy <- MCPolicy
  StopWhenEmpty = TRUE
  Mortal = {w1, w2}
  InitialSource <- FromPlatform
  Disturbances = {"crash", "restart", "ingest", "slow", "sync"}
  Author = {w1, w2}
  Papers <- ThreePapers
  MaxEditions = 3
  MaxChanges = 1
  MaxCrashes = 1
INVARIANTS VerdictsKept NoDuplicatePost WrongLimitKept
PROPERTIES RecordsKept
SYMMETRY Symmetry
CHECK_DEADLOCK FALSE
