SPECIFICATION ScenesSpec
CONSTANTS
  c1 = c1
  right = right
  Worker = {w1, w2}
  Operator = {o1}
  Challenge = {c1, c2}
  NoWorker = NoWorker
  Priority = {1}
  PlatformPriority = 1
  Flag = {right, wrong}
  Correct <- AllCorrect
  Candidates <- OnlyRight
  Class <- AllHigh
  RunMode = "competition"
  Options <- CompetitionOptions
  PlatformKind = "real_platform"
  ProfilePolicy = {"allow_submission"}
  Adapter = "ready"
  Policy <- MCPolicy
  StopWhenEmpty = TRUE
  Mortal = {w1, w2}
  InitialSource <- MayBeAbsent
  Disturbances = {"crash", "restart", "slow", "sync", "ingest", "manual", "submit", "release", "arm"}
INVARIANTS TypeOK Exclusive NoLeakedClaim LeasedIsClaimed NothingInvented
PROPERTIES SolvedSticks
SYMMETRY Symmetry
CHECK_DEADLOCK FALSE
