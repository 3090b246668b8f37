SPECIFICATION RecordsSpec
CONSTANTS
  c1 = c1  c2 = c2  right = right
  Worker = {w1, w2}
  Challenge = {c1, c2}
  NoWorker = NoWorker
  Priority = {1, 2}
  PlatformPriority = 2
  Agent = {"solver", "hand"}
  Nobody = "nobody"
  Flag = {right, c1, c2}
  NoFlag = NoFlag
  Correct = right
  Looks <- MCLooks
  Policy <- MCPolicy
  Profile = TRUE
  Uploads = TRUE
  Commands <- MCCommands
  MaxAttempts = 1
  Mortal = {"solver"}
  MaxBegun = 2
  MaxPosts = 3
  Task = {t1, t3}
  Title = {"bird", "bird_static", "stork"}
  Canon <- CanonOf
  Opening <- OpeningOf
  Shells = {t3}
  MaxSyncs = 3
  MaxTurns = 2
  Console = {c1, c2}
  Derivable = TRUE
  MaxCommands = 3
  MaxFalls = 2
SYMMETRY Symmetry
INVARIANTS PartsTypeOK ClaimConsistent VerdictEarned WrongLimitKept SolvedStays BoardTruthful SettingsKept
PROPERTIES HandoverOnlyWhenStale LeaseRefined ClaimIsHonoured
CHECK_DEADLOCK FALSE
