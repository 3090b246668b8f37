SPECIFICATION FairSpec
CONSTANTS
  w1 = w1
  w2 = w2
  o1 = o1
  c1 = c1
  c2 = c2
  right = right
  wrong = wrong
  wrong2 = wrong2
  Worker = {w1, w2}
  Operator = {}
  Challenge = {c1}
  NoWorker = NoWorker
  Priority = {1}
  PlatformPriority = 1
  Flag = {right}
  Correct <- AllCorrect
  Candidates <- AnyFlag
  Class <- AllHigh
  RunMode = "competition"
  Options = {"confirm_competition"}
  PlatformKind = "real_platform"
  ProfilePolicy = {"allow_submission"}
  Adapter = "ready"
  Policy <- MCPolicy
  StopWhenEmpty = FALSE
  Mortal = {w1}
  InitialSource <- FromPlatform
  Disturbances = {"crash", "sync"}
PROPERTIES
  ClaimComesBack
