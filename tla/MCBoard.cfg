SPECIFICATION FilesSpec
CONSTANTS
  Agent = {a1, a2}
  Challenge = {c1, c2}
  Nobody = Nobody
  Flag = {right, wrong}
  Correct = right
  Commands = {"status", "sync", "config", "claim", "claim_named", "retry", "race", "release", "stall", "external", "submit"}
  Mortal = {a1, a2}
  MaxBegun = 3
  Helper = {a1, a2}
  Task = {good, bad}
  Solvable = {good}
  NoTask = NoTask
  Kinds = {"full", "codex", "e2e", "smoke"}
  MaxParallel = 1
  MinSolved = 1
  MaxRuns = 2
  MaxKillings = 1
  MaxRaises = 1
  Visitor = {a1, a2}
  Attachment = {c1, c2}
  Adapters = {"ctfd", "generic"}
  Intakes = {"download", "ingest", "smoke", "sync", "rehearse"}
  MaxDownloads = 1
  MaxCopies = 1
  MaxIntakes = 2
  MaxLosses = 1
  Entry = {e1, e2, e3}
  Formats = {"zip", "tar", "gz", "7z", "other"}
  MaxFiles = 2
  MaxSingle = 2
  MaxBytes = 3
  MaxSize = 4
  MaxEntries = 4
  MaxArchives = 2
  MaxKills = 1
SYMMETRY Symmetry
INVARIANTS PartsTypeOK SoleWorker LocksMatchWork VerdictsResurface NoRepeatedPost RehearsalHolds  ExtractionSound
PROPERTIES OriginalsKept NoClaimOfKnown LocksAreHonoured
CHECK_DEADLOCK FALSE
