SPECIFICATION ContestSpec
CONSTANTS
  Operator = {s1, s2}
  Worker <- MCWorker
  Pid = {p1, p2}
  NoPid = NoPid
  Commands = {"arm", "arm_quiet", "prestart", "disarm", "disarm_stop", "start", "restart", "stop", "status"}
  MaxBegun = 4
  MaxDeaths = 1
  MaxReused = 1
  Keeper = {s1, s2}
  Listener = {l1}
  Tunnel = {t1}
  Chores = {"listen", "tunnel", "smoke", "status", "stop", "list", "cleanup"}
  MaxChores = 3
  MaxDrops = 1
  MaxCrashes = 1
  Runner = {s1, s2}
  Slot <- MCSlot
  PoolCommands = {"start", "exec", "status", "cleanup"}
  MaxPool = 3
  MaxExpired = 1
  MaxFailures = 1
SYMMETRY Symmetry
INVARIANTS PartsTypeOK ArmingHolds WorkersAccounted ResourcesAccounted PoolAccounted
PROPERTIES RunningKept
CHECK_DEADLOCK FALSE
