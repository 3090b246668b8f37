SPECIFICATION FairSpec
CONSTANTS
  Worker = {w1, w2}
  Challenge = {c1, c2}
  NoWorker = NoWorker
  solver = a1
  right = right
  Agent = {a1, a2}
  Nobody = Nobody
  Flag = {right}
  NoFlag = NoFlag
  Correct = right
  Looks <- MCLooks
  Policy <- MCPolicy
  Profile = TRUE
  Uploads = TRUE
  Commands <- MCCommands
  MaxAttempts = 2
  Mortal = {a1}
  MaxBegun = 2
  MaxPosts = 3
PROPERTIES EveryChallengeParked ClaimComesBack ClaimReturned
CHECK_DEADLOCK FALSE
