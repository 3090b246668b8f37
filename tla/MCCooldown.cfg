CONSTANTS
  Agent = {a1, a2}
  a1 = a1
  a2 = a2
  Nobody = Nobody
  right = right
  wrong = wrong
  other = other
  Flag = {right, wrong, other}
  NoFlag = NoFlag
  Correct = right
  Looks <- MCLooks
  Policy <- TwoWrong
  Profile = TRUE
  Uploads = TRUE
  Commands <- MCCommands
  MaxAttempts = 2
  Mortal = {a1}
  MaxBegun = 2
  MaxPosts = 3
SPECIFICATION SolveSpec
PROPERTY CooldownKept
CHECK_DEADLOCK FALSE
