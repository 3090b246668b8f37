SPECIFICATION Spec
CONSTANTS
  a1 = a1  a2 = a2  c1 = c1  c2 = c2  right = right  wrong = wrong
  Agent = {a1, a2}
  Challenge = {c1}
  Nobody = Nobody
  Flag = {right, wrong}
  Correct = right
  Commands = {"status", "claim", "external", "submit"}
  Mortal = {a1}
  MaxBegun = 3
PROPERTIES NoPostWhenSolved
CHECK_DEADLOCK FALSE
