SPECIFICATION Spec
CONSTANTS
  r1 = r1
  r2 = r2
  r3 = r3
  w1 = w1
  w2 = w2
  None = None
  Request <- ThreeRequests
  Word <- TwoWords
  MaxRestarts = 2
SYMMETRY Alike
INVARIANT PageSaidOnce
INVARIANT AnsweredEditsKept
INVARIANT EditsAreLogged
INVARIANT LogIsEvidence
CHECK_DEADLOCK FALSE
