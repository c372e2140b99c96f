CONSTANTS
  Calls = {c1, c2}
  Witnesses = {w1, w2}
  MaxEdits = 0
  Exclusive = FALSE
  NoFile = NoFile
  Torn = Torn
SPECIFICATION Spec
INVARIANT OwnProof
CHECK_DEADLOCK FALSE
