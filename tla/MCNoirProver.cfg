CONSTANTS
  Calls = {c1, c2, c3}
  Witnesses = {w1, w2}
  MaxEdits = 1
  Exclusive = TRUE
  NoFile = NoFile
  Torn = Torn
SPECIFICATION Spec
INVARIANTS
  TypeOK
  OwnProof
  CachedKeyIsCurrent
PROPERTIES
  ImplementsService
SYMMETRY Symmetry
CHECK_DEADLOCK FALSE
