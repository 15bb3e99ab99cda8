SPECIFICATION Spec
CONSTANTS
  Half = 128
  NoSecret = NoSecret
  Empty = Empty
  SignIns = {s1}
  Workers = {w1, w2}
  Tolerance = 1
  Skews = {0, 1}
  MaxTime = 3
  MaxAsked = 2
INVARIANTS
  Inv
  DecisionsAreTrue
  VerifierSeesOnlyFresh
CHECK_DEADLOCK FALSE
