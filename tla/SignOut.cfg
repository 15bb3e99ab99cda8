SPECIFICATION SignOutSpec
CONSTANTS
  Callers = {p1, p2}
  MaxTokens = 2
  Empty = Empty
  NoResult = NoResult
INVARIANTS
  SignOutInv
  SignedOutOnlyWhenOver
  ReuseNeedsAMishap
  HeldIsCurrent
  RateLimitedIsRetryable
  InactiveMeansOver
PROPERTIES
  EndIsNoticed
