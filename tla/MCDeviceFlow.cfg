SPECIFICATION Spec
CONSTANTS
  Empty = Empty
  None = None
  Absent = Absent
  NonString = NonString
  Never = Never
  ada = ada
  grace = grace
  People = {ada, grace}
  Strings = {ada, grace}
  ClaimNames <- MCClaimNames
  ScopeChoices = {{}, {"profile"}}
  Intervals = {0, 2}
  Lifetimes = {3, Never}
  Deadlines = {2, Never}
  DefaultInterval = 1
  SlowDownStep = 1
  MaxInterval = 3
  Attempts = 2
  RequestsTimeOut = TRUE
INVARIANTS
  Inv
  PollsArePaced
  UserIsTheApprover
  SpentInVainNeedsAMishap
PROPERTIES
  PollEnds
  DecisionEndsTheWait
CHECK_DEADLOCK FALSE
