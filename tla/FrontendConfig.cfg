SPECIFICATION Spec
CONSTANTS
  Callers = {p1, p2, p3}
  Documents = {d1, d2}
  Statuses = {200, 300, 401, 500}
  NoCaller = NoCaller
  NoDocument = NoDocument
  NoAnswer = NoAnswer
  NoResult = NoResult
INVARIANTS
  Inv
  OneFetchAtATime
  OneDocument
PROPERTIES
  FailureIsOwn
  EveryCallReturns
