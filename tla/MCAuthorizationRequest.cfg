SPECIFICATION RequestSpec
CONSTANTS
  Empty = Empty
  Organizations = {acme, globex}
  Callback = callback
  Words = {"none", "login", "select_organization", "create_organization"}
  MaxValues = 2
  MaxWords = 2
INVARIANTS
  PromptIsExactlyWhatWasAsked
  BoundAsTheEntryPointSays
  RefusedOnlyForAContradiction
CHECK_DEADLOCK FALSE
