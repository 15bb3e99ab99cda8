SPECIFICATION HelperSpec
CONSTANTS
  Names = {owner, viewer, superuser}
  Tiers = {owner, viewer}
  Empty = Empty
  Null = Null
  Other = Other
  MaxList = 2
  SubjectLists <- MCSubjectLists
INVARIANTS
  DelegationIsNeverHidden
  GrantsAreThoseListed
CHECK_DEADLOCK FALSE
