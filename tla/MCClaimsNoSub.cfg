SPECIFICATION Spec
CONSTANTS
  Empty = Empty
  None = None
  Absent = Absent
  NonString = NonString
  acme = acme
  globex = globex
  ada = ada
  grace = grace
  signedSid = signedSid
  profileSid = profileSid
  Organizations = {acme}
  Strings = {acme, globex, ada, grace, signedSid, profileSid}
  Browsers = {b1}
  Requests = {r1}
  Calls = {c1}
  ClaimNames <- MCClaimNames
  IdTokenClaims <- MCIdTokenClaims
  ProfileClaims <- ProfilesWithoutSub
  ScopeChoices = {{}, {"profile"}}
  AnswerKinds = {"code", "error", "neither"}
INVARIANTS
  UserInfoUsedOnlyWhenSubMatches
