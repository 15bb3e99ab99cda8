SPECIFICATION Spec
CONSTANTS
  Empty = Empty
  None = None
  Absent = Absent
  NonString = NonString
  acme = acme
  ada = ada
  Organizations = {acme}
  Strings = {acme, ada}
  Browsers = {b1, b2}
  Requests = {r1, r2}
  Calls = {c1, c2}
  ClaimNames <- MCClaimNames
  IdTokenClaims <- MCIdTokenClaims
  ProfileClaims = {}
  ScopeChoices = {{}}
  AnswerKinds = {"code", "error"}
INVARIANTS
  Inv
  CodeAndVerifierPaired
  DenialIsOfTheStoredRequest
  SessionOfOneRequest
  SessionInRequestedOrganization
PROPERTIES
  ImplementsContract
SYMMETRY Symmetry
