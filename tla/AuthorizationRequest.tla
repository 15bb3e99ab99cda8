------------------------ MODULE AuthorizationRequest ------------------------
(***************************************************************************)
(* Building an authorization request: CreateAuthorizationRequest,          *)
(* SwitchOrganization and the two checks they make before any redirect     *)
(* (auth.go).  Pure: the module has no variables.                          *)
(*                                                                         *)
(* A Go string that is not set is Empty.  The state, the PKCE verifier and *)
(* the nonce of a request are three independent random values drawn for it *)
(* alone; each is represented by the identity r of the request it was      *)
(* drawn for, and the S256 challenge by the verifier it is computed from.  *)
(***************************************************************************)
EXTENDS GoValues, Ordering, SequencesExt

CONSTANT Organizations \* organization ids an application can name

ASSUME EmptyIsNoOrganization == Empty \notin Organizations

(* Scopes: only whether openid is among them matters to what comes back.   *)
DefaultScopes == {"openid", "profile", "email"}

(***************************************************************************)
(* Mutations of the definitions below: bugs this code could have had, each *)
(* of which breaks a property of MCAuthorizationRequest.                   *)
(***************************************************************************)
promptValueKeepsRepeats(prompt) == FlattenSeq(prompt)

NoneIsCombinedWhenFirst(values) == Len(values) > 1 /\ values[1] = "none"

assertOrganizationParamsForSelectOnly(params, values) ==
  params.organization # Empty => ~ Contains(values, "select_organization")

(* prompt is what AuthParams.Prompt holds: a sequence of values, each of   *)
(* which strings.Fields splits into a sequence of words.  A word is added  *)
(* where the loops meet it for the first time.                             *)
WordPlaces(prompt) == UNION {{i} \X (DOMAIN prompt[i]) : i \in DOMAIN prompt}

WordAt(prompt, p) == prompt[p[1]][p[2]]

MetUpTo(p, q) == p[1] < q[1] \/ (p[1] = q[1] /\ p[2] <= q[2])

FirstMet(prompt) ==
  {p \in WordPlaces(prompt) :
     \A q \in WordPlaces(prompt) : WordAt(prompt, q) = WordAt(prompt, p) => MetUpTo(p, q)}

promptValue(prompt) ==
  LET order == InOrder(FirstMet(prompt), MetUpTo)
  IN  [n \in DOMAIN order |-> WordAt(prompt, order[n])]

NoneIsCombined(values) == Contains(values, "none") /\ Len(values) > 1

assertOrganizationParams(params, values) ==
  params.organization # Empty =>
    ~ Contains(values, "select_organization") /\ ~ Contains(values, "create_organization")

ErrConfiguration == [err |-> "ErrConfiguration"]

CreateAuthorizationRequest(redirectURI, params, r) ==
  LET values == promptValue(params.prompt) IN
  IF \/ redirectURI = Empty
     \/ NoneIsCombined(values)
     \/ ~ assertOrganizationParams(params, values)
  THEN ErrConfiguration
  ELSE [err          |-> "nil",
        url          |-> [state        |-> r,
                          challenge    |-> r,
                          nonce        |-> r,
                          scopes       |-> IF params.scopes = {} THEN DefaultScopes
                                                                 ELSE params.scopes,
                          prompt       |-> values,
                          organization |-> params.organization,
                          hint         |-> params.hint],
        state        |-> r,
        codeVerifier |-> r,
        nonce        |-> r,
        organization |-> params.organization]

SwitchOrganization(redirectURI, organizationID, params, r) ==
  IF organizationID = Empty \/ params.organization # Empty \/ params.hint # Empty
  THEN ErrConfiguration
  ELSE CreateAuthorizationRequest(redirectURI,
                                  [params EXCEPT !.organization = organizationID], r)
=============================================================================
