--------------------------- MODULE UserFromToken ---------------------------
(***************************************************************************)
(* userFromToken (auth.go): from the answer of the token endpoint and the  *)
(* answer of UserInfo to the user, for the code flow and the device flow.  *)
(* Pure: the module has no variables; the flows choose the two answers.    *)
(***************************************************************************)
EXTENDS GoValues

CONSTANTS Strings,    \* the non-empty strings a claim can hold
          Absent,     \* a claim that is not in the map
          NonString,  \* a claim that is there and is no string (null, a number)
          ClaimNames, \* the claims modelled
          None        \* no request, session, token, user or result

Claims == [ClaimNames -> Strings \cup {Empty, NonString, Absent}]

ASSUME ClaimsAssumption ==
  /\ {"sub", "org", "sid"} \subseteq ClaimNames
  /\ Empty \notin Strings
  /\ {Absent, NonString} \cap (Strings \cup {Empty}) = {}
  /\ Absent # NonString

-----------------------------------------------------------------------------
(* Claims.                                                                 *)

NoClaims == [k \in ClaimNames |-> Absent]

(* Mutation.                                                               *)
stringClaimUnchecked(claims, key) == claims[key]

stringClaim(claims, key) == IF claims[key] \in Strings THEN claims[key] ELSE Empty

IsString(value) == value \in Strings \cup {Empty}

(* Mutations.                                                              *)
mergeReplaces(profile, verified) ==
  [k \in ClaimNames |-> IF profile[k] # Absent THEN profile[k] ELSE verified[k]]
SubjectsNeverDiffer(profile, verified) == FALSE

(* The signed claims go back on top of the profile.                        *)
merge(profile, verified) ==
  [k \in ClaimNames |-> IF verified[k] # Absent THEN verified[k] ELSE profile[k]]

SubjectsDiffer(profile, verified) ==
  /\ IsString(verified["sub"])
  /\ IsString(profile["sub"])
  /\ verified["sub"] # profile["sub"]

-----------------------------------------------------------------------------
(* What the operations of a sign-in return.                                *)

Failed(err, op, code) == [err |-> err, op |-> op, code |-> code, user |-> None]

ErrInvalidState      == Failed("ErrInvalidState", "none", "none")
ErrAuthentication    == Failed("ErrAuthentication", "none", "none")
OAuthError(op, code) == Failed("OAuthError", op, code)

(* verified holds the claims of an id_token that verified and no claims    *)
(* for an answer that carried no id_token.                                 *)
CboxUser(token, profile) ==
  LET claims == merge(profile, token.verified) IN
  [token          |-> token,
   id             |-> stringClaim(claims, "sub"),
   organizationID |-> stringClaim(claims, "org"),
   sessionID      |-> stringClaim(token.verified, "sid"),
   claims         |-> claims]

Succeeded(user) == [err |-> "nil", op |-> "none", code |-> "none", user |-> user]

-----------------------------------------------------------------------------
(* The steps of userFromToken.                                             *)

(* Mutation.                                                               *)
NonceNeverDiffers(token, expectedNonce) == FALSE

NonceDiffers(token, expectedNonce) ==
  expectedNonce # Empty /\ token.nonce # expectedNonce

(* Before UserInfo is asked: None where the code goes on.                  *)
RefusedToken(token, expectedNonce) ==
  IF \/ token.idToken = "unverifiable"
     \/ token.idToken = "verified" /\ NonceDiffers(token, expectedNonce)
  THEN ErrAuthentication
  ELSE None

(* Mutation.                                                               *)
EnrichedNeedingUserInfo(token, profile) ==
  LET user == CboxUser(token, profile) IN
  IF profile = NoClaims \/ SubjectsDiffer(profile, token.verified) \/ user.id = Empty
  THEN ErrAuthentication
  ELSE Succeeded(user)

(* After UserInfo answered; profile is NoClaims when it did not, which is  *)
(* not an error.                                                           *)
Enriched(token, profile) ==
  LET user == CboxUser(token, profile) IN
  IF SubjectsDiffer(profile, token.verified) \/ user.id = Empty
  THEN ErrAuthentication
  ELSE Succeeded(user)
=============================================================================
