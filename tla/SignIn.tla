------------------------------- MODULE SignIn -------------------------------
(***************************************************************************)
(* Signing in with the authorization code flow (auth.go): a browser is     *)
(* sent to the instance with a request, comes back on the callback route,  *)
(* and Authenticate turns the callback and the values the application kept *)
(* into a user, over two HTTP calls to the instance.                       *)
(*                                                                         *)
(* The application is the one the README describes: it keeps the values of *)
(* a request in one place per browser, so a second request started in      *)
(* another tab overwrites the first, and it makes the user Authenticate    *)
(* returns the session of that browser.  The instance (token and UserInfo  *)
(* endpoints) is external: it answers an honest request truthfully, or     *)
(* refuses, or its answer is lost; what its tokens and profiles claim is   *)
(* bounded by constants.                                                   *)
(***************************************************************************)
EXTENDS AuthorizationRequest, UserFromToken, Integers

CONSTANTS Browsers, Requests, Calls,
          IdTokenClaims, \* claim maps the instance may sign
          ProfileClaims, \* claim maps UserInfo may answer
          ScopeChoices,  \* AuthParams.Scopes the application uses
          AnswerKinds    \* what may come back: "code", "error", "neither"

ASSUME AnswersAssumption ==
  /\ Organizations \subseteq Strings
  /\ IdTokenClaims \subseteq Claims
  /\ ProfileClaims \subseteq Claims

ASSUME RequestsAssumption == Empty \notin Requests

VARIABLES
  sent,      \* per request: what its URL asked, and from which browser
  stored,    \* per browser: the Stored the application keeps
  callbacks, \* the callback URLs that exist; following one does not remove it
  redeemed,  \* codes the token endpoint has redeemed
  calls,     \* the Authenticate calls in progress
  session    \* per browser: the user the application has signed in

vars == <<sent, stored, callbacks, redeemed, calls, session>>

-----------------------------------------------------------------------------
(* The steps of Authenticate.  Each returns None where the code goes on.   *)

(* Mutation.                                                               *)
StateIsOnlyPresent(callback, kept) == callback.state # Empty /\ kept.state # Empty

StateMatches(callback, kept) ==
  callback.state # Empty /\ kept.state # Empty /\ callback.state = kept.state

(* Mutation.                                                               *)
RefusedCallbackErrorFirst(callback, kept) ==
  IF callback.error # Empty THEN OAuthError("authorization", callback.error)
  ELSE IF ~ StateMatches(callback, kept) THEN ErrInvalidState
  ELSE IF callback.code = Empty THEN ErrAuthentication
  ELSE None

RefusedCallback(callback, kept) ==
  IF ~ StateMatches(callback, kept) THEN ErrInvalidState
  ELSE IF callback.error # Empty THEN OAuthError("authorization", callback.error)
  ELSE IF callback.code = Empty THEN ErrAuthentication
  ELSE None

(* Mutations.                                                              *)
OrganizationNeverWrong(user, kept) == FALSE
OrganizationWrongOnlyWhenNamed(user, kept) ==
  /\ kept.organization # Empty
  /\ user.organizationID # Empty
  /\ user.organizationID # kept.organization

WrongOrganization(user, kept) ==
  kept.organization # Empty /\ user.organizationID # kept.organization

(* What is left after UserInfo answered; profile is NoClaims when it did   *)
(* not, which is not an error.                                             *)
UserOrRefusal(token, profile, kept) ==
  LET result == Enriched(token, profile) IN
  IF result.err = "nil" /\ WrongOrganization(result.user, kept)
  THEN ErrAuthentication
  ELSE result

-----------------------------------------------------------------------------
(* States.                                                                 *)

NothingStored == [state |-> Empty, codeVerifier |-> Empty,
                  nonce |-> Empty, organization |-> Empty]

(* The callback route opened without any query parameter.                  *)
BareCallback == [code |-> Empty, state |-> Empty, error |-> Empty]

Idle == [pc       |-> "idle",
         browser  |-> None,
         callback |-> BareCallback,
         stored   |-> NothingStored,
         token    |-> None,
         profile  |-> NoClaims,
         result   |-> None]

Init ==
  /\ sent = [r \in Requests |-> None]
  /\ stored = [b \in Browsers |-> NothingStored]
  /\ callbacks = {BareCallback}
  /\ redeemed = {}
  /\ calls = [c \in Calls |-> Idle]
  /\ session = [b \in Browsers |-> None]

-----------------------------------------------------------------------------
(* The application starts a sign-in, or a switch of organization: it keeps *)
(* what the request returned and redirects the browser.                    *)

Params(scopes, organization) ==
  [prompt |-> <<>>, scopes |-> scopes, organization |-> organization, hint |-> Empty]

RedirectURI == "https://app.test/callback"

Redirect(b, r, request) ==
  /\ sent[r] = None
  /\ request.err = "nil"
  /\ sent' = [sent EXCEPT ![r] = [browser      |-> b,
                                 scopes       |-> request.url.scopes,
                                 organization |-> request.url.organization]]
  /\ stored' = [stored EXCEPT ![b] = [state        |-> request.state,
                                     codeVerifier |-> request.codeVerifier,
                                     nonce        |-> request.nonce,
                                     organization |-> request.organization]]
  /\ UNCHANGED <<callbacks, redeemed, calls, session>>

StartSignIn(b, r) ==
  \E scopes \in ScopeChoices, organization \in Organizations \cup {Empty} :
    Redirect(b, r, CreateAuthorizationRequest(RedirectURI, Params(scopes, organization), r))

StartSwitch(b, r) ==
  \E scopes \in ScopeChoices, organization \in Organizations :
    Redirect(b, r, SwitchOrganization(RedirectURI, organization, Params(scopes, Empty), r))

-----------------------------------------------------------------------------
(* External: the instance sends the browser back with a code or an error,  *)
(* or the person loses the parameters on the way (a truncated link).       *)

CallbackOf(r, kind) ==
  [code  |-> IF kind = "code" THEN r ELSE Empty,
   state |-> r,
   error |-> IF kind = "error" THEN "access_denied" ELSE Empty]

Authorize(r) ==
  /\ sent[r] # None
  /\ \E kind \in AnswerKinds : callbacks' = callbacks \cup {CallbackOf(r, kind)}
  /\ UNCHANGED <<sent, stored, redeemed, calls, session>>

-----------------------------------------------------------------------------
(* The callback route: any browser may open any callback URL, at any time  *)
(* and again (a reload, the back button, a link sent to somebody else).    *)

Authenticate(c, b, callback) ==
  /\ calls[c].pc = "idle"
  /\ callback \in callbacks
  /\ LET refused == RefusedCallback(callback, stored[b]) IN
     calls' = [calls EXCEPT ![c] =
                 [Idle EXCEPT !.pc       = IF refused = None THEN "exchange" ELSE "returned",
                              !.browser  = b,
                              !.callback = callback,
                              !.stored   = stored[b],
                              !.result   = refused]]
  /\ UNCHANGED <<sent, stored, callbacks, redeemed, session>>

(* The token endpoint would honour the call: the code is unused and the    *)
(* verifier is the one the challenge of its request was computed from.     *)
Redeemable(call) ==
  /\ sent[call.callback.code] # None
  /\ call.callback.code \notin redeemed
  /\ call.stored.codeVerifier = call.callback.code

(* It refuses, for that or for a reason of its own (an expired code), or   *)
(* no usable answer arrives: whether or not the code was redeemed, because *)
(* an answer can be lost on its way, and the oauth2 library may then have  *)
(* presented the code once more by itself.                                 *)
TokenFailed(c) ==
  /\ calls[c].pc = "exchange"
  /\ \/ UNCHANGED redeemed
     \/ Redeemable(calls[c]) /\ redeemed' = redeemed \cup {calls[c].callback.code}
  /\ \E result \in {OAuthError("token exchange", "invalid_grant"), ErrAuthentication} :
       calls' = [calls EXCEPT ![c].pc = "returned", ![c].result = result]
  /\ UNCHANGED <<sent, stored, callbacks, session>>

(* The answers to the redemption of code r: an id_token exactly when       *)
(* openid was asked for, which may fail to verify or be that of another    *)
(* sign-in (another nonce).                                                *)
Token(r, idToken, nonce, verified) ==
  [code |-> r, idToken |-> idToken, nonce |-> nonce, verified |-> verified]

TokensFor(r) ==
  IF "openid" \in sent[r].scopes
  THEN {Token(r, "unverifiable", Empty, NoClaims)} \cup
       {Token(r, "verified", nonce, verified) :
          nonce \in Requests \cup {Empty}, verified \in IdTokenClaims}
  ELSE {Token(r, "none", Empty, NoClaims)}

TokenAnswered(c) ==
  /\ calls[c].pc = "exchange"
  /\ Redeemable(calls[c])
  /\ redeemed' = redeemed \cup {calls[c].callback.code}
  /\ \E token \in TokensFor(calls[c].callback.code) :
       LET refused == RefusedToken(token, calls[c].stored.nonce) IN
       calls' = [calls EXCEPT
                   ![c].pc     = IF refused = None THEN "userinfo" ELSE "returned",
                   ![c].token  = token,
                   ![c].result = refused]
  /\ UNCHANGED <<sent, stored, callbacks, session>>

(* UserInfo answers with a profile, or fails: then there is none.          *)
UserInfoReturned(c) ==
  /\ calls[c].pc = "userinfo"
  /\ \E profile \in ProfileClaims \cup {NoClaims} :
       calls' = [calls EXCEPT
                   ![c].pc      = "returned",
                   ![c].profile = profile,
                   ![c].result  = UserOrRefusal(calls[c].token, profile, calls[c].stored)]
  /\ UNCHANGED <<sent, stored, callbacks, redeemed, session>>

(* External: the application takes the result, a user as the session of    *)
(* the browser; any error leaves the browser as it was.                    *)
AppResumes(c) ==
  /\ calls[c].pc = "returned"
  /\ session' = IF calls[c].result.err = "nil"
                THEN [session EXCEPT ![calls[c].browser] = calls[c].result.user]
                ELSE session
  /\ calls' = [calls EXCEPT ![c] = Idle]
  /\ UNCHANGED <<sent, stored, callbacks, redeemed>>

Next ==
  \/ \E b \in Browsers, r \in Requests : StartSignIn(b, r) \/ StartSwitch(b, r)
  \/ \E r \in Requests : Authorize(r)
  \/ \E c \in Calls, b \in Browsers, callback \in callbacks : Authenticate(c, b, callback)
  \/ \E c \in Calls : \/ TokenFailed(c)
                      \/ TokenAnswered(c)
                      \/ UserInfoReturned(c)
                      \/ AppResumes(c)

Spec == Init /\ [][Next]_vars

-----------------------------------------------------------------------------
(* Types.                                                                  *)

Scopes == {"openid", "profile", "email", "offline_access"}

ASSUME ScopesAssumption == ScopeChoices \subseteq SUBSET Scopes

SentRequest == [browser      : Browsers,
                scopes       : SUBSET Scopes,
                organization : Organizations \cup {Empty}]

Stored == [state        : Requests \cup {Empty},
           codeVerifier : Requests \cup {Empty},
           nonce        : Requests \cup {Empty},
           organization : Organizations \cup {Empty}]

Callback == [code  : Requests \cup {Empty},
             state : Requests \cup {Empty},
             error : {"access_denied", Empty}]

IssuedToken == [code     : Requests,
                idToken  : {"none", "unverifiable", "verified"},
                nonce    : Requests \cup {Empty},
                verified : Claims]

User == [token          : IssuedToken,
         id             : Strings,
         organizationID : Strings \cup {Empty},
         sessionID      : Strings \cup {Empty},
         claims         : Claims]

Result == [err  : {"nil", "ErrInvalidState", "ErrAuthentication", "OAuthError"},
           op   : {"none", "authorization", "token exchange"},
           code : {"none", "access_denied", "invalid_grant"},
           user : User \cup {None}]

Call == [pc       : {"idle", "exchange", "userinfo", "returned"},
         browser  : Browsers \cup {None},
         callback : Callback,
         stored   : Stored,
         token    : IssuedToken \cup {None},
         profile  : Claims,
         result   : Result \cup {None}]

(* None is none of the values it stands for the lack of.                   *)
ASSUME NoneAssumption ==
  /\ None \notin SentRequest \cup IssuedToken \cup User \cup Result
  /\ None \notin [browser : Browsers, organization : Organizations \cup {Empty}]

TypeOK ==
  /\ sent \in [Requests -> SentRequest \cup {None}]
  /\ stored \in [Browsers -> Stored]
  /\ callbacks \subseteq Callback
  /\ redeemed \subseteq Requests
  /\ calls \in [Calls -> Call]
  /\ session \in [Browsers -> User \cup {None}]

-----------------------------------------------------------------------------
(* Properties.                                                             *)

Returned(c) == calls[c].pc = "returned"
HasUser(c)  == Returned(c) /\ calls[c].result.err = "nil"
UserOf(c)   == calls[c].result.user

(* auth.go 262-265, 278: whatever requests and callbacks are outstanding,  *)
(* in whatever browsers, the token endpoint is only ever asked about a     *)
(* code together with the verifier of the request it was issued for, for   *)
(* the browser that request was sent from.                                 *)
CodeAndVerifierPaired ==
  \A c \in Calls : calls[c].pc = "exchange" =>
    /\ calls[c].callback.code = calls[c].stored.codeVerifier
    /\ sent[calls[c].callback.code].browser = calls[c].browser

(* auth.go 262-271: an authorization error is believed only when it answers *)
(* the request this browser made.  An application that stays in its        *)
(* organization on access_denied is never told so by a callback of another *)
(* browser's sign-in, or of one this browser has abandoned since.          *)
DenialIsOfTheStoredRequest ==
  \A c \in Calls : Returned(c) /\ calls[c].result.op = "authorization" =>
    LET r == calls[c].stored.state IN
    /\ [code |-> Empty, state |-> r, error |-> calls[c].result.code] \in callbacks
    /\ sent[r].browser = calls[c].browser

(* auth.go 278-283, 339: the code, the nonce of the signed id_token and    *)
(* the browser of a session all belong to one request.                     *)
SessionOfOneRequest ==
  \A b \in Browsers : session[b] # None =>
    LET token == session[b].token IN
    /\ sent[token.code].browser = b
    /\ token.idToken = "verified" => token.nonce = token.code

(* auth.go 87-94, 288-295: a browser whose session came of a request bound *)
(* to an organization is signed in to that organization, whatever the      *)
(* instance put in its tokens and profiles, and although the browser may   *)
(* have started other requests meanwhile.                                  *)
SessionInRequestedOrganization ==
  \A b \in Browsers : session[b] # None =>
    LET asked == sent[session[b].token.code].organization IN
    asked # Empty => session[b].organizationID = asked

(* auth.go 361-371, 387: what the id_token signed stands in the user, no   *)
(* claim of the profile replaces it, and the session id is never that of   *)
(* the profile.                                                            *)
SignedClaimsStand ==
  \A c \in Calls : HasUser(c) =>
    LET user == UserOf(c)
        signed == user.token.verified
    IN  /\ \A k \in ClaimNames : signed[k] # Absent => user.claims[k] = signed[k]
        /\ signed["sub"] # Absent => user.id = signed["sub"]
        /\ signed["org"] \in Strings => user.organizationID = signed["org"]
        /\ user.sessionID # Empty => user.sessionID = signed["sid"]

(* auth.go 351-359: where id_tokens and profiles each name the one person  *)
(* they describe (here: email is a claim that identifies the person), no   *)
(* user mixes the claims of two.                                           *)
EachNamesItsPerson ==
  /\ "email" \in ClaimNames
  /\ \A signed \in IdTokenClaims :
       signed["email"] \in Strings => signed["sub"] \in {signed["email"], Empty, NonString}
  /\ \A profile \in ProfileClaims :
       profile["email"] \in Strings => profile["sub"] = profile["email"]

ClaimsDescribeOnePerson ==
  EachNamesItsPerson =>
    \A c \in Calls : HasUser(c) /\ UserOf(c).claims["email"] \in Strings =>
      UserOf(c).claims["email"] = UserOf(c).id

(* auth.go 97-98, 255-257, a claim of the documentation: Authenticate      *)
(* verifies the id_token, so behind every user it returns there is one.    *)
VerifiedIdTokenBehindEveryUser ==
  \A c \in Calls : HasUser(c) => UserOf(c).token.idToken = "verified"

(* auth.go 351-352, a comment: the UserInfo sub must match the id_token's, *)
(* and when it does not the response must not be used; so a claim the      *)
(* id_token lacks is only ever taken from a profile with the same sub.     *)
UserInfoUsedOnlyWhenSubMatches ==
  \A c \in Calls : HasUser(c) =>
    \/ UserOf(c).token.idToken # "verified"
    \/ UserOf(c).claims = UserOf(c).token.verified
    \/ calls[c].profile["sub"] = UserOf(c).token.verified["sub"]

ReasonToRefuse(call) ==
  \/ call.callback.state # call.stored.state
  \/ call.callback.code = Empty
  \/ call.token = None
  \/ call.token.idToken = "unverifiable"
  \/ call.token.idToken = "verified" /\ call.token.nonce # call.stored.nonce
  \/ call.profile["sub"] # call.token.verified["sub"] /\ call.profile["sub"] # Absent
  \/ call.token.verified["sub"] \notin Strings /\ call.profile["sub"] \notin Strings
  \/ /\ call.stored.organization # Empty
     /\ call.stored.organization # call.token.verified["org"]
     /\ \/ call.token.verified["org"] # Absent
        \/ call.stored.organization # call.profile["org"]

(* auth.go 255-260, 345-349: a sign-in is refused for the reasons the      *)
(* documentation gives and for no other; in particular the failure of      *)
(* UserInfo, or a claim it alone holds, never refuses a sign-in whose      *)
(* id_token names a subject and the organization asked for.                *)
RefusedOnlyForAReason ==
  \A c \in Calls : Returned(c) /\ calls[c].result.err # "nil" => ReasonToRefuse(calls[c])

-----------------------------------------------------------------------------
(* The inductive invariant: why the properties hold.                       *)

(* kept is what the application stored of a request browser b sent.        *)
Kept(b, kept) ==
  /\ kept.state # Empty
  /\ sent[kept.state] # None
  /\ sent[kept.state].browser = b
  /\ kept.codeVerifier = kept.state
  /\ kept.nonce = kept.state
  /\ kept.organization = sent[kept.state].organization

StoredIsSent == \A b \in Browsers : stored[b].state = Empty \/ Kept(b, stored[b])

CallbacksAnswerRequests ==
  \A callback \in callbacks :
    /\ callback.code \in {Empty, callback.state}
    /\ callback.error # Empty => callback.code = Empty
    /\ callback.state # Empty => sent[callback.state] # None

(* The call goes on, or went on to the end.                                *)
Succeeds(call) ==
  \/ call.pc \in {"exchange", "userinfo"}
  \/ call.pc = "returned" /\ call.result.err = "nil"

CallOK(call) ==
  /\ call.pc # "idle" => call.browser \in Browsers
  /\ call.pc = "returned" => call.result # None
  /\ Succeeds(call) =>
       Kept(call.browser, call.stored) /\ call.callback.code = call.stored.state
  /\ Succeeds(call) /\ call.pc # "exchange" =>
       /\ call.token # None
       /\ call.token.code = call.callback.code
       /\ call.token.idToken = "verified" => call.token.nonce = call.token.code
       /\ call.token.code \in redeemed
  /\ Succeeds(call) /\ call.pc = "returned" =>
       /\ call.result.user # None
       /\ call.result.user.token = call.token
       /\ ~ WrongOrganization(call.result.user, call.stored)
  /\ call.pc = "returned" /\ call.result.op = "authorization" =>
       /\ Kept(call.browser, call.stored)
       /\ [code |-> Empty, state |-> call.stored.state, error |-> call.result.code] \in callbacks

HoldsToken(c) ==
  \/ calls[c].pc = "userinfo"
  \/ HasUser(c)

(* A code turns into at most one token, in one call.                       *)
OneCallPerCode ==
  \A c, d \in Calls :
    HoldsToken(c) /\ HoldsToken(d) /\ calls[c].token.code = calls[d].token.code => c = d

SessionsAreSent == \A b \in Browsers : session[b] # None => sent[session[b].token.code] # None

Inv ==
  /\ TypeOK
  /\ StoredIsSent
  /\ CallbacksAnswerRequests
  /\ \A c \in Calls : CallOK(calls[c])
  /\ OneCallPerCode
  /\ SessionsAreSent
  /\ SessionOfOneRequest
  /\ SessionInRequestedOrganization

-----------------------------------------------------------------------------
(* What Authenticate promises (SignInContract).  A request whose code was  *)
(* redeemed is settled as soon as no call can turn it into a user.         *)

InFlight == {calls[c].token.code : c \in {d \in Calls : HoldsToken(d)}}

AskedOf(request) ==
  IF request = None
  THEN None
  ELSE [browser |-> request.browser, organization |-> request.organization]

SessionOf(user) ==
  IF user = None
  THEN None
  ELSE [request |-> user.token.code, organization |-> user.organizationID]

Contract == INSTANCE SignInContract WITH
  asked   <- [r \in Requests |-> AskedOf(sent[r])],
  settled <- redeemed \ InFlight,
  session <- [b \in Browsers |-> SessionOf(session[b])]

(* auth.go 255-260: signing in over two HTTP calls, with concurrent calls, *)
(* replayed and misplaced callbacks and lost answers, implements the       *)
(* contract: a request signs in the browser that made it, once, to the     *)
(* organization it asked for, or has no effect at all.                     *)
ImplementsContract == Contract!Spec
=============================================================================
