---------------------------- MODULE SignInProofs ----------------------------
(***************************************************************************)
(* Theorems about SignIn for every set of browsers, requests, calls,       *)
(* organizations and claims.                                               *)
(***************************************************************************)
EXTENDS SignIn, TLAPS

(***************************************************************************)
(* The values a request returns are those its URL was built from, by       *)
(* whichever entry point (auth.go 176-182, 206-207).                       *)
(***************************************************************************)
Echoes(request, scopes, organization, r) ==
  /\ request.url.scopes = IF scopes = {} THEN DefaultScopes ELSE scopes
  /\ request.url.organization = organization
  /\ request.state = r
  /\ request.codeVerifier = r
  /\ request.nonce = r
  /\ request.organization = organization

LEMMA CreateEchoes ==
  ASSUME NEW uri, NEW scopes, NEW organization, NEW r,
         CreateAuthorizationRequest(uri, Params(scopes, organization), r).err = "nil"
  PROVE  Echoes(CreateAuthorizationRequest(uri, Params(scopes, organization), r),
                scopes, organization, r)
  BY DEF CreateAuthorizationRequest, ErrConfiguration, Params, Echoes

LEMMA SwitchEchoes ==
  ASSUME NEW uri, NEW scopes, NEW organization, NEW r,
         SwitchOrganization(uri, organization, Params(scopes, Empty), r).err = "nil"
  PROVE  Echoes(SwitchOrganization(uri, organization, Params(scopes, Empty), r),
                scopes, organization, r)
<1> DEFINE params == [Params(scopes, Empty) EXCEPT !.organization = organization]
<1>1. params = Params(scopes, organization)
  BY DEF Params
<1>2. SwitchOrganization(uri, organization, Params(scopes, Empty), r)
        = CreateAuthorizationRequest(uri, params, r)
  BY DEF SwitchOrganization, ErrConfiguration
<1> HIDE DEF params
<1> QED
  BY <1>1, <1>2, CreateEchoes

(***************************************************************************)
(* Both entry points as one step: the request kept is the request sent.    *)
(***************************************************************************)
Start(b, r, scopes, organization) ==
  /\ sent[r] = None
  /\ sent' = [sent EXCEPT ![r] = [browser      |-> b,
                                  scopes       |-> scopes,
                                  organization |-> organization]]
  /\ stored' = [stored EXCEPT ![b] = [state        |-> r,
                                      codeVerifier |-> r,
                                      nonce        |-> r,
                                      organization |-> organization]]
  /\ UNCHANGED <<callbacks, redeemed, calls, session>>

LEMMA StartLemma ==
  ASSUME NEW b \in Browsers, NEW r \in Requests,
         StartSignIn(b, r) \/ StartSwitch(b, r)
  PROVE  \E scopes \in SUBSET Scopes, organization \in Organizations \cup {Empty} :
           Start(b, r, scopes, organization)
<1>0. DefaultScopes \in SUBSET Scopes
  BY DEF DefaultScopes, Scopes
<1>1. CASE StartSignIn(b, r)
  <2>1. PICK scopes \in ScopeChoices, organization \in Organizations \cup {Empty} :
          Redirect(b, r, CreateAuthorizationRequest(RedirectURI, Params(scopes, organization), r))
    BY <1>1 DEF StartSignIn
  <2> DEFINE request == CreateAuthorizationRequest(RedirectURI, Params(scopes, organization), r)
  <2>2. Echoes(request, scopes, organization, r)
    BY <2>1, CreateEchoes DEF Redirect
  <2>3. request.url.scopes \in SUBSET Scopes
    BY <1>0, <2>2, ScopesAssumption DEF Echoes
  <2>4. Start(b, r, request.url.scopes, organization)
    BY <2>1, <2>2 DEF Redirect, Echoes, Start
  <2> HIDE DEF request
  <2> QED
    BY <2>3, <2>4
<1>2. CASE StartSwitch(b, r)
  <2>1. PICK scopes \in ScopeChoices, organization \in Organizations :
          Redirect(b, r, SwitchOrganization(RedirectURI, organization, Params(scopes, Empty), r))
    BY <1>2 DEF StartSwitch
  <2> DEFINE request == SwitchOrganization(RedirectURI, organization, Params(scopes, Empty), r)
  <2>2. Echoes(request, scopes, organization, r)
    BY <2>1, SwitchEchoes DEF Redirect
  <2>3. request.url.scopes \in SUBSET Scopes
    BY <1>0, <2>2, ScopesAssumption DEF Echoes
  <2>4. Start(b, r, request.url.scopes, organization)
    BY <2>1, <2>2 DEF Redirect, Echoes, Start
  <2> HIDE DEF request
  <2> QED
    BY <2>3, <2>4
<1> QED
  BY <1>1, <1>2

-----------------------------------------------------------------------------
(***************************************************************************)
(* Types of what the steps build.                                          *)
(***************************************************************************)
LEMMA NoClaimsType == NoClaims \in Claims
  BY DEF NoClaims, Claims

LEMMA IdleType == Idle \in Call
<1>1. BareCallback \in Callback
  BY DEF BareCallback, Callback
<1>2. NothingStored \in Stored
  BY DEF NothingStored, Stored
<1> QED
  BY <1>1, <1>2, NoClaimsType DEF Idle, Call

LEMMA MergeType ==
  ASSUME NEW profile \in Claims, NEW verified \in Claims
  PROVE  merge(profile, verified) \in Claims
  BY DEF merge, Claims

LEMMA StringClaimType ==
  ASSUME NEW claims, NEW key
  PROVE  stringClaim(claims, key) \in Strings \cup {Empty}
  BY DEF stringClaim

LEMMA UserType ==
  ASSUME NEW token \in IssuedToken, NEW profile \in Claims,
         CboxUser(token, profile).id # Empty
  PROVE  CboxUser(token, profile) \in User
<1>1. token.verified \in Claims
  BY DEF IssuedToken
<1>2. merge(profile, token.verified) \in Claims
  BY <1>1, MergeType
<1> QED
  BY <1>2, StringClaimType DEF CboxUser, User

(***************************************************************************)
(* UserInfo's step returns a user for the bound organization, or a typed   *)
(* error (auth.go 288-297, 345-376).                                       *)
(***************************************************************************)
LEMMA UserOrRefusalLemma ==
  ASSUME NEW token \in IssuedToken, NEW profile \in Claims, NEW kept \in Stored
  PROVE  LET result == UserOrRefusal(token, profile, kept) IN
         /\ result \in Result
         /\ result.op = "none"
         /\ result.err = "nil" =>
              /\ result.user \in User
              /\ result.user.token = token
              /\ ~ WrongOrganization(result.user, kept)
<1> DEFINE user == CboxUser(token, profile)
<1> DEFINE result == UserOrRefusal(token, profile, kept)
<1>1. user.token = token
  BY DEF CboxUser
<1>2. CASE SubjectsDiffer(profile, token.verified) \/ user.id = Empty \/ WrongOrganization(user, kept)
  <2>1. result = ErrAuthentication
    BY <1>2 DEF UserOrRefusal, Enriched, ErrAuthentication, Failed, Succeeded
  <2> QED
    BY <2>1 DEF ErrAuthentication, Failed, Result
<1>3. CASE ~ (SubjectsDiffer(profile, token.verified) \/ user.id = Empty \/ WrongOrganization(user, kept))
  <2>1. result = Succeeded(user)
    BY <1>3 DEF UserOrRefusal, Enriched, Succeeded
  <2>2. user \in User
    BY <1>3, UserType
  <2> HIDE DEF user
  <2> QED
    BY <1>1, <1>3, <2>1, <2>2 DEF Succeeded, Result
<1> QED
  BY <1>2, <1>3

-----------------------------------------------------------------------------
LEMMA InitInv == Init => Inv
<1> SUFFICES ASSUME Init PROVE Inv
  OBVIOUS
<1>1. TypeOK
  <2>1. BareCallback \in Callback
    BY DEF BareCallback, Callback
  <2>2. NothingStored \in Stored
    BY DEF NothingStored, Stored
  <2> QED
    BY <2>1, <2>2, IdleType DEF Init, TypeOK
<1>2. StoredIsSent
  BY DEF Init, StoredIsSent, NothingStored
<1>3. CallbacksAnswerRequests
  BY DEF Init, CallbacksAnswerRequests, BareCallback
<1>4. \A c \in Calls : CallOK(calls[c])
  BY DEF Init, Idle, CallOK, Succeeds
<1>5. OneCallPerCode
  BY DEF Init, Idle, OneCallPerCode, HoldsToken, HasUser, Returned
<1>6. SessionsAreSent /\ SessionOfOneRequest /\ SessionInRequestedOrganization
  BY DEF Init, SessionsAreSent, SessionOfOneRequest, SessionInRequestedOrganization
<1> QED
  BY <1>1, <1>2, <1>3, <1>4, <1>5, <1>6 DEF Inv

(***************************************************************************)
(* A step of one call: it leaves everything but that call and the redeemed *)
(* codes alone, and preserves Inv when the call it leaves behind is good   *)
(* and takes no token another call holds.                                  *)
(***************************************************************************)
LEMMA FailedType ==
  ASSUME NEW err \in {"ErrInvalidState", "ErrAuthentication", "OAuthError"},
         NEW op \in {"none", "authorization", "token exchange"},
         NEW code \in {"none", "access_denied", "invalid_grant"}
  PROVE  Failed(err, op, code) \in Result /\ Failed(err, op, code) # None
<1>1. Failed(err, op, code) \in Result
  BY DEF Failed, Result
<1> QED
  BY <1>1, NoneAssumption

(***************************************************************************)
(* The early returns of Authenticate (auth.go 262-274).                    *)
(***************************************************************************)
LEMMA RefusedCallbackLemma ==
  ASSUME NEW callback \in Callback, NEW kept
  PROVE  LET refused == RefusedCallback(callback, kept) IN
         /\ refused \in Result \cup {None}
         /\ refused = None => StateMatches(callback, kept) /\ callback.code # Empty
         /\ refused # None => refused.err # "nil"
         /\ refused # None /\ refused.op = "authorization" =>
              /\ StateMatches(callback, kept)
              /\ callback.error # Empty
              /\ refused.code = callback.error
<1> DEFINE refused == RefusedCallback(callback, kept)
<1>0. SUFFICES /\ refused \in Result \cup {None}
               /\ refused = None => StateMatches(callback, kept) /\ callback.code # Empty
               /\ refused # None => refused.err # "nil"
               /\ refused # None /\ refused.op = "authorization" =>
                    /\ StateMatches(callback, kept)
                    /\ callback.error # Empty
                    /\ refused.code = callback.error
  OBVIOUS
<1>1. CASE ~ StateMatches(callback, kept)
  <2>1. refused = Failed("ErrInvalidState", "none", "none")
    BY <1>1 DEF RefusedCallback, ErrInvalidState
  <2>2. refused \in Result /\ refused # None
    BY <2>1, FailedType
  <2>3. refused.err = "ErrInvalidState" /\ refused.op = "none"
    BY <2>1 DEF Failed
  <2> QED
    BY <2>2, <2>3
<1>2. CASE StateMatches(callback, kept) /\ callback.error # Empty
  <2>1. refused = Failed("OAuthError", "authorization", callback.error)
    BY <1>2 DEF RefusedCallback, OAuthError
  <2>2. callback.error = "access_denied"
    BY <1>2 DEF Callback
  <2>3. refused \in Result /\ refused # None
    BY <2>1, <2>2, FailedType
  <2>4. refused.err = "OAuthError" /\ refused.code = callback.error
    BY <2>1 DEF Failed
  <2> QED
    BY <1>2, <2>3, <2>4
<1>3. CASE StateMatches(callback, kept) /\ callback.error = Empty /\ callback.code = Empty
  <2>1. refused = Failed("ErrAuthentication", "none", "none")
    BY <1>3 DEF RefusedCallback, ErrAuthentication
  <2>2. refused \in Result /\ refused # None
    BY <2>1, FailedType
  <2>3. refused.err = "ErrAuthentication" /\ refused.op = "none"
    BY <2>1 DEF Failed
  <2> QED
    BY <2>2, <2>3
<1>4. CASE StateMatches(callback, kept) /\ callback.error = Empty /\ callback.code # Empty
  <2>1. refused = None
    BY <1>4 DEF RefusedCallback
  <2> QED
    BY <1>4, <2>1
<1> QED
  BY <1>1, <1>2, <1>3, <1>4

LEMMA CallStep ==
  ASSUME Inv, NEW c \in Calls, NEW new \in Call,
         UNCHANGED <<sent, stored, callbacks, session>>,
         calls' = [calls EXCEPT ![c] = new],
         redeemed' \in SUBSET Requests, redeemed \subseteq redeemed',
         CallOK(new)',
         \A d \in Calls \ {c} :
           ~ (/\ Succeeds(new) /\ new.pc # "exchange"
              /\ HoldsToken(d) /\ calls[d].token.code = new.token.code)
  PROVE  Inv'
<1>1. TypeOK'
  BY DEF Inv, TypeOK
<1>2. StoredIsSent' /\ CallbacksAnswerRequests'
  BY DEF Inv, StoredIsSent, Kept, CallbacksAnswerRequests
<1>3. ASSUME NEW d \in Calls PROVE CallOK(calls[d])'
  <2>1. CASE d = c
    BY <2>1 DEF Inv, TypeOK
  <2>2. CASE d # c
    <3>1. calls'[d] = calls[d]
      BY <2>2 DEF Inv, TypeOK
    <3> QED
      BY <3>1 DEF Inv, CallOK, Succeeds, Kept
  <2> QED
    BY <2>1, <2>2
<1>4. OneCallPerCode'
  <2>1. \A d \in Calls : calls'[d] = IF d = c THEN new ELSE calls[d]
    BY DEF Inv, TypeOK
  <2> QED
    BY <2>1 DEF Inv, OneCallPerCode, HoldsToken, HasUser, Returned, Succeeds
<1>5. (SessionsAreSent /\ SessionOfOneRequest /\ SessionInRequestedOrganization)'
  BY DEF Inv, SessionsAreSent, SessionOfOneRequest, SessionInRequestedOrganization
<1> QED
  BY <1>1, <1>2, <1>3, <1>4, <1>5 DEF Inv

LEMMA AuthenticateInv ==
  ASSUME Inv, NEW c \in Calls, NEW b \in Browsers, NEW callback \in callbacks,
         Authenticate(c, b, callback)
  PROVE  Inv'
<1> PICK refused : refused = RefusedCallback(callback, stored[b])
  OBVIOUS
<1> PICK new : new = [Idle EXCEPT !.pc       = IF refused = None THEN "exchange" ELSE "returned",
                                  !.browser  = b,
                                  !.callback = callback,
                                  !.stored   = stored[b],
                                  !.result   = refused]
  OBVIOUS
<1>1. callback \in Callback /\ stored[b] \in Stored
  BY DEF Inv, TypeOK
<1>2. /\ refused \in Result \cup {None}
      /\ refused = None => StateMatches(callback, stored[b]) /\ callback.code # Empty
      /\ refused # None => refused.err # "nil"
      /\ refused # None /\ refused.op = "authorization" =>
           /\ StateMatches(callback, stored[b])
           /\ callback.error # Empty
           /\ refused.code = callback.error
  BY <1>1, RefusedCallbackLemma
<1>3. new \in Call
  BY <1>1, <1>2, IdleType DEF Call
<1>4. new.pc \in {"exchange", "returned"} /\ new.browser = b /\ new.callback = callback
      /\ new.stored = stored[b] /\ new.result = refused
      /\ (new.pc = "exchange" <=> refused = None)
  BY DEF Idle
<1>5. calls' = [calls EXCEPT ![c] = new]
      /\ UNCHANGED <<sent, stored, callbacks, redeemed, session>>
  BY DEF Authenticate
<1>6. redeemed' \in SUBSET Requests /\ redeemed \subseteq redeemed'
  BY <1>5 DEF Inv, TypeOK
<1>7. CASE refused = None
  <2>1. Kept(b, stored[b]) /\ callback.code = stored[b].state
    BY <1>2, <1>7 DEF Inv, StoredIsSent, CallbacksAnswerRequests, StateMatches
  <2>2. CallOK(new)'
    BY <1>4, <1>5, <1>7, <2>1 DEF CallOK, Succeeds, Kept
  <2> QED
    BY <1>3, <1>4, <1>5, <1>6, <1>7, <2>2, CallStep
<1>8. CASE refused # None
  <2>1. refused.op = "authorization" =>
          /\ Kept(b, stored[b])
          /\ [code |-> Empty, state |-> stored[b].state, error |-> refused.code] \in callbacks
    <3> SUFFICES ASSUME refused.op = "authorization"
                 PROVE  /\ Kept(b, stored[b])
                        /\ [code |-> Empty, state |-> stored[b].state,
                             error |-> refused.code] \in callbacks
      OBVIOUS
    <3>1. callback.code = Empty
      BY <1>2, <1>8 DEF Inv, CallbacksAnswerRequests
    <3>2. callback = [code |-> Empty, state |-> stored[b].state, error |-> refused.code]
      BY <1>1, <1>2, <1>8, <3>1 DEF StateMatches, Callback
    <3> QED
      BY <1>2, <1>8, <3>2 DEF Inv, StoredIsSent, StateMatches
  <2>2. CallOK(new)'
    BY <1>2, <1>4, <1>5, <1>8, <2>1 DEF CallOK, Succeeds, Kept
  <2> QED
    BY <1>2, <1>3, <1>4, <1>5, <1>6, <1>8, <2>2, CallStep DEF Succeeds
<1> QED
  BY <1>7, <1>8

(***************************************************************************)
(* A call that ends in an error of the token endpoint or of verification.  *)
(***************************************************************************)
LEMMA FailedCallOK ==
  ASSUME NEW call \in Call, call.browser \in Browsers, call.pc = "returned",
         call.result \in Result, call.result.err # "nil",
         call.result.op # "authorization"
  PROVE  CallOK(call)'
  BY NoneAssumption DEF CallOK, Succeeds

LEMMA TokenFailedInv ==
  ASSUME Inv, NEW c \in Calls, TokenFailed(c)
  PROVE  Inv'
<1>0. PICK result \in {OAuthError("token exchange", "invalid_grant"), ErrAuthentication} :
        calls' = [calls EXCEPT ![c].pc = "returned", ![c].result = result]
  BY DEF TokenFailed
<1> PICK new : new = [calls[c] EXCEPT !.pc = "returned", !.result = result]
  OBVIOUS
<1>1. result \in Result /\ result.err # "nil" /\ result.op # "authorization"
  <2>1. CASE result = OAuthError("token exchange", "invalid_grant")
    BY <2>1, FailedType DEF OAuthError, Failed
  <2>2. CASE result = ErrAuthentication
    BY <2>2, FailedType DEF ErrAuthentication, Failed
  <2> QED
    BY <2>1, <2>2
<1>2. calls[c] \in Call /\ calls[c].pc = "exchange" /\ calls[c].browser \in Browsers
  BY DEF Inv, TypeOK, CallOK, TokenFailed
<1>3. new \in Call /\ new.pc = "returned" /\ new.result = result /\ new.browser \in Browsers
  BY <1>1, <1>2 DEF Call
<1>4. calls' = [calls EXCEPT ![c] = new]
      /\ UNCHANGED <<sent, stored, callbacks, session>>
  BY <1>0 DEF TokenFailed, Inv, TypeOK
<1>5. CallOK(new)'
  BY <1>1, <1>3, FailedCallOK
<1>6. ~ Succeeds(new)
  BY <1>1, <1>3 DEF Succeeds
<1>7. calls[c].callback.code \in Requests
  <2>1. calls[c].callback.code = calls[c].stored.state /\ calls[c].stored.state # Empty
    BY <1>2 DEF Inv, CallOK, Succeeds, Kept
  <2> QED
    BY <1>2, <2>1 DEF Call, Stored
<1>8. redeemed' \in SUBSET Requests /\ redeemed \subseteq redeemed'
  BY <1>7 DEF TokenFailed, Inv, TypeOK
<1> QED
  BY <1>3, <1>4, <1>5, <1>6, <1>8, CallStep

LEMMA TokenAnsweredInv ==
  ASSUME Inv, NEW c \in Calls, TokenAnswered(c)
  PROVE  Inv'
<1> PICK r : r = calls[c].callback.code
  OBVIOUS
<1>1. calls[c] \in Call /\ calls[c].pc = "exchange" /\ calls[c].browser \in Browsers
  BY DEF Inv, TypeOK, CallOK, TokenAnswered
<1>2. Kept(calls[c].browser, calls[c].stored) /\ r = calls[c].stored.state
  BY <1>1 DEF Inv, CallOK, Succeeds
<1>3. r \in Requests /\ r \notin redeemed /\ calls[c].stored.nonce = r
  BY <1>1, <1>2 DEF TokenAnswered, Redeemable, Kept, Call, Stored
<1>4. PICK token \in TokensFor(r) :
        calls' = [calls EXCEPT
                    ![c].pc     = IF RefusedToken(token, calls[c].stored.nonce) = None
                                  THEN "userinfo" ELSE "returned",
                    ![c].token  = token,
                    ![c].result = RefusedToken(token, calls[c].stored.nonce)]
  BY DEF TokenAnswered
<1>5. token \in IssuedToken /\ token.code = r
  BY <1>3, <1>4, NoClaimsType, ClaimsAssumption, AnswersAssumption DEF TokensFor, Token, IssuedToken
<1> PICK refused : refused = RefusedToken(token, calls[c].stored.nonce)
  OBVIOUS
<1> PICK new : new = [calls[c] EXCEPT !.pc     = IF refused = None THEN "userinfo" ELSE "returned",
                                      !.token  = token,
                                      !.result = refused]
  OBVIOUS
<1>6. \/ refused = None /\ (token.idToken = "verified" => token.nonce = r)
      \/ refused = Failed("ErrAuthentication", "none", "none")
  BY <1>3, RequestsAssumption DEF RefusedToken, NonceDiffers, ErrAuthentication
<1>7. refused \in Result \cup {None}
  BY <1>6, FailedType
<1>8. new \in Call
  BY <1>1, <1>5, <1>7 DEF Call
<1>9. /\ new.browser = calls[c].browser /\ new.stored = calls[c].stored
      /\ new.callback = calls[c].callback
      /\ new.token = token /\ new.result = refused
      /\ new.pc = IF refused = None THEN "userinfo" ELSE "returned"
  BY <1>1 DEF Call
<1>10. /\ calls' = [calls EXCEPT ![c] = new]
       /\ UNCHANGED <<sent, stored, callbacks, session>>
  BY <1>4 DEF TokenAnswered, Inv, TypeOK
<1>11. redeemed' = redeemed \cup {r}
  BY DEF TokenAnswered
<1>12. redeemed' \in SUBSET Requests /\ redeemed \subseteq redeemed'
  BY <1>3, <1>11 DEF Inv, TypeOK
<1>13. ASSUME NEW d \in Calls, HoldsToken(d) PROVE calls[d].token.code \in redeemed
  BY <1>13 DEF Inv, CallOK, HoldsToken, HasUser, Returned, Succeeds
<1>14. CASE refused = None
  <2>1. new.pc = "userinfo"
    BY <1>9, <1>14
  <2>2. token # None
    BY <1>5, NoneAssumption
  <2>3. Kept(new.browser, new.stored)' /\ new.callback.code = new.stored.state
    BY <1>2, <1>9, <1>10 DEF Kept
  <2>4. token.idToken = "verified" => token.nonce = r
    BY <1>6, <1>7, <1>14, FailedType
  <2>5. CallOK(new)'
    BY <1>1, <1>5, <1>9, <1>10, <1>11, <2>1, <2>2, <2>3, <2>4 DEF CallOK, Succeeds
  <2>6. \A d \in Calls \ {c} :
          ~ (/\ Succeeds(new) /\ new.pc # "exchange"
             /\ HoldsToken(d) /\ calls[d].token.code = new.token.code)
    BY <1>3, <1>5, <1>9, <1>13
  <2> QED
    BY <1>8, <1>10, <1>12, <2>5, <2>6, CallStep
<1>15. CASE refused # None
  <2>1. refused \in Result /\ refused.err = "ErrAuthentication" /\ refused.op = "none"
    BY <1>6, <1>7, <1>15 DEF Failed
  <2>2. CallOK(new)'
    BY <1>1, <1>8, <1>9, <1>15, <2>1, FailedCallOK
  <2>3. ~ Succeeds(new)
    BY <1>9, <1>15, <2>1 DEF Succeeds
  <2> QED
    BY <1>8, <1>10, <1>12, <2>2, <2>3, CallStep
<1> QED
  BY <1>14, <1>15

LEMMA UserInfoReturnedInv ==
  ASSUME Inv, NEW c \in Calls, UserInfoReturned(c)
  PROVE  Inv'
<1>1. PICK profile \in ProfileClaims \cup {NoClaims} :
        calls' = [calls EXCEPT
                    ![c].pc      = "returned",
                    ![c].profile = profile,
                    ![c].result  = UserOrRefusal(calls[c].token, profile, calls[c].stored)]
  BY DEF UserInfoReturned
<1> PICK result : result = UserOrRefusal(calls[c].token, profile, calls[c].stored)
  OBVIOUS
<1> PICK new : new = [calls[c] EXCEPT !.pc = "returned", !.profile = profile, !.result = result]
  OBVIOUS
<1>2. calls[c] \in Call /\ calls[c].pc = "userinfo"
  BY DEF Inv, TypeOK, UserInfoReturned
<1>3. profile \in Claims
  BY NoClaimsType, ClaimsAssumption, AnswersAssumption
<1>4. CallOK(calls[c]) /\ Succeeds(calls[c]) /\ calls[c].token \in IssuedToken
      /\ calls[c].stored \in Stored /\ calls[c].browser \in Browsers
  BY <1>2 DEF Inv, CallOK, Succeeds, Call
<1>5. /\ result \in Result
      /\ result.op = "none"
      /\ result.err = "nil" =>
           /\ result.user \in User
           /\ result.user.token = calls[c].token
           /\ ~ WrongOrganization(result.user, calls[c].stored)
  BY <1>3, <1>4, UserOrRefusalLemma
<1>6. new \in Call
  BY <1>2, <1>3, <1>5 DEF Call
<1>7. /\ new.browser = calls[c].browser /\ new.stored = calls[c].stored
      /\ new.callback = calls[c].callback /\ new.token = calls[c].token
      /\ new.result = result /\ new.pc = "returned"
  BY <1>2 DEF Call
<1>8. /\ calls' = [calls EXCEPT ![c] = new]
      /\ UNCHANGED <<sent, stored, callbacks, redeemed, session>>
  BY <1>1 DEF UserInfoReturned, Inv, TypeOK
<1>9. CallOK(new)'
  BY <1>2, <1>4, <1>5, <1>7, <1>8, NoneAssumption DEF CallOK, Succeeds, Kept
<1>10. \A d \in Calls \ {c} : ~ (HoldsToken(d) /\ calls[d].token.code = new.token.code)
  BY <1>2, <1>7 DEF Inv, OneCallPerCode, HoldsToken
<1> QED
  BY <1>6, <1>8, <1>9, <1>10, CallStep DEF Inv, TypeOK

(***************************************************************************)
(* A new request changes the values stored for its browser only, and takes *)
(* nothing from what was sent before.                                      *)
(***************************************************************************)
LEMMA StartInv ==
  ASSUME Inv, NEW b \in Browsers, NEW r \in Requests,
         NEW scopes \in SUBSET Scopes, NEW organization \in Organizations \cup {Empty},
         Start(b, r, scopes, organization)
  PROVE  Inv'
<1> PICK request : request = [browser |-> b, scopes |-> scopes, organization |-> organization]
  OBVIOUS
<1> PICK kept : kept = [state |-> r, codeVerifier |-> r, nonce |-> r,
                        organization |-> organization]
  OBVIOUS
<1>1. request \in SentRequest /\ request # None
  <2>1. request \in SentRequest
    BY DEF SentRequest
  <2> QED
    BY <2>1, NoneAssumption
<1>2. kept \in Stored
  BY DEF Stored
<1>3. /\ sent \in [Requests -> SentRequest \cup {None}] /\ sent[r] = None
      /\ sent' = [sent EXCEPT ![r] = request]
      /\ stored \in [Browsers -> Stored]
      /\ stored' = [stored EXCEPT ![b] = kept]
      /\ UNCHANGED <<callbacks, redeemed, calls, session>>
  BY DEF Start, Inv, TypeOK
<1>4. TypeOK'
  BY <1>1, <1>2, <1>3 DEF Inv, TypeOK
<1>5. ASSUME NEW q \in Requests, sent[q] # None PROVE sent'[q] = sent[q]
  BY <1>3, <1>5
<1>6. ASSUME NEW a, NEW k \in Stored, Kept(a, k) PROVE Kept(a, k)'
  <2>1. k.state \in Requests /\ sent[k.state] # None
    BY <1>6 DEF Kept, Stored
  <2> QED
    BY <1>5, <1>6, <2>1 DEF Kept
<1>7. StoredIsSent'
  <2> SUFFICES ASSUME NEW a \in Browsers
               PROVE  stored'[a].state = Empty \/ Kept(a, stored[a])'
    BY DEF StoredIsSent
  <2>1. CASE a = b
    <3>1. stored'[a] = kept
      BY <1>3, <2>1
    <3>2. sent'[r] = request
      BY <1>3
    <3> QED
      BY <1>1, <2>1, <3>1, <3>2, RequestsAssumption DEF Kept
  <2>2. CASE a # b
    <3>1. stored'[a] = stored[a] /\ stored[a] \in Stored
      BY <1>3, <2>2
    <3>2. stored[a].state = Empty \/ Kept(a, stored[a])
      BY DEF Inv, StoredIsSent
    <3>3. PICK k : k = stored[a]
      OBVIOUS
    <3>4. Kept(a, k) => Kept(a, k)'
      BY <1>6, <3>1, <3>3
    <3> QED
      BY <3>1, <3>2, <3>3, <3>4 DEF Kept
  <2> QED
    BY <2>1, <2>2
<1>8. CallbacksAnswerRequests'
  BY <1>3, <1>5 DEF Inv, TypeOK, Callback, CallbacksAnswerRequests
<1>9. ASSUME NEW c \in Calls PROVE CallOK(calls[c])'
  <2>1. PICK call : call = calls[c]
    OBVIOUS
  <2>2. call \in Call /\ CallOK(call) /\ call.stored \in Stored
    BY <2>1 DEF Inv, TypeOK, Call
  <2>3. Kept(call.browser, call.stored) => Kept(call.browser, call.stored)'
    BY <1>6, <2>2
  <2>4. CallOK(call)'
    BY <1>3, <2>2, <2>3 DEF CallOK, Succeeds
  <2>5. calls'[c] = call
    BY <1>3, <2>1
  <2> QED
    BY <2>4, <2>5 DEF CallOK, Succeeds, Kept, WrongOrganization
<1>10. OneCallPerCode'
  BY <1>3 DEF Inv, OneCallPerCode, HoldsToken, HasUser, Returned
<1>11. ASSUME NEW a \in Browsers, session[a] # None
       PROVE  /\ session[a].token.code \in Requests
              /\ sent[session[a].token.code] # None
              /\ sent'[session[a].token.code] = sent[session[a].token.code]
  BY <1>5, <1>11 DEF Inv, TypeOK, SessionsAreSent, User, IssuedToken
<1>12. (SessionsAreSent /\ SessionOfOneRequest /\ SessionInRequestedOrganization)'
  BY <1>3, <1>11 DEF Inv, SessionsAreSent, SessionOfOneRequest, SessionInRequestedOrganization
<1> QED
  BY <1>4, <1>7, <1>8, <1>9, <1>10, <1>12 DEF Inv

LEMMA AuthorizeInv ==
  ASSUME Inv, NEW r \in Requests, Authorize(r)
  PROVE  Inv'
<1>1. PICK kind \in AnswerKinds : callbacks' = callbacks \cup {CallbackOf(r, kind)}
  BY DEF Authorize
<1>2. sent[r] # None /\ UNCHANGED <<sent, stored, redeemed, calls, session>>
  BY DEF Authorize
<1>3. CallbackOf(r, kind) \in Callback
  BY DEF CallbackOf, Callback
<1>4. TypeOK'
  BY <1>1, <1>2, <1>3 DEF Inv, TypeOK
<1>5. StoredIsSent'
  BY <1>2 DEF Inv, StoredIsSent, Kept
<1>6. CallbacksAnswerRequests'
  BY <1>1, <1>2 DEF Inv, CallbacksAnswerRequests, CallbackOf
<1>7. \A c \in Calls : CallOK(calls[c])'
  BY <1>1, <1>2 DEF Inv, CallOK, Succeeds, Kept, WrongOrganization
<1>8. OneCallPerCode'
  BY <1>2 DEF Inv, OneCallPerCode, HoldsToken, HasUser, Returned
<1>9. (SessionsAreSent /\ SessionOfOneRequest /\ SessionInRequestedOrganization)'
  BY <1>2 DEF Inv, SessionsAreSent, SessionOfOneRequest, SessionInRequestedOrganization
<1> QED
  BY <1>4, <1>5, <1>6, <1>7, <1>8, <1>9 DEF Inv

(***************************************************************************)
(* The user of a call is for the browser, the request and the organization *)
(* the call was made for, so the session it becomes is too.                *)
(***************************************************************************)
LEMMA UserOfCall ==
  ASSUME Inv, NEW c \in Calls, HasUser(c)
  PROVE  /\ calls[c].browser \in Browsers
         /\ UserOf(c) \in User
         /\ UserOf(c).token.code \in Requests
         /\ UserOf(c).token.code \in redeemed
         /\ UserOf(c).token = calls[c].token
         /\ sent[UserOf(c).token.code] # None
         /\ sent[UserOf(c).token.code].browser = calls[c].browser
         /\ UserOf(c).token.idToken = "verified" => UserOf(c).token.nonce = UserOf(c).token.code
         /\ sent[UserOf(c).token.code].organization # Empty =>
              UserOf(c).organizationID = sent[UserOf(c).token.code].organization
<1>1. calls[c] \in Call /\ calls[c].pc = "returned" /\ calls[c].result.err = "nil"
  BY DEF Inv, TypeOK, HasUser, Returned
<1>2. CallOK(calls[c]) /\ Succeeds(calls[c])
  BY <1>1 DEF Inv, Succeeds
<1>3. calls[c].result \in Result
  BY <1>1, <1>2 DEF CallOK, Call
<1>4. UserOf(c) \in User /\ UserOf(c).token = calls[c].token /\ calls[c].browser \in Browsers
  BY <1>1, <1>2, <1>3 DEF CallOK, UserOf, Result
<1>5. UserOf(c).token.code \in Requests
  BY <1>4 DEF User, IssuedToken
<1>6. UserOf(c).token.code = calls[c].stored.state
  BY <1>1, <1>2, <1>4 DEF CallOK
<1>7. /\ sent[UserOf(c).token.code] # None
      /\ sent[UserOf(c).token.code].browser = calls[c].browser
      /\ calls[c].stored.organization = sent[UserOf(c).token.code].organization
  BY <1>2, <1>6 DEF CallOK, Kept
<1>8. /\ UserOf(c).token.idToken = "verified" => UserOf(c).token.nonce = UserOf(c).token.code
      /\ UserOf(c).token.code \in redeemed
  BY <1>1, <1>2, <1>4 DEF CallOK
<1>9. ~ WrongOrganization(UserOf(c), calls[c].stored)
  BY <1>1, <1>2 DEF CallOK, UserOf
<1> QED
  BY <1>4, <1>5, <1>7, <1>8, <1>9 DEF WrongOrganization

LEMMA AppResumesInv ==
  ASSUME Inv, NEW c \in Calls, AppResumes(c)
  PROVE  Inv'
<1>1. /\ calls' = [calls EXCEPT ![c] = Idle]
      /\ UNCHANGED <<sent, stored, callbacks, redeemed>>
  BY DEF AppResumes
<1>2. \/ session' = session
      \/ HasUser(c) /\ session' = [session EXCEPT ![calls[c].browser] = UserOf(c)]
  BY DEF AppResumes, HasUser, Returned, UserOf
<1>3. HasUser(c) => UserOf(c) \in User /\ calls[c].browser \in Browsers
  BY UserOfCall
<1>4. TypeOK'
  <2>1. session' \in [Browsers -> User \cup {None}]
    BY <1>2, <1>3 DEF Inv, TypeOK
  <2>2. calls' \in [Calls -> Call]
    BY <1>1, IdleType DEF Inv, TypeOK
  <2> QED
    BY <1>1, <2>1, <2>2 DEF Inv, TypeOK
<1>5. StoredIsSent' /\ CallbacksAnswerRequests'
  BY <1>1 DEF Inv, StoredIsSent, Kept, CallbacksAnswerRequests
<1>6. \A d \in Calls : calls'[d] = IF d = c THEN Idle ELSE calls[d]
  BY <1>1 DEF Inv, TypeOK
<1>7. ASSUME NEW d \in Calls PROVE CallOK(calls[d])'
  <2>1. CASE d = c
    BY <1>6, <2>1 DEF CallOK, Succeeds, Idle
  <2>2. CASE d # c
    BY <1>1, <1>6, <2>2 DEF Inv, CallOK, Succeeds, Kept, WrongOrganization
  <2> QED
    BY <2>1, <2>2
<1>8. OneCallPerCode'
  BY <1>6 DEF Inv, OneCallPerCode, HoldsToken, HasUser, Returned, Idle
<1>9. ASSUME NEW b \in Browsers, session'[b] # None
      PROVE  \/ session'[b] = session[b]
             \/ HasUser(c) /\ b = calls[c].browser /\ session'[b] = UserOf(c)
  BY <1>2 DEF Inv, TypeOK
<1>10. (SessionsAreSent /\ SessionOfOneRequest /\ SessionInRequestedOrganization)'
  BY <1>1, <1>9, UserOfCall
     DEF Inv, SessionsAreSent, SessionOfOneRequest, SessionInRequestedOrganization
<1> QED
  BY <1>4, <1>5, <1>7, <1>8, <1>10 DEF Inv

LEMMA StepInv ==
  ASSUME Inv, [Next]_vars
  PROVE  Inv'
<1>1. ASSUME NEW b \in Browsers, NEW r \in Requests, StartSignIn(b, r) \/ StartSwitch(b, r)
      PROVE  Inv'
  BY <1>1, StartLemma, StartInv
<1>2. ASSUME NEW r \in Requests, Authorize(r) PROVE Inv'
  BY <1>2, AuthorizeInv
<1>3. ASSUME NEW c \in Calls, NEW b \in Browsers, NEW callback \in callbacks,
             Authenticate(c, b, callback)
      PROVE  Inv'
  BY <1>3, AuthenticateInv
<1>4. ASSUME NEW c \in Calls, TokenFailed(c) PROVE Inv'
  BY <1>4, TokenFailedInv
<1>5. ASSUME NEW c \in Calls, TokenAnswered(c) PROVE Inv'
  BY <1>5, TokenAnsweredInv
<1>6. ASSUME NEW c \in Calls, UserInfoReturned(c) PROVE Inv'
  BY <1>6, UserInfoReturnedInv
<1>7. ASSUME NEW c \in Calls, AppResumes(c) PROVE Inv'
  BY <1>7, AppResumesInv
<1>8. ASSUME UNCHANGED vars PROVE Inv'
  BY <1>8 DEF vars, Inv, TypeOK, StoredIsSent, CallbacksAnswerRequests, CallOK, Succeeds, Kept,
              WrongOrganization, OneCallPerCode, HoldsToken, HasUser, Returned,
              SessionsAreSent, SessionOfOneRequest, SessionInRequestedOrganization
<1> QED
  BY <1>1, <1>2, <1>3, <1>4, <1>5, <1>6, <1>7, <1>8 DEF Next

(***************************************************************************)
(* The inductive invariant holds in every reachable state.                 *)
(***************************************************************************)
THEOREM Invariance == Spec => []Inv
<1>1. Init => Inv
  BY InitInv
<1>2. Inv /\ [Next]_vars => Inv'
  BY StepInv
<1> QED
  BY <1>1, <1>2, PTL DEF Spec

(***************************************************************************)
(* Every variable keeps its type, so every user returned has a subject.    *)
(***************************************************************************)
THEOREM TypeCorrectness == Spec => []TypeOK
<1>1. Inv => TypeOK
  BY DEF Inv
<1> QED
  BY <1>1, Invariance, PTL

(***************************************************************************)
(* No code is presented with the verifier of another request, or for a     *)
(* browser that did not make the request.                                  *)
(***************************************************************************)
THEOREM CodesArePaired == Spec => []CodeAndVerifierPaired
<1>1. Inv => CodeAndVerifierPaired
  BY DEF Inv, CallOK, Succeeds, Kept, CodeAndVerifierPaired
<1> QED
  BY <1>1, Invariance, PTL

(***************************************************************************)
(* A denial is believed only of the request the browser made.              *)
(***************************************************************************)
THEOREM DenialsAreOfTheStoredRequest == Spec => []DenialIsOfTheStoredRequest
<1>1. Inv => DenialIsOfTheStoredRequest
  BY DEF Inv, CallOK, Kept, DenialIsOfTheStoredRequest, Returned
<1> QED
  BY <1>1, Invariance, PTL

(***************************************************************************)
(* Code, nonce and browser of every session belong to one request.         *)
(***************************************************************************)
THEOREM SessionsAreOfOneRequest == Spec => []SessionOfOneRequest
<1>1. Inv => SessionOfOneRequest
  BY DEF Inv
<1> QED
  BY <1>1, Invariance, PTL

(***************************************************************************)
(* A session is in the organization its request was bound to.              *)
(***************************************************************************)
THEOREM SessionsAreInTheRequestedOrganization == Spec => []SessionInRequestedOrganization
<1>1. Inv => SessionInRequestedOrganization
  BY DEF Inv
<1> QED
  BY <1>1, Invariance, PTL

-----------------------------------------------------------------------------
(* What a call returns is what its token and its profile say.  No step     *)
(* changes a call that has returned, so this is shown once, for the step   *)
(* that ends the call.                                                     *)
Explained(call) ==
  /\ call.pc = "exchange" => call.token = None
  /\ call.pc = "returned" /\ call.result.err = "nil" =>
       /\ call.result = Succeeded(CboxUser(call.token, call.profile))
       /\ ~ SubjectsDiffer(call.profile, call.token.verified)
  /\ call.pc = "returned" /\ call.result.err # "nil" => ReasonToRefuse(call)

AllExplained == \A c \in Calls : Explained(calls[c])

(***************************************************************************)
(* The last step of a sign-in refuses for a reason of its own.             *)
(***************************************************************************)
LEMMA UserOrRefusalExplained ==
  ASSUME NEW call \in Call, call.token \in IssuedToken,
         NEW profile \in Claims, NEW new,
         new = [call EXCEPT !.pc      = "returned",
                            !.profile = profile,
                            !.result  = UserOrRefusal(call.token, profile, call.stored)]
  PROVE  Explained(new)
<1> DEFINE verified == call.token.verified
           user     == CboxUser(call.token, profile)
<1>1. /\ new.pc = "returned" /\ new.profile = profile
      /\ new.token = call.token /\ new.stored = call.stored
      /\ new.result = UserOrRefusal(call.token, profile, call.stored)
  BY DEF Call
<1>2. /\ verified \in Claims
      /\ user.id = stringClaim(merge(profile, verified), "sub")
      /\ user.organizationID = stringClaim(merge(profile, verified), "org")
  BY DEF IssuedToken, CboxUser
<1>3. \A key \in {"sub", "org"} :
         stringClaim(merge(profile, verified), key) =
           IF verified[key] # Absent
           THEN IF verified[key] \in Strings THEN verified[key] ELSE Empty
           ELSE IF profile[key] \in Strings THEN profile[key] ELSE Empty
  BY ClaimsAssumption DEF stringClaim, merge
<1>4. CASE SubjectsDiffer(profile, verified)
  <2>1. profile["sub"] # verified["sub"] /\ profile["sub"] # Absent
    BY <1>4, ClaimsAssumption DEF SubjectsDiffer, IsString
  <2>2. new.result = ErrAuthentication
    BY <1>1, <1>4 DEF UserOrRefusal, Enriched, ErrAuthentication, Failed
  <2> QED
    BY <1>1, <2>1, <2>2 DEF Explained, ReasonToRefuse, ErrAuthentication, Failed
<1>5. CASE user.id = Empty
  <2>1. \/ profile["sub"] # verified["sub"] /\ profile["sub"] # Absent
        \/ verified["sub"] \notin Strings /\ profile["sub"] \notin Strings
    BY <1>2, <1>3, <1>5, ClaimsAssumption
  <2>2. new.result = ErrAuthentication
    BY <1>1, <1>5 DEF UserOrRefusal, Enriched, ErrAuthentication, Failed
  <2> QED
    BY <1>1, <2>1, <2>2 DEF Explained, ReasonToRefuse, ErrAuthentication, Failed
<1>6. CASE ~ SubjectsDiffer(profile, verified) /\ user.id # Empty
  <2>1. Enriched(call.token, profile) = Succeeded(user)
    BY <1>6 DEF Enriched
  <2>2. Succeeded(user).err = "nil" /\ Succeeded(user).user = user
    BY DEF Succeeded
  <2>3. CASE ~ WrongOrganization(user, call.stored)
    <3>1. new.result = Succeeded(user)
      BY <1>1, <2>1, <2>2, <2>3 DEF UserOrRefusal
    <3> QED
      BY <1>1, <1>6, <2>2, <3>1 DEF Explained
  <2>4. CASE WrongOrganization(user, call.stored)
    <3>1. new.result = ErrAuthentication
      BY <1>1, <2>1, <2>2, <2>4 DEF UserOrRefusal
    <3>2. /\ call.stored.organization # Empty
          /\ call.stored.organization # user.organizationID
      BY <2>4 DEF WrongOrganization
    <3>3. call.stored.organization \in Strings
      BY <3>2, AnswersAssumption DEF Call, Stored
    <3>4. /\ call.stored.organization # verified["org"]
          /\ verified["org"] # Absent \/ call.stored.organization # profile["org"]
      BY <1>2, <1>3, <3>2, <3>3, ClaimsAssumption
    <3> QED
      BY <1>1, <3>1, <3>2, <3>4 DEF Explained, ReasonToRefuse, ErrAuthentication, Failed
  <2> QED
    BY <2>3, <2>4
<1> QED
  BY <1>4, <1>5, <1>6

LEMMA AuthenticateExplained ==
  ASSUME NEW callback, NEW kept, NEW call,
         call.token = None, call.callback = callback, call.stored = kept,
         call.result = RefusedCallback(callback, kept),
         call.pc = IF call.result = None THEN "exchange" ELSE "returned"
  PROVE  Explained(call)
<1>1. CASE call.pc = "exchange"
  BY <1>1 DEF Explained
<1>2. CASE call.pc # "exchange"
  <2>1. call.pc = "returned" /\ call.result.err # "nil"
    BY <1>2 DEF RefusedCallback, ErrInvalidState, ErrAuthentication, OAuthError, Failed
  <2> QED
    BY <2>1 DEF Explained, ReasonToRefuse
<1> QED
  BY <1>1, <1>2

LEMMA StepExplained ==
  ASSUME Inv, AllExplained, [Next]_vars
  PROVE  AllExplained'
<1> SUFFICES ASSUME NEW d \in Calls PROVE Explained(calls'[d])
  BY DEF AllExplained, Explained, ReasonToRefuse
<1>1. Explained(calls[d]) /\ calls[d] \in Call /\ calls \in [Calls -> Call]
  BY DEF AllExplained, Inv, TypeOK
<1>2. ASSUME UNCHANGED calls PROVE Explained(calls'[d])
  BY <1>1, <1>2
<1>3. ASSUME NEW b \in Browsers, NEW r \in Requests, StartSignIn(b, r) \/ StartSwitch(b, r)
      PROVE  UNCHANGED calls
  BY <1>3 DEF StartSignIn, StartSwitch, Redirect
<1>4. ASSUME NEW r \in Requests, Authorize(r) PROVE UNCHANGED calls
  BY <1>4 DEF Authorize
<1>5. ASSUME NEW c \in Calls, NEW b \in Browsers, NEW callback \in callbacks,
             Authenticate(c, b, callback)
      PROVE  Explained(calls'[d])
  <2>1. CASE c # d
    BY <1>1, <1>5, <2>1 DEF Authenticate
  <2>2. CASE c = d
    <3> DEFINE refused == RefusedCallback(callback, stored[b])
    <3>1. calls'[d] = [Idle EXCEPT !.pc = IF refused = None THEN "exchange" ELSE "returned",
                                   !.browser  = b,
                                   !.callback = callback,
                                   !.stored   = stored[b],
                                   !.result   = refused]
      BY <1>1, <1>5, <2>2 DEF Authenticate
    <3>2. /\ calls'[d].token = None /\ calls'[d].callback = callback
          /\ calls'[d].stored = stored[b] /\ calls'[d].result = refused
          /\ calls'[d].pc = IF refused = None THEN "exchange" ELSE "returned"
      BY <3>1 DEF Idle
    <3> HIDE DEF refused
    <3> QED
      BY <3>2, AuthenticateExplained DEF refused
  <2> QED
    BY <2>1, <2>2
<1>6. ASSUME NEW c \in Calls, TokenFailed(c) PROVE Explained(calls'[d])
  <2>1. PICK result \in {OAuthError("token exchange", "invalid_grant"), ErrAuthentication} :
          calls' = [calls EXCEPT ![c].pc = "returned", ![c].result = result]
    BY <1>6 DEF TokenFailed
  <2>2. CASE c # d
    BY <1>1, <2>1, <2>2
  <2>3. CASE c = d
    <3>1. calls[d].token = None
      BY <1>1, <1>6, <2>3 DEF TokenFailed, Explained
    <3>2. /\ calls'[d].pc = "returned" /\ calls'[d].result = result
          /\ calls'[d].token = None
      BY <1>1, <2>1, <2>3, <3>1 DEF Call
    <3>3. result.err # "nil"
      <4>1. /\ OAuthError("token exchange", "invalid_grant").err = "OAuthError"
            /\ ErrAuthentication.err = "ErrAuthentication"
        BY DEF OAuthError, ErrAuthentication, Failed
      <4>2. \/ result = OAuthError("token exchange", "invalid_grant")
            \/ result = ErrAuthentication
        BY <2>1
      <4> QED
        BY <4>1, <4>2
    <3> QED
      BY <3>2, <3>3 DEF Explained, ReasonToRefuse
  <2> QED
    BY <2>2, <2>3
<1>7. ASSUME NEW c \in Calls, TokenAnswered(c) PROVE Explained(calls'[d])
  <2>1. PICK token :
          calls' = [calls EXCEPT
                      ![c].pc = IF RefusedToken(token, calls[c].stored.nonce) = None
                                THEN "userinfo" ELSE "returned",
                      ![c].token  = token,
                      ![c].result = RefusedToken(token, calls[c].stored.nonce)]
    BY <1>7 DEF TokenAnswered
  <2>2. CASE c # d
    BY <1>1, <2>1, <2>2
  <2>3. CASE c = d
    <3> DEFINE refused == RefusedToken(token, calls[c].stored.nonce)
    <3>1. /\ calls'[d].pc = IF refused = None THEN "userinfo" ELSE "returned"
          /\ calls'[d].token = token /\ calls'[d].result = refused
          /\ calls'[d].stored = calls[d].stored
      BY <1>1, <2>1, <2>3 DEF Call
    <3>2. refused # None =>
            /\ refused.err # "nil"
            /\ \/ token.idToken = "unverifiable"
               \/ token.idToken = "verified" /\ token.nonce # calls[d].stored.nonce
      BY <2>3 DEF RefusedToken, NonceDiffers, ErrAuthentication, Failed
    <3> HIDE DEF refused
    <3> QED
      BY <3>1, <3>2 DEF Explained, ReasonToRefuse
  <2> QED
    BY <2>2, <2>3
<1>8. ASSUME NEW c \in Calls, UserInfoReturned(c) PROVE Explained(calls'[d])
  <2>1. PICK profile \in ProfileClaims \cup {NoClaims} :
          calls' = [calls EXCEPT
                      ![c].pc      = "returned",
                      ![c].profile = profile,
                      ![c].result  = UserOrRefusal(calls[c].token, profile, calls[c].stored)]
    BY <1>8 DEF UserInfoReturned
  <2>2. CASE c # d
    BY <1>1, <2>1, <2>2
  <2>3. CASE c = d
    <3>1. calls'[d] = [calls[d] EXCEPT !.pc = "returned", !.profile = profile,
                         !.result = UserOrRefusal(calls[d].token, profile, calls[d].stored)]
      BY <1>1, <2>1, <2>3
    <3>2. calls[d].token \in IssuedToken
      BY <1>1, <1>8, <2>3 DEF UserInfoReturned, Inv, CallOK, Succeeds, Call
    <3>3. profile \in Claims
      BY NoClaimsType, AnswersAssumption
    <3> QED
      BY <1>1, <3>1, <3>2, <3>3, UserOrRefusalExplained
  <2> QED
    BY <2>2, <2>3
<1>9. ASSUME NEW c \in Calls, AppResumes(c) PROVE Explained(calls'[d])
  <2>1. CASE c # d
    BY <1>1, <1>9, <2>1 DEF AppResumes
  <2>2. CASE c = d
    <3>1. calls'[d] = Idle
      BY <1>1, <1>9, <2>2 DEF AppResumes
    <3> QED
      BY <3>1 DEF Explained, Idle
  <2> QED
    BY <2>1, <2>2
<1>10. ASSUME UNCHANGED vars PROVE UNCHANGED calls
  BY <1>10 DEF vars
<1> QED
  BY <1>2, <1>3, <1>4, <1>5, <1>6, <1>7, <1>8, <1>9, <1>10 DEF Next

LEMMA ExplainedInvariance == Spec => []AllExplained
<1>1. Init => AllExplained
  BY DEF Init, AllExplained, Explained, Idle
<1>2. Inv /\ AllExplained /\ [Next]_vars => AllExplained'
  BY StepExplained
<1> QED
  BY <1>1, <1>2, Invariance, PTL DEF Spec

(***************************************************************************)
(* Whatever UserInfo answers, the user holds what the id_token signed.     *)
(***************************************************************************)
THEOREM SignedClaimsAreKept == Spec => []SignedClaimsStand
<1>1. ASSUME Inv, AllExplained, NEW c \in Calls, HasUser(c),
             NEW user, user = UserOf(c), NEW signed, signed = user.token.verified
      PROVE  /\ \A k \in ClaimNames : signed[k] # Absent => user.claims[k] = signed[k]
             /\ signed["sub"] # Absent => user.id = signed["sub"]
             /\ signed["org"] \in Strings => user.organizationID = signed["org"]
             /\ user.sessionID # Empty => user.sessionID = signed["sid"]
  <2> DEFINE claims == merge(calls[c].profile, signed)
  <2>1. user = CboxUser(calls[c].token, calls[c].profile)
    <3>1. calls[c].result = Succeeded(CboxUser(calls[c].token, calls[c].profile))
      BY <1>1 DEF AllExplained, Explained, HasUser, Returned
    <3> QED
      BY <1>1, <3>1 DEF UserOf, Succeeded
  <2>2. /\ user.token = calls[c].token /\ user.claims = claims
        /\ user.id = stringClaim(claims, "sub")
        /\ user.organizationID = stringClaim(claims, "org")
        /\ user.sessionID = stringClaim(signed, "sid")
    BY <1>1, <2>1 DEF CboxUser
  <2>3. user.id \in Strings
    BY <1>1 DEF Inv, TypeOK, CallOK, Succeeds, HasUser, Returned, UserOf, Call, Result, User
  <2>4. \A k \in ClaimNames : signed[k] # Absent => claims[k] = signed[k]
    BY DEF merge
  <2> QED
    BY <2>2, <2>3, <2>4, ClaimsAssumption DEF stringClaim
<1>2. Inv /\ AllExplained => SignedClaimsStand
  BY <1>1 DEF SignedClaimsStand
<1> QED
  BY <1>2, Invariance, ExplainedInvariance, PTL

(* The claims of a call are those the instance answered with.              *)
Answered(call) ==
  /\ call.token # None => call.token.verified \in IdTokenClaims \cup {NoClaims}
  /\ call.profile \in ProfileClaims \cup {NoClaims}

AllAnswered == \A c \in Calls : Answered(calls[c])

LEMMA StepAnswered ==
  ASSUME Inv, AllAnswered, [Next]_vars
  PROVE  AllAnswered'
<1> SUFFICES ASSUME NEW d \in Calls PROVE Answered(calls'[d])
  BY DEF AllAnswered, Answered
<1>1. Answered(calls[d]) /\ calls[d] \in Call /\ calls \in [Calls -> Call]
  BY DEF AllAnswered, Inv, TypeOK
<1>2. Answered(Idle)
  BY DEF Answered, Idle
<1>3. ASSUME UNCHANGED calls PROVE Answered(calls'[d])
  BY <1>1, <1>3
<1>4. ASSUME NEW b \in Browsers, NEW r \in Requests, StartSignIn(b, r) \/ StartSwitch(b, r)
      PROVE  UNCHANGED calls
  BY <1>4 DEF StartSignIn, StartSwitch, Redirect
<1>5. ASSUME NEW r \in Requests, Authorize(r) PROVE UNCHANGED calls
  BY <1>5 DEF Authorize
<1>6. ASSUME NEW c \in Calls, NEW b \in Browsers, NEW callback \in callbacks,
             Authenticate(c, b, callback)
      PROVE  Answered(calls'[d])
  <2>1. calls'[d] = calls[d] \/ (calls'[d].token = None /\ calls'[d].profile = NoClaims)
    BY <1>1, <1>6 DEF Authenticate, Idle
  <2> QED
    BY <1>1, <2>1 DEF Answered
<1>7. ASSUME NEW c \in Calls, TokenFailed(c) PROVE Answered(calls'[d])
  <2>1. PICK result :
          calls' = [calls EXCEPT ![c].pc = "returned", ![c].result = result]
    BY <1>7 DEF TokenFailed
  <2>2. calls'[d].token = calls[d].token /\ calls'[d].profile = calls[d].profile
    BY <1>1, <2>1 DEF Call
  <2> QED
    BY <1>1, <2>2 DEF Answered
<1>8. ASSUME NEW c \in Calls, TokenAnswered(c) PROVE Answered(calls'[d])
  <2>1. PICK token \in TokensFor(calls[c].callback.code) :
          calls' = [calls EXCEPT
                      ![c].pc = IF RefusedToken(token, calls[c].stored.nonce) = None
                                THEN "userinfo" ELSE "returned",
                      ![c].token  = token,
                      ![c].result = RefusedToken(token, calls[c].stored.nonce)]
    BY <1>8 DEF TokenAnswered
  <2>2. token.verified \in IdTokenClaims \cup {NoClaims}
    BY <2>1 DEF TokensFor, Token
  <2>3. calls'[d].profile = calls[d].profile /\ calls'[d].token \in {calls[d].token, token}
    BY <1>1, <2>1 DEF Call
  <2> QED
    BY <1>1, <2>2, <2>3 DEF Answered
<1>9. ASSUME NEW c \in Calls, UserInfoReturned(c) PROVE Answered(calls'[d])
  <2>1. PICK profile \in ProfileClaims \cup {NoClaims} :
          calls' = [calls EXCEPT
                      ![c].pc      = "returned",
                      ![c].profile = profile,
                      ![c].result  = UserOrRefusal(calls[c].token, profile, calls[c].stored)]
    BY <1>9 DEF UserInfoReturned
  <2>2. calls'[d].token = calls[d].token /\ calls'[d].profile \in {calls[d].profile, profile}
    BY <1>1, <2>1 DEF Call
  <2> QED
    BY <1>1, <2>2 DEF Answered
<1>10. ASSUME NEW c \in Calls, AppResumes(c) PROVE Answered(calls'[d])
  <2>1. calls'[d] \in {calls[d], Idle}
    BY <1>1, <1>10 DEF AppResumes
  <2> QED
    BY <1>1, <1>2, <2>1
<1>11. ASSUME UNCHANGED vars PROVE UNCHANGED calls
  BY <1>11 DEF vars
<1> QED
  BY <1>3, <1>4, <1>5, <1>6, <1>7, <1>8, <1>9, <1>10, <1>11 DEF Next

LEMMA AnsweredInvariance == Spec => []AllAnswered
<1>1. Init => AllAnswered
  BY DEF Init, AllAnswered, Answered, Idle
<1>2. Inv /\ AllAnswered /\ [Next]_vars => AllAnswered'
  BY StepAnswered
<1> QED
  BY <1>1, <1>2, Invariance, PTL DEF Spec

(***************************************************************************)
(* The subjects are compared before two sources of claims are merged, so   *)
(* that no user is made of two people (auth.go 351-359).                   *)
(***************************************************************************)
THEOREM UsersAreOnePerson == Spec => []ClaimsDescribeOnePerson
<1>1. ASSUME Inv, AllExplained, AllAnswered, EachNamesItsPerson,
             NEW c \in Calls, HasUser(c), UserOf(c).claims["email"] \in Strings
      PROVE  UserOf(c).claims["email"] = UserOf(c).id
  <2> DEFINE signed  == calls[c].token.verified
             profile == calls[c].profile
             claims  == merge(profile, signed)
  <2>1. /\ UserOf(c).claims = claims /\ UserOf(c).id = stringClaim(claims, "sub")
        /\ ~ SubjectsDiffer(profile, signed)
    <3>1. /\ calls[c].result = Succeeded(CboxUser(calls[c].token, profile))
          /\ ~ SubjectsDiffer(profile, signed)
      BY <1>1 DEF AllExplained, Explained, HasUser, Returned
    <3>2. UserOf(c) = CboxUser(calls[c].token, profile)
      BY <3>1 DEF UserOf, Succeeded
    <3> QED
      BY <3>1, <3>2 DEF CboxUser
  <2>2. UserOf(c).id \in Strings
    BY <1>1 DEF Inv, TypeOK, CallOK, Succeeds, HasUser, Returned, UserOf, Call, Result, User
  <2>3. signed \in IdTokenClaims \cup {NoClaims} /\ profile \in ProfileClaims \cup {NoClaims}
    BY <1>1 DEF AllAnswered, Answered, Inv, CallOK, Succeeds, HasUser, Returned
  <2>4. "sub" \in ClaimNames /\ "email" \in ClaimNames /\ Absent \notin Strings
    BY <1>1, ClaimsAssumption DEF EachNamesItsPerson
  <2>5. /\ claims["email"] = IF signed["email"] # Absent THEN signed["email"] ELSE profile["email"]
        /\ claims["sub"] = IF signed["sub"] # Absent THEN signed["sub"] ELSE profile["sub"]
    BY <2>4 DEF merge
  <2>6. NoClaims["email"] = Absent
    BY <2>4 DEF NoClaims
  <2>7. claims["sub"] \in Strings /\ UserOf(c).id = claims["sub"]
    BY <2>1, <2>2, ClaimsAssumption DEF stringClaim
  <2>8. CASE signed["email"] # Absent
    <3>1. signed["email"] \in Strings /\ signed \in IdTokenClaims
      BY <1>1, <2>1, <2>3, <2>4, <2>5, <2>6, <2>8
    <3>2. signed["sub"] \in {signed["email"], Empty, NonString}
      BY <1>1, <3>1 DEF EachNamesItsPerson
    <3>3. signed["sub"] # Absent
      BY <3>1, <3>2, ClaimsAssumption
    <3> QED
      BY <2>1, <2>5, <2>7, <2>8, <3>2, <3>3, ClaimsAssumption
  <2>9. CASE signed["email"] = Absent
    <3>1. profile["email"] \in Strings /\ profile \in ProfileClaims
      BY <1>1, <2>1, <2>3, <2>4, <2>5, <2>6, <2>9
    <3>2. profile["sub"] = profile["email"]
      BY <1>1, <3>1 DEF EachNamesItsPerson
    <3>3. CASE signed["sub"] = Absent
      BY <2>1, <2>5, <2>7, <2>9, <3>2, <3>3
    <3>4. CASE signed["sub"] # Absent
      <4>1. signed["sub"] = profile["sub"]
        BY <2>1, <2>5, <2>7, <3>1, <3>2, <3>4 DEF SubjectsDiffer, IsString
      <4> QED
        BY <2>1, <2>5, <2>7, <2>9, <3>2, <4>1
    <3> QED
      BY <3>3, <3>4
  <2> QED
    BY <2>8, <2>9
<1>2. Inv /\ AllExplained /\ AllAnswered => ClaimsDescribeOnePerson
  BY <1>1 DEF ClaimsDescribeOnePerson
<1> QED
  BY <1>2, Invariance, ExplainedInvariance, AnsweredInvariance, PTL

(***************************************************************************)
(* No sign-in is refused but for a reason the documentation gives.         *)
(***************************************************************************)
THEOREM RefusalsHaveReasons == Spec => []RefusedOnlyForAReason
<1>1. AllExplained => RefusedOnlyForAReason
  BY DEF AllExplained, Explained, RefusedOnlyForAReason, Returned
<1> QED
  BY <1>1, ExplainedInvariance, PTL

-----------------------------------------------------------------------------
(***************************************************************************)
(* SignIn implements SignInContract: every step of the code, its tabs, its *)
(* replays and its lost answers is a step of the contract or a stutter.    *)
(***************************************************************************)
(* The abstract state.                                                     *)
Asked   == [r \in Requests |-> AskedOf(sent[r])]
Settled == redeemed \ InFlight
Session == [b \in Browsers |-> SessionOf(session[b])]

(* The codes whose tokens the calls other than c hold.                     *)
Others(c) == {calls[d].token.code : d \in {e \in Calls : e # c /\ HoldsToken(e)}}

LEMMA InFlightSplit ==
  ASSUME Inv, NEW c \in Calls
  PROVE  /\ HoldsToken(c) => /\ InFlight = Others(c) \cup {calls[c].token.code}
                             /\ calls[c].token.code \notin Others(c)
         /\ ~ HoldsToken(c) => InFlight = Others(c)
         /\ InFlight \subseteq redeemed
<1>1. HoldsToken(c) => /\ InFlight = Others(c) \cup {calls[c].token.code}
                       /\ calls[c].token.code \notin Others(c)
  BY DEF Inv, OneCallPerCode, InFlight, Others
<1>2. ~ HoldsToken(c) => InFlight = Others(c)
  BY DEF InFlight, Others
<1>3. ASSUME NEW d \in Calls, HoldsToken(d) PROVE calls[d].token.code \in redeemed
  BY <1>3 DEF Inv, CallOK, HoldsToken, HasUser, Returned, Succeeds
<1> QED
  BY <1>1, <1>2, <1>3 DEF InFlight

LEMMA OthersUnchanged ==
  ASSUME Inv, NEW c \in Calls, NEW new, calls' = [calls EXCEPT ![c] = new]
  PROVE  Others(c)' = Others(c)
<1>1. ASSUME NEW d \in Calls, d # c PROVE calls'[d] = calls[d]
  BY <1>1 DEF Inv, TypeOK
<1>2. ASSUME NEW d \in Calls, d # c PROVE HoldsToken(d)' <=> HoldsToken(d)
  BY <1>1, <1>2 DEF HoldsToken, HasUser, Returned
<1> QED
  BY <1>1, <1>2 DEF Others

(***************************************************************************)
(* A call step that neither holds a token before nor after it settles the  *)
(* request whose code it redeemed, if it redeemed one.                     *)
(***************************************************************************)
LEMMA SettledByCall ==
  ASSUME Inv, Inv', NEW c \in Calls, NEW new, calls' = [calls EXCEPT ![c] = new]
  PROVE  /\ ~ HoldsToken(c) /\ ~ HoldsToken(c)' => Settled' = redeemed' \ InFlight
         /\ HoldsToken(c) /\ HoldsToken(c)' /\ new.token = calls[c].token =>
              Settled' = redeemed' \ InFlight
         /\ ~ HoldsToken(c) /\ HoldsToken(c)' =>
              Settled' = redeemed' \ (InFlight \cup {new.token.code})
         /\ HoldsToken(c) /\ ~ HoldsToken(c)' /\ redeemed' = redeemed =>
              Settled' = Settled \cup {calls[c].token.code}
<1>1. calls'[c] = new
  BY DEF Inv, TypeOK
<1>2. Others(c)' = Others(c)
  BY OthersUnchanged
<1>3. /\ HoldsToken(c) => /\ InFlight = Others(c) \cup {calls[c].token.code}
                          /\ calls[c].token.code \notin Others(c)
      /\ ~ HoldsToken(c) => InFlight = Others(c)
      /\ InFlight \subseteq redeemed
  BY InFlightSplit
<1>4. /\ HoldsToken(c)' => InFlight' = Others(c) \cup {new.token.code}
      /\ ~ HoldsToken(c)' => InFlight' = Others(c)
  <2>1. HoldsToken(c)' => InFlight' = Others(c)' \cup {calls'[c].token.code}
    BY DEF InFlight, Others
  <2>2. ~ HoldsToken(c)' => InFlight' = Others(c)'
    BY DEF InFlight, Others
  <2> QED
    BY <1>1, <1>2, <2>1, <2>2
<1>5. Settled' = redeemed' \ InFlight'
  BY DEF Settled
<1>6. Settled = redeemed \ InFlight
  BY DEF Settled
<1> HIDE DEF Settled
<1> QED
  BY <1>3, <1>4, <1>5, <1>6

-----------------------------------------------------------------------------
(***************************************************************************)
(* The steps of the contract, in terms of the abstract state.              *)
(***************************************************************************)
LEMMA FailStep ==
  ASSUME Inv, NEW r \in Requests, sent[r] # None, r \notin Settled,
         Settled' = Settled \cup {r}, UNCHANGED <<sent, session>>
  PROVE  Contract!Next
<1>1. AskedOf(sent[r]) \in [browser : Browsers, organization : Organizations \cup {Empty}]
  BY DEF Inv, TypeOK, SentRequest, AskedOf
<1>2. AskedOf(sent[r]) # None
  BY <1>1, NoneAssumption
<1>3. Contract!Fail(r)
  BY <1>2 DEF Contract!Fail, Contract!Settle, Settled
<1> QED
  BY <1>3 DEF Contract!Next

LEMMA SignInStep ==
  ASSUME Inv, NEW c \in Calls, HasUser(c), UserOf(c).token.code \notin Settled,
         Settled' = Settled \cup {UserOf(c).token.code}, UNCHANGED sent,
         session' = [session EXCEPT ![calls[c].browser] = UserOf(c)]
  PROVE  Contract!Next
<1> PICK user : user = UserOf(c)
  OBVIOUS
<1> PICK r : r = user.token.code
  OBVIOUS
<1> PICK b : b = calls[c].browser
  OBVIOUS
<1>1. /\ b \in Browsers /\ user \in User /\ r \in Requests
      /\ sent[r] # None /\ sent[r].browser = b
      /\ sent[r].organization # Empty => user.organizationID = sent[r].organization
  BY UserOfCall
<1>2. AskedOf(sent[r]) = [browser |-> b, organization |-> sent[r].organization]
  BY <1>1 DEF AskedOf
<1>3. AskedOf(sent[r]) # None
  <2>1. AskedOf(sent[r]) \in [browser : Browsers, organization : Organizations \cup {Empty}]
    BY <1>1 DEF Inv, TypeOK, SentRequest, AskedOf
  <2> QED
    BY <2>1, NoneAssumption
<1>4. user # None /\ user.organizationID \in Strings \cup {Empty}
  BY <1>1, NoneAssumption DEF User
<1>5. SessionOf(user) = [request |-> r, organization |-> user.organizationID]
  BY <1>4 DEF SessionOf
<1>6. [a \in Browsers |-> SessionOf(session[a])]'
        = [[a \in Browsers |-> SessionOf(session[a])] EXCEPT ![b] = SessionOf(user)]
  <2>1. \A a \in Browsers : session'[a] = IF a = b THEN user ELSE session[a]
    BY DEF Inv, TypeOK
  <2> QED
    BY <2>1 DEF SessionOf
<1>7. Contract!SignIn(r, user.organizationID)
  <2>1. Contract!Settle(r)
    BY <1>1, <1>3 DEF Contract!Settle, Settled
  <2>2. PICK asked : asked = [q \in Requests |-> AskedOf(sent[q])]
    OBVIOUS
  <2>3. asked[r].browser = b /\ asked[r].organization = sent[r].organization
    BY <1>1, <1>2, <2>2
  <2>4. asked[r].organization \in {Empty, user.organizationID}
    BY <1>1, <2>3
  <2>5. [a \in Browsers |-> SessionOf(session[a])]'
          = [[a \in Browsers |-> SessionOf(session[a])] EXCEPT ![asked[r].browser] =
               [request |-> r, organization |-> user.organizationID]]
    BY <1>5, <1>6, <2>3
  <2> QED
    BY <2>1, <2>2, <2>4, <2>5 DEF Contract!SignIn
<1> QED
  BY <1>1, <1>4, <1>7 DEF Contract!Next

LEMMA AskStep ==
  ASSUME Inv, NEW b \in Browsers, NEW r \in Requests,
         NEW scopes \in SUBSET Scopes, NEW organization \in Organizations \cup {Empty},
         Start(b, r, scopes, organization)
  PROVE  Contract!Next
<1> PICK request : request = [browser |-> b, scopes |-> scopes, organization |-> organization]
  OBVIOUS
<1>1. request # None
  BY NoneAssumption DEF SentRequest
<1>2. AskedOf(request) = [browser |-> b, organization |-> organization]
  BY <1>1 DEF AskedOf
<1>3. [q \in Requests |-> AskedOf(sent[q])]'
        = [[q \in Requests |-> AskedOf(sent[q])] EXCEPT ![r] = AskedOf(request)]
  BY DEF Start, Inv, TypeOK
<1>4. AskedOf(sent[r]) = None
  BY DEF Start, AskedOf
<1>5. UNCHANGED <<redeemed \ InFlight, [a \in Browsers |-> SessionOf(session[a])]>>
  BY DEF Start, InFlight, HoldsToken, HasUser, Returned
<1>6. Contract!Ask(b, r, organization)
  BY <1>2, <1>3, <1>4, <1>5 DEF Contract!Ask
<1> QED
  BY <1>6 DEF Contract!Next

LEMMA Stutter ==
  ASSUME UNCHANGED <<sent, session>>, Settled' = Settled
  PROVE  UNCHANGED Contract!vars
  BY DEF Contract!vars, Settled

(***************************************************************************)
(* A call asking the token endpoint about a code presents a sent request,  *)
(* and no token is held for an unredeemed code.                            *)
(***************************************************************************)
LEMMA ExchangeFacts ==
  ASSUME Inv, NEW c \in Calls, calls[c].pc = "exchange"
  PROVE  /\ ~ HoldsToken(c)
         /\ calls[c].callback.code \in Requests
         /\ sent[calls[c].callback.code] # None
<1>1. calls[c] \in Call /\ CallOK(calls[c]) /\ Succeeds(calls[c])
  BY DEF Inv, TypeOK, Succeeds
<1>2. Kept(calls[c].browser, calls[c].stored) /\ calls[c].callback.code = calls[c].stored.state
  BY <1>1 DEF CallOK
<1> QED
  BY <1>1, <1>2 DEF Kept, Call, Stored, HoldsToken, HasUser, Returned

LEMMA AuthenticateStep ==
  ASSUME Inv, Inv', NEW c \in Calls, NEW b \in Browsers, NEW callback \in callbacks,
         Authenticate(c, b, callback)
  PROVE  UNCHANGED Contract!vars
<1> PICK refused : refused = RefusedCallback(callback, stored[b])
  OBVIOUS
<1> PICK new : new = [Idle EXCEPT !.pc       = IF refused = None THEN "exchange" ELSE "returned",
                                  !.browser  = b,
                                  !.callback = callback,
                                  !.stored   = stored[b],
                                  !.result   = refused]
  OBVIOUS
<1>1. /\ calls' = [calls EXCEPT ![c] = new]
      /\ UNCHANGED <<sent, redeemed, session>>
  BY DEF Authenticate
<1>2. /\ new.pc = IF refused = None THEN "exchange" ELSE "returned"
      /\ new.result = refused
  BY DEF Idle
<1>3. callback \in Callback
  BY DEF Inv, TypeOK
<1>4. refused # None => refused.err # "nil"
  BY <1>3, RefusedCallbackLemma
<1>5. calls'[c] = new
  BY <1>1 DEF Inv, TypeOK
<1>6. ~ HoldsToken(c) /\ ~ HoldsToken(c)'
  BY <1>2, <1>4, <1>5 DEF Authenticate, HoldsToken, HasUser, Returned
<1>7. Settled' = redeemed' \ InFlight
  BY <1>1, <1>6, SettledByCall
<1> QED
  BY <1>1, <1>7, Stutter DEF Settled

LEMMA TokenFailedStep ==
  ASSUME Inv, Inv', NEW c \in Calls, TokenFailed(c)
  PROVE  Contract!Next \/ UNCHANGED Contract!vars
<1>0. PICK result \in {OAuthError("token exchange", "invalid_grant"), ErrAuthentication} :
        calls' = [calls EXCEPT ![c].pc = "returned", ![c].result = result]
  BY DEF TokenFailed
<1> PICK new : new = [calls[c] EXCEPT !.pc = "returned", !.result = result]
  OBVIOUS
<1> PICK r : r = calls[c].callback.code
  OBVIOUS
<1>1. /\ calls' = [calls EXCEPT ![c] = new]
      /\ UNCHANGED <<sent, session>>
  BY <1>0 DEF TokenFailed, Inv, TypeOK
<1>2. calls'[c].pc = "returned" /\ calls'[c].result.err # "nil"
  <2>1. new.pc = "returned" /\ new.result = result
    BY DEF Inv, TypeOK, Call
  <2>2. result.err # "nil"
    <3>1. CASE result = OAuthError("token exchange", "invalid_grant")
      BY <3>1 DEF OAuthError, Failed
    <3>2. CASE result = ErrAuthentication
      BY <3>2 DEF ErrAuthentication, Failed
    <3> QED
      BY <3>1, <3>2
  <2>3. calls'[c] = new
    BY <1>1 DEF Inv, TypeOK
  <2> QED
    BY <2>1, <2>2, <2>3
<1>3. ~ HoldsToken(c) /\ ~ HoldsToken(c)'
  BY <1>2, ExchangeFacts DEF TokenFailed, HoldsToken, HasUser, Returned
<1>4. Settled' = redeemed' \ InFlight
  BY <1>1, <1>3, SettledByCall
<1>5. CASE UNCHANGED redeemed
  BY <1>1, <1>4, <1>5, Stutter DEF Settled
<1>6. CASE Redeemable(calls[c]) /\ redeemed' = redeemed \cup {r}
  <2>1. r \in Requests /\ sent[r] # None /\ r \notin redeemed
    BY <1>6, ExchangeFacts DEF TokenFailed, Redeemable
  <2>2. InFlight \subseteq redeemed
    BY InFlightSplit
  <2>3. Settled' = Settled \cup {r} /\ r \notin Settled
    BY <1>4, <1>6, <2>1, <2>2 DEF Settled
  <2> QED
    BY <1>1, <2>1, <2>3, FailStep
<1> QED
  BY <1>5, <1>6 DEF TokenFailed

LEMMA TokenAnsweredStep ==
  ASSUME Inv, Inv', NEW c \in Calls, TokenAnswered(c)
  PROVE  Contract!Next \/ UNCHANGED Contract!vars
<1> PICK r : r = calls[c].callback.code
  OBVIOUS
<1>1. r \in Requests /\ sent[r] # None /\ r \notin redeemed /\ ~ HoldsToken(c)
  BY ExchangeFacts DEF TokenAnswered, Redeemable
<1>2. redeemed' = redeemed \cup {r} /\ UNCHANGED <<sent, session>>
  BY DEF TokenAnswered
<1>3. PICK token \in TokensFor(r) :
        calls' = [calls EXCEPT
                    ![c].pc     = IF RefusedToken(token, calls[c].stored.nonce) = None
                                  THEN "userinfo" ELSE "returned",
                    ![c].token  = token,
                    ![c].result = RefusedToken(token, calls[c].stored.nonce)]
  BY DEF TokenAnswered
<1> PICK refused : refused = RefusedToken(token, calls[c].stored.nonce)
  OBVIOUS
<1> PICK new : new = [calls[c] EXCEPT !.pc     = IF refused = None THEN "userinfo" ELSE "returned",
                                      !.token  = token,
                                      !.result = refused]
  OBVIOUS
<1>4. calls' = [calls EXCEPT ![c] = new] /\ calls'[c] = new
  BY <1>3 DEF Inv, TypeOK
<1>5. /\ new.pc = IF refused = None THEN "userinfo" ELSE "returned"
      /\ new.token = token /\ new.result = refused
  BY DEF Inv, TypeOK, Call
<1>6. token.code = r
  BY <1>3 DEF TokensFor, Token
<1>7. InFlight \subseteq redeemed
  BY InFlightSplit
<1>8. CASE refused = None
  <2>1. HoldsToken(c)'
    BY <1>4, <1>5, <1>8 DEF HoldsToken
  <2>2. Settled' = redeemed' \ (InFlight \cup {new.token.code})
    BY <1>1, <1>4, <2>1, SettledByCall
  <2>3. Settled' = Settled
    BY <1>1, <1>2, <1>5, <1>6, <1>7, <2>2 DEF Settled
  <2> QED
    BY <1>2, <2>3, Stutter
<1>9. CASE refused # None
  <2>1. refused = Failed("ErrAuthentication", "none", "none")
    BY <1>9 DEF RefusedToken, ErrAuthentication
  <2>2. refused.err = "ErrAuthentication"
    BY <2>1 DEF Failed
  <2>3. ~ HoldsToken(c)'
    <3>1. new.pc = "returned" /\ new.result.err = "ErrAuthentication"
      BY <1>5, <1>9, <2>2
    <3> QED
      BY <1>4, <3>1 DEF HoldsToken, HasUser, Returned
  <2>4. Settled' = redeemed' \ InFlight
    BY <1>1, <1>4, <2>3, SettledByCall
  <2>5. Settled' = Settled \cup {r} /\ r \notin Settled
    BY <1>1, <1>2, <1>7, <2>4 DEF Settled
  <2> QED
    BY <1>1, <1>2, <2>5, FailStep
<1> QED
  BY <1>8, <1>9

LEMMA UserInfoReturnedStep ==
  ASSUME Inv, Inv', NEW c \in Calls, UserInfoReturned(c)
  PROVE  Contract!Next \/ UNCHANGED Contract!vars
<1>1. PICK profile \in ProfileClaims \cup {NoClaims} :
        calls' = [calls EXCEPT
                    ![c].pc      = "returned",
                    ![c].profile = profile,
                    ![c].result  = UserOrRefusal(calls[c].token, profile, calls[c].stored)]
  BY DEF UserInfoReturned
<1> PICK result : result = UserOrRefusal(calls[c].token, profile, calls[c].stored)
  OBVIOUS
<1> PICK new : new = [calls[c] EXCEPT !.pc = "returned", !.profile = profile, !.result = result]
  OBVIOUS
<1> PICK r : r = calls[c].token.code
  OBVIOUS
<1>2. calls' = [calls EXCEPT ![c] = new] /\ calls'[c] = new
  BY <1>1 DEF Inv, TypeOK
<1>3. new.pc = "returned" /\ new.token = calls[c].token /\ new.result = result
  BY DEF Inv, TypeOK, Call
<1>4. UNCHANGED <<sent, redeemed, session>> /\ HoldsToken(c)
  BY DEF UserInfoReturned, HoldsToken
<1>5. CASE HoldsToken(c)'
  <2>1. Settled' = redeemed' \ InFlight
    BY <1>2, <1>3, <1>4, <1>5, SettledByCall
  <2> QED
    BY <1>4, <2>1, Stutter DEF Settled
<1>6. CASE ~ HoldsToken(c)'
  <2>1. Settled' = Settled \cup {r}
    BY <1>2, <1>4, <1>6, SettledByCall
  <2>2. r \notin Settled
    BY <1>4, InFlightSplit DEF Settled
  <2>3. /\ calls[c] \in Call /\ CallOK(calls[c]) /\ Succeeds(calls[c])
        /\ calls[c].pc = "userinfo"
    BY DEF UserInfoReturned, Inv, TypeOK, Succeeds
  <2>4. r = calls[c].stored.state /\ Kept(calls[c].browser, calls[c].stored)
    BY <2>3 DEF CallOK
  <2>5. r \in Requests /\ sent[r] # None
    BY <2>3, <2>4 DEF Kept, Call, Stored
  <2> QED
    BY <1>4, <2>1, <2>2, <2>5, FailStep
<1> QED
  BY <1>5, <1>6

LEMMA AppResumesStep ==
  ASSUME Inv, Inv', NEW c \in Calls, AppResumes(c)
  PROVE  Contract!Next \/ UNCHANGED Contract!vars
<1>1. /\ calls' = [calls EXCEPT ![c] = Idle] /\ calls'[c] = Idle
      /\ UNCHANGED <<sent, redeemed>> /\ Returned(c)
  BY DEF AppResumes, Inv, TypeOK, Returned
<1>2. ~ HoldsToken(c)'
  BY <1>1 DEF Idle, HoldsToken, HasUser, Returned
<1>3. CASE HasUser(c)
  <2>1. session' = [session EXCEPT ![calls[c].browser] = UserOf(c)]
    BY <1>3 DEF AppResumes, HasUser, Returned, UserOf
  <2>2. HoldsToken(c) /\ UserOf(c).token = calls[c].token
    BY <1>3, UserOfCall DEF HoldsToken
  <2>3. Settled' = Settled \cup {calls[c].token.code}
    BY <1>1, <1>2, <2>2, SettledByCall
  <2>4. calls[c].token.code \notin Settled
    BY <2>2, InFlightSplit DEF Settled
  <2> QED
    BY <1>1, <1>3, <2>1, <2>2, <2>3, <2>4, SignInStep
<1>4. CASE ~ HasUser(c)
  <2>1. session' = session /\ ~ HoldsToken(c)
    BY <1>1, <1>4 DEF AppResumes, HasUser, HoldsToken, Returned
  <2>2. Settled' = redeemed' \ InFlight
    BY <1>1, <1>2, <2>1, SettledByCall
  <2> QED
    BY <1>1, <2>1, <2>2, Stutter DEF Settled
<1> QED
  BY <1>3, <1>4

LEMMA AuthorizeStep ==
  ASSUME NEW r \in Requests, Authorize(r)
  PROVE  UNCHANGED Contract!vars
<1>1. Settled' = Settled
  BY DEF Authorize, Settled, InFlight, HoldsToken, HasUser, Returned
<1> QED
  BY <1>1, Stutter DEF Authorize

(***************************************************************************)
(* Signing in implements its contract: each request signs in the browser   *)
(* that made it, at most once and to the organization it asked for.        *)
(***************************************************************************)
THEOREM Refinement == Spec => ImplementsContract
<1>1. Init => Contract!Init
  <2> SUFFICES ASSUME Init PROVE Contract!Init
    OBVIOUS
  <2>1. InFlight = {}
    BY DEF Init, InFlight, HoldsToken, HasUser, Returned, Idle
  <2> QED
    BY <2>1 DEF Init, Contract!Init, AskedOf, SessionOf
<1>2. Inv /\ Inv' /\ [Next]_vars => [Contract!Next]_(Contract!vars)
  <2> SUFFICES ASSUME Inv, Inv', [Next]_vars
               PROVE  Contract!Next \/ UNCHANGED Contract!vars
    OBVIOUS
  <2>1. ASSUME NEW b \in Browsers, NEW r \in Requests, StartSignIn(b, r) \/ StartSwitch(b, r)
        PROVE  Contract!Next
    BY <2>1, StartLemma, AskStep
  <2>2. ASSUME NEW r \in Requests, Authorize(r) PROVE UNCHANGED Contract!vars
    BY <2>2, AuthorizeStep
  <2>3. ASSUME NEW c \in Calls, NEW b \in Browsers, NEW callback \in callbacks,
               Authenticate(c, b, callback)
        PROVE  UNCHANGED Contract!vars
    BY <2>3, AuthenticateStep
  <2>4. ASSUME NEW c \in Calls, TokenFailed(c) PROVE Contract!Next \/ UNCHANGED Contract!vars
    BY <2>4, TokenFailedStep
  <2>5. ASSUME NEW c \in Calls, TokenAnswered(c) PROVE Contract!Next \/ UNCHANGED Contract!vars
    BY <2>5, TokenAnsweredStep
  <2>6. ASSUME NEW c \in Calls, UserInfoReturned(c) PROVE Contract!Next \/ UNCHANGED Contract!vars
    BY <2>6, UserInfoReturnedStep
  <2>7. ASSUME NEW c \in Calls, AppResumes(c) PROVE Contract!Next \/ UNCHANGED Contract!vars
    BY <2>7, AppResumesStep
  <2>8. CASE UNCHANGED vars
    <3>1. Settled' = Settled
      BY <2>8 DEF vars, Settled, InFlight, HoldsToken, HasUser, Returned
    <3> QED
      BY <2>8, <3>1, Stutter DEF vars
  <2> QED
    BY <2>1, <2>2, <2>3, <2>4, <2>5, <2>6, <2>7, <2>8 DEF Next
<1> QED
  BY <1>1, <1>2, Invariance, PTL DEF Spec, ImplementsContract, Contract!Spec
=============================================================================
