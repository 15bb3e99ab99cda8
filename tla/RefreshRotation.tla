-------------------------- MODULE RefreshRotation --------------------------
(***************************************************************************)
(* Client.Refresh (auth.go) and the error taxonomy its callers act on      *)
(* (errors.go).  The goroutines of an application share the refresh token  *)
(* of one session.  The application does what the documentation asks of    *)
(* it: it persists the token a refresh returns in place of the one passed  *)
(* in, it ends the session on invalid_grant, and on any other error it     *)
(* keeps what it has and may call again.                                   *)
(*                                                                         *)
(* External: the instance, which rotates the token on every refresh and    *)
(* ends the whole family when it sees a rotated one again; the network,    *)
(* which loses answers; and the oauth2 library, which sends the request    *)
(* once more by itself when the first one failed and it had not learnt, as *)
(* the call began, in which form this instance wants the credentials of    *)
(* the client.                                                             *)
(***************************************************************************)
EXTENDS Integers

CONSTANTS Callers,   \* goroutines calling Refresh
          MaxTokens, \* bound: the last token the instance mints
          Empty,     \* the zero value "" of a Go string
          NoResult

ASSUME MaxTokensAssumption == MaxTokens \in Nat
ASSUME EmptyAssumption == Empty \notin Nat

(* The tokens of the family, in the order they are minted.                 *)
Tokens == 0..MaxTokens

VARIABLES
  current,    \* the token of the family that has not been rotated yet
  family,     \* "live", or what ended it: "reuse" or "revoked"
  styleKnown, \* oauth2.Config.authStyleCache is filled
  held,       \* the refresh token the application has persisted
  calls,      \* per caller: its call of Refresh
  mishaps     \* history: what happened that may cost the session

vars == <<current, family, styleKnown, held, calls, mishaps>>

-----------------------------------------------------------------------------
(* What Refresh returns.                                                   *)

Failed(err, code, status) ==
  [err |-> err, code |-> code, status |-> status, refreshToken |-> Empty]

ErrAuthentication == Failed("ErrAuthentication", "none", 0)

Refreshed(token) ==
  [err |-> "nil", code |-> "none", status |-> 200, refreshToken |-> token]

(* Mutations.                                                              *)
asOAuthErrorFlattened(answer) == ErrAuthentication
asOAuthErrorInventingCode(answer) == Failed("OAuthError", "invalid_grant", answer.status)

(* Only an answer of the token endpoint becomes an OAuthError; a failure   *)
(* that never got one does not.                                            *)
asOAuthError(answer) ==
  IF answer.kind = "error"
  THEN Failed("OAuthError", answer.code, answer.status)
  ELSE ErrAuthentication

(* Mutation.                                                               *)
RateLimitedOnAnyOverload(result) ==
  result.err = "OAuthError" /\ result.status \in {429} \cup 500..599

RateLimited(result) == result.err = "OAuthError" /\ result.status = 429

(* Mutation.                                                               *)
HandBackPresented(presented, answer) ==
  IF answer.kind # "token" THEN asOAuthError(answer)
  ELSE IF answer.idToken = "unverifiable" THEN ErrAuthentication
  ELSE Refreshed(presented)

(* The id_token of an answer is verified before the token is handed back.  *)
HandBack(presented, answer) ==
  IF answer.kind # "token" THEN asOAuthError(answer)
  ELSE IF answer.idToken = "unverifiable" THEN ErrAuthentication
  ELSE Refreshed(answer.refreshToken)

-----------------------------------------------------------------------------
(* States.                                                                 *)

Idle == [pc |-> "idle", presented |-> Empty, probes |-> FALSE, requests |-> 0,
         rotated |-> FALSE, result |-> NoResult]

Init ==
  /\ current = 0
  /\ family = "live"
  /\ styleKnown \in BOOLEAN
  /\ held = 0
  /\ calls = [p \in Callers |-> Idle]
  /\ mishaps = {}

-----------------------------------------------------------------------------
(* The application calls Refresh with the token it holds at that moment.   *)

InFlight(token) == \E p \in Callers : calls[p].pc # "idle" /\ calls[p].presented = token

Refresh(p) ==
  /\ calls[p].pc = "idle"
  /\ IF held = Empty
     THEN calls' = [calls EXCEPT ![p] = [Idle EXCEPT !.pc     = "returned",
                                                     !.result = ErrAuthentication]]
     ELSE calls' = [calls EXCEPT ![p] = [Idle EXCEPT !.pc        = "requesting",
                                                     !.presented = held,
                                                     !.probes    = ~ styleKnown,
                                                     !.requests  = 1]]
  /\ mishaps' = IF held # Empty /\ InFlight(held) THEN mishaps \cup {"overlap"} ELSE mishaps
  /\ UNCHANGED <<current, family, styleKnown, held>>

-----------------------------------------------------------------------------
(* External: the answers the token endpoint and the network can give.      *)

TokenAnswer(token, idToken) ==
  [kind |-> "token", refreshToken |-> token, idToken |-> idToken]
ErrorAnswer(status, code) == [kind |-> "error", status |-> status, code |-> code]
NoAnswer == [kind |-> "none", status |-> 0]

(* The answer was lost, or the instance broke down before or after it did  *)
(* what it was asked.                                                      *)
Broken == {NoAnswer, ErrorAnswer(503, "none")}

(* It answers so without looking at the token.                             *)
Declined == {ErrorAnswer(429, "none"), ErrorAnswer(401, "invalid_client")}

(* What the library makes of an answer: a failure of a call that began     *)
(* before the style was known is followed by a second request, anything    *)
(* else ends the call.                                                     *)
Answered(p, answer, rotated) ==
  LET call == [calls[p] EXCEPT !.rotated = @ \/ rotated] IN
  /\ calls' = [calls EXCEPT ![p] =
       IF answer.kind # "token" /\ call.probes /\ call.requests = 1
       THEN [call EXCEPT !.requests = 2]
       ELSE [call EXCEPT !.pc     = "returned",
                         !.result = HandBack(call.presented, answer)]]
  /\ styleKnown' = (styleKnown \/ answer.kind = "token")

Requesting(p) == calls[p].pc = "requesting"
Current(p)    == family = "live" /\ calls[p].presented = current

Rotated(p) ==
  /\ Requesting(p)
  /\ Current(p)
  /\ current < MaxTokens
  /\ current' = current + 1
  /\ \E answer \in Broken \cup {TokenAnswer(current', idToken) :
                                  idToken \in {"none", "verified", "unverifiable"}} :
       /\ Answered(p, answer, TRUE)
       /\ mishaps' = IF answer.kind = "token" /\ answer.idToken # "unverifiable"
                     THEN mishaps ELSE mishaps \cup {"loss"}
  /\ UNCHANGED <<family, held>>

Refused(p) ==
  /\ Requesting(p)
  /\ ~ Current(p)
  /\ family' = IF family = "live" THEN "reuse" ELSE family
  /\ Answered(p, ErrorAnswer(400, "invalid_grant"), FALSE)
  /\ UNCHANGED <<current, held, mishaps>>

RefusedUnheard(p) ==
  /\ Requesting(p)
  /\ ~ Current(p)
  /\ family' = IF family = "live" THEN "reuse" ELSE family
  /\ \E answer \in Broken : Answered(p, answer, FALSE)
  /\ UNCHANGED <<current, held, mishaps>>

NotProcessed(p) ==
  /\ Requesting(p)
  /\ \E answer \in Broken \cup Declined : Answered(p, answer, FALSE)
  /\ UNCHANGED <<current, family, held, mishaps>>

(* An operator, or the person elsewhere, ends the session.                 *)
EndedElsewhere ==
  /\ family = "live"
  /\ family' = "revoked"
  /\ UNCHANGED <<current, styleKnown, held, calls, mishaps>>

(* External: the application learns of the end otherwise than by Refresh;  *)
(* SignOut says how.                                                       *)
ToldOfTheEnd ==
  /\ family # "live"
  /\ held' = Empty
  /\ UNCHANGED <<current, family, styleKnown, calls, mishaps>>

(* External: the application acts on the result.                           *)
AppResumes(p) ==
  /\ calls[p].pc = "returned"
  /\ held' = IF calls[p].result.err = "nil" THEN calls[p].result.refreshToken
             ELSE IF calls[p].result.code = "invalid_grant" THEN Empty
             ELSE held
  /\ calls' = [calls EXCEPT ![p] = Idle]
  /\ UNCHANGED <<current, family, styleKnown, mishaps>>

CallerNext ==
  \E p \in Callers : \/ Refresh(p)
                     \/ Rotated(p)
                     \/ Refused(p)
                     \/ RefusedUnheard(p)
                     \/ NotProcessed(p)
                     \/ AppResumes(p)

Next == EndedElsewhere \/ ToldOfTheEnd \/ CallerNext

(* The refusal that ends a call, not one the library swallows to ask again. *)
Heard(p) == Refused(p) /\ calls'[p].pc = "returned"

(* The application goes on refreshing and acts on every result, every      *)
(* request ends, and not every refusal is lost on its way for ever.        *)
Fairness ==
  \A p \in Callers : /\ WF_vars(Refresh(p))
                     /\ WF_vars(AppResumes(p))
                     /\ SF_vars(Heard(p))
                     /\ WF_vars(RefusedUnheard(p) \/ NotProcessed(p))

Spec == Init /\ [][Next]_vars /\ Fairness

-----------------------------------------------------------------------------
(* Types.                                                                  *)

Result == [err          : {"nil", "ErrAuthentication", "OAuthError"},
           code         : {"none", "invalid_grant", "invalid_client"},
           status       : {0, 200, 400, 401, 429, 503},
           refreshToken : Tokens \cup {Empty}]

Call == [pc        : {"idle", "requesting", "returned"},
         presented : Tokens \cup {Empty},
         probes    : BOOLEAN,
         requests  : 0..2,
         rotated   : BOOLEAN,
         result    : Result \cup {NoResult}]

ASSUME NoResultAssumption == NoResult \notin Result

TypeOK ==
  /\ current \in Tokens
  /\ family \in {"live", "reuse", "revoked"}
  /\ styleKnown \in BOOLEAN
  /\ held \in Tokens \cup {Empty}
  /\ calls \in [Callers -> Call]
  /\ mishaps \subseteq {"loss", "overlap"}

-----------------------------------------------------------------------------
(* Properties.                                                             *)

Returned(p) == calls[p].pc = "returned"

(* auth.go 300-303: an application that persists what it is given loses    *)
(* its session to the detection of reuse only by a rotated token that      *)
(* never reached it (lost, or dropped with an id_token that failed to      *)
(* verify), or by refreshing one token twice at a time.                    *)
ReuseNeedsAMishap == family = "reuse" => mishaps # {}

(* auth.go 300-303, 319-325: between calls, whatever errors it has seen,   *)
(* the application holds the live token of its family.  Only when a        *)
(* rotated token never reached it (lost on the wire, or dropped with an    *)
(* id_token that failed to verify) it is behind, and then by that one      *)
(* token: it still holds the one that was exchanged for it.                *)
HeldIsCurrent ==
  family = "live" /\ (\A p \in Callers : calls[p].pc = "idle") =>
    IF "loss" \in mishaps THEN held + 1 = current ELSE held = current

(* errors.go 82-84: after RateLimited the same request may be repeated     *)
(* unchanged, because the call has not used up its token; the exception is *)
(* a call whose first request failed otherwise and was sent again.         *)
RateLimitedIsRetryable ==
  \A p \in Callers : Returned(p) /\ calls[p].requests = 1 /\ RateLimited(calls[p].result) =>
    ~ calls[p].rotated

(* errors.go 46-48, 86-88, backchannel.go 118-119: the application takes a *)
(* session for over, by a refresh that says so or by a sign-out that was   *)
(* answered, only when it is: neither an outage nor a wrong client secret  *)
(* signs anyone out, nor makes anyone believe to be.                       *)
SignedOutOnlyWhenOver == held = Empty => family # "live"

(* errors.go 41-48: once the family has ended, by a sign-out too, the      *)
(* application finds out and asks the person to sign in again, for good: a *)
(* token that a refresh brings back late does not keep the session up.     *)
EndIsNoticed == family # "live" ~> [](held = Empty)

-----------------------------------------------------------------------------
(* The inductive invariant: why the properties hold.                       *)

(* p has a token in hand that the application has not persisted yet.       *)
Carries(p) == Returned(p) /\ calls[p].result.err = "nil"

CallOK(call) ==
  /\ call.pc = "requesting" =>
       /\ call.presented # Empty
       /\ call.presented <= current
       /\ call.requests = 1 => ~ call.rotated
  /\ call.pc = "returned" =>
       /\ call.result # NoResult
       /\ call.result.err = "nil" =>
            call.result.refreshToken # Empty /\ call.result.refreshToken <= current
       /\ call.result.code = "invalid_grant" => family # "live"
       /\ call.requests = 1 /\ RateLimited(call.result) => ~ call.rotated

HeldWasMinted == held # Empty => held <= current

(* Where no rotated token was lost, the live one is either persisted or in *)
(* the hands of a single caller, and then no request presents it yet.      *)
LiveTokenIsHeld == held = current /\ \A p \in Callers : ~ Carries(p)
LiveTokenIsCarried ==
  \E p \in Callers :
    /\ Carries(p)
    /\ calls[p].result.refreshToken = current
    /\ calls[p].presented = held
    /\ held # Empty /\ held < current
    /\ \A q \in Callers : calls[q].pc = "requesting" => calls[q].presented # current
    /\ \A q \in Callers \ {p} : ~ Carries(q)

(* Once one was lost, the application is one token behind, nobody brings   *)
(* it another, and the first request that is handled ends the family.      *)
LiveTokenIsLost ==
  /\ held # Empty /\ held + 1 = current
  /\ \A p \in Callers :
       /\ ~ Carries(p)
       /\ calls[p].pc = "requesting" => calls[p].presented # current

LiveTokenIsSomewhere ==
  family = "live" =>
    IF "loss" \in mishaps THEN LiveTokenIsLost ELSE LiveTokenIsHeld \/ LiveTokenIsCarried

(* Without an overlap every call in flight presented a token of its own.   *)
PresentedOnce ==
  "overlap" \notin mishaps =>
    \A p, q \in Callers :
      /\ calls[p].pc # "idle" /\ calls[q].pc # "idle"
      /\ calls[p].presented # Empty /\ calls[p].presented = calls[q].presented
      => p = q

RequestsPresentTheLiveToken ==
  family = "live" /\ mishaps = {} =>
    \A p \in Callers : calls[p].pc = "requesting" => calls[p].presented = current

Inv ==
  /\ TypeOK
  /\ \A p \in Callers : CallOK(calls[p])
  /\ HeldWasMinted
  /\ SignedOutOnlyWhenOver
  /\ ReuseNeedsAMishap
  /\ LiveTokenIsSomewhere
  /\ PresentedOnce
  /\ RequestsPresentTheLiveToken
=============================================================================
