--------------------------- MODULE SignOutProofs ---------------------------
(***************************************************************************)
(* Proofs about RefreshRotation and SignOut, for any number of goroutines  *)
(* that refresh while one signs out and any length of the family.          *)
(***************************************************************************)
EXTENDS SignOut, TLAPS

-----------------------------------------------------------------------------
(* The safety properties of RefreshRotation.                               *)

IdTokens == {"none", "verified", "unverifiable"}

TokenAnswers == {TokenAnswer(token, idToken) : token \in Tokens, idToken \in IdTokens}
ErrorAnswers == Broken \cup Declined \cup {ErrorAnswer(400, "invalid_grant")}

Good(answer) == answer \in TokenAnswers /\ answer.idToken # "unverifiable"

(* What an answer becomes: a token only if it carried one that can be      *)
(* trusted, and an end of the session or a rate limit only if the instance *)
(* said so.                                                                *)
LEMMA HandBackResult ==
  ASSUME NEW presented, NEW answer \in TokenAnswers \cup ErrorAnswers
  PROVE  LET result == HandBack(presented, answer) IN
         /\ result \in Result
         /\ result.err = "nil" <=> Good(answer)
         /\ Good(answer) => result.refreshToken = answer.refreshToken
         /\ result.code = "invalid_grant" => answer = ErrorAnswer(400, "invalid_grant")
         /\ RateLimited(result) => answer = ErrorAnswer(429, "none")
<1> DEFINE result == HandBack(presented, answer)
<1>1. CASE answer \in TokenAnswers
  <2>1. PICK token \in Tokens, idToken \in IdTokens : answer = TokenAnswer(token, idToken)
    BY <1>1 DEF TokenAnswers
  <2>2. CASE idToken = "unverifiable"
    BY <1>1, <2>1, <2>2 DEF HandBack, TokenAnswer, ErrAuthentication, Failed, Good, Result,
       RateLimited
  <2>3. CASE idToken # "unverifiable"
    BY <1>1, <2>1, <2>3 DEF HandBack, TokenAnswer, Refreshed, Good, Result, RateLimited
  <2> QED BY <2>2, <2>3
<1>2. CASE answer \in ErrorAnswers
  <2>1. answer.kind # "token"
    BY <1>2 DEF ErrorAnswers, Broken, Declined, ErrorAnswer, NoAnswer
  <2>2. ~ Good(answer)
    BY <2>1 DEF Good, TokenAnswers, TokenAnswer
  <2>3. CASE answer = NoAnswer
    BY <2>2, <2>3 DEF HandBack, asOAuthError, NoAnswer, ErrAuthentication, Failed, Result,
       RateLimited
  <2>4. CASE answer # NoAnswer
    <3>1. PICK status \in {400, 401, 429, 503}, code \in {"none", "invalid_grant", "invalid_client"} :
            /\ answer = ErrorAnswer(status, code)
            /\ code = "invalid_grant" => status = 400
            /\ status = 429 => code = "none"
      BY <1>2, <2>4 DEF ErrorAnswers, Broken, Declined
    <3>2. result = Failed("OAuthError", code, status)
      BY <3>1 DEF HandBack, asOAuthError, ErrorAnswer
    <3> QED BY <2>2, <3>1, <3>2 DEF Failed, Result, RateLimited
  <2> QED BY <2>3, <2>4
<1> QED BY <1>1, <1>2

(* What an answer changes: the call of p alone, which asks once more or is *)
(* over.                                                                   *)
LEMMA AnsweredEffect ==
  ASSUME calls \in [Callers -> Call],
         NEW p \in Callers, NEW answer \in TokenAnswers \cup ErrorAnswers, NEW rotated \in BOOLEAN,
         Answered(p, answer, rotated)
  PROVE  /\ calls' \in [Callers -> Call]
         /\ \A q \in Callers \ {p} : calls'[q] = calls[q]
         /\ calls'[p].presented = calls[p].presented
         /\ calls'[p].rotated = (calls[p].rotated \/ rotated)
         /\ \/ /\ answer \notin TokenAnswers
               /\ calls'[p].pc = calls[p].pc
               /\ calls'[p].requests = 2
               /\ calls'[p].result = calls[p].result
            \/ /\ calls'[p].pc = "returned"
               /\ calls'[p].requests = calls[p].requests
               /\ calls'[p].result = HandBack(calls[p].presented, answer)
<1> DEFINE call == [calls[p] EXCEPT !.rotated = @ \/ rotated]
           again == [call EXCEPT !.requests = 2]
           over  == [call EXCEPT !.pc = "returned", !.result = HandBack(call.presented, answer)]
<1>1. call \in Call /\ calls[p] \in Call
  BY DEF Call
<1>2. /\ call.presented = calls[p].presented
      /\ call.requests = calls[p].requests
      /\ call.pc = calls[p].pc
      /\ call.result = calls[p].result
      /\ call.rotated = (calls[p].rotated \/ rotated)
  BY <1>1 DEF Call
<1>3. HandBack(call.presented, answer) \in Result
  BY HandBackResult
<1>4. again \in Call /\ over \in Call
  <2> HIDE DEF call
  <2>1. again \in Call
    BY <1>1 DEF Call
  <2>2. over \in Call
    BY <1>1, <1>3 DEF Call
  <2> QED BY <2>1, <2>2
<1>5. answer.kind # "token" => answer \notin TokenAnswers
  BY DEF TokenAnswers, TokenAnswer
<1>6. \/ answer.kind # "token" /\ calls' = [calls EXCEPT ![p] = again]
      \/ calls' = [calls EXCEPT ![p] = over]
  BY DEF Answered
<1>7. CASE answer.kind # "token" /\ calls' = [calls EXCEPT ![p] = again]
  <2>1. calls'[p] = again /\ calls' \in [Callers -> Call]
    BY <1>4, <1>7
  <2>2. \A q \in Callers \ {p} : calls'[q] = calls[q]
    BY <1>7
  <2>3. /\ again.presented = call.presented /\ again.rotated = call.rotated
        /\ again.pc = call.pc /\ again.requests = 2 /\ again.result = call.result
    BY <1>1 DEF Call
  <2> HIDE DEF again, call
  <2> QED BY <1>2, <1>5, <1>7, <2>1, <2>2, <2>3
<1>8. CASE calls' = [calls EXCEPT ![p] = over]
  <2>1. calls'[p] = over /\ calls' \in [Callers -> Call]
    BY <1>4, <1>8
  <2>2. \A q \in Callers \ {p} : calls'[q] = calls[q]
    BY <1>8
  <2>3. /\ over.presented = call.presented /\ over.rotated = call.rotated
        /\ over.pc = "returned" /\ over.requests = call.requests
        /\ over.result = HandBack(call.presented, answer)
    BY <1>1 DEF Call
  <2> HIDE DEF over, call
  <2> QED BY <1>2, <2>1, <2>2, <2>3
<1> QED BY <1>6, <1>7, <1>8

-----------------------------------------------------------------------------
(* The four things that can become of a request, as one.                   *)

RequestStep(p, answer, rotated) ==
  /\ p \in Callers
  /\ answer \in TokenAnswers \cup ErrorAnswers
  /\ rotated \in BOOLEAN
  /\ Requesting(p)
  /\ Answered(p, answer, rotated)
  /\ held' = held
  /\ \/ (* Rotated *)
        /\ rotated /\ Current(p)
        /\ current' = current + 1 /\ current' \in Tokens
        /\ family' = family
        /\ answer \in TokenAnswers \cup Broken
        /\ answer \in TokenAnswers => answer.refreshToken = current'
        /\ mishaps' = IF Good(answer) THEN mishaps ELSE mishaps \cup {"loss"}
     \/ (* Refused, RefusedUnheard *)
        /\ ~ rotated /\ ~ Current(p)
        /\ current' = current
        /\ family' = IF family = "live" THEN "reuse" ELSE family
        /\ answer \in ErrorAnswers
        /\ mishaps' = mishaps
     \/ (* NotProcessed *)
        /\ ~ rotated
        /\ current' = current
        /\ family' = family
        /\ answer \in Broken \cup Declined
        /\ mishaps' = mishaps

LEMMA RequestSteps ==
  ASSUME TypeOK, NEW p \in Callers,
         Rotated(p) \/ Refused(p) \/ RefusedUnheard(p) \/ NotProcessed(p)
  PROVE  \E answer, rotated : RequestStep(p, answer, rotated)
<1>1. CASE Rotated(p)
  <2>1. current' = current + 1 /\ current' \in Tokens
    BY <1>1, MaxTokensAssumption DEF Rotated, TypeOK, Tokens
  <2>2. PICK answer \in Broken \cup {TokenAnswer(current', idToken) : idToken \in IdTokens} :
          /\ Answered(p, answer, TRUE)
          /\ mishaps' = IF answer.kind = "token" /\ answer.idToken # "unverifiable"
                        THEN mishaps ELSE mishaps \cup {"loss"}
    BY <1>1 DEF Rotated, IdTokens
  <2>3. /\ answer \in TokenAnswers \cup Broken
        /\ answer \in TokenAnswers => answer.refreshToken = current'
        /\ answer.kind = "token" <=> answer \in TokenAnswers
    BY <2>1 DEF TokenAnswers, TokenAnswer, Broken, NoAnswer, ErrorAnswer
  <2>4. RequestStep(p, answer, TRUE)
    BY <1>1, <2>1, <2>2, <2>3 DEF RequestStep, Rotated, Good, ErrorAnswers
  <2> QED BY <2>4
<1>2. CASE Refused(p)
  <2>1. RequestStep(p, ErrorAnswer(400, "invalid_grant"), FALSE)
    BY <1>2 DEF RequestStep, Refused, ErrorAnswers
  <2> QED BY <2>1
<1>3. CASE RefusedUnheard(p)
  <2>1. PICK answer \in Broken : Answered(p, answer, FALSE)
    BY <1>3 DEF RefusedUnheard
  <2>2. RequestStep(p, answer, FALSE)
    BY <1>3, <2>1 DEF RequestStep, RefusedUnheard, ErrorAnswers
  <2> QED BY <2>2
<1>4. CASE NotProcessed(p)
  <2>1. PICK answer \in Broken \cup Declined : Answered(p, answer, FALSE)
    BY <1>4 DEF NotProcessed
  <2>2. RequestStep(p, answer, FALSE)
    BY <1>4, <2>1 DEF RequestStep, NotProcessed, ErrorAnswers
  <2> QED BY <2>2
<1> QED BY <1>1, <1>2, <1>3, <1>4

-----------------------------------------------------------------------------
(* The invariant is inductive.                                             *)

LEMMA InitInv == Init => Inv
<1> SUFFICES ASSUME Init PROVE Inv
  OBVIOUS
<1>1. TypeOK
  BY MaxTokensAssumption DEF Init, TypeOK, Tokens, Idle, Call
<1> QED
  BY <1>1, EmptyAssumption DEF Init, Inv, Idle, CallOK, SignedOutOnlyWhenOver, ReuseNeedsAMishap,
     LiveTokenIsSomewhere, LiveTokenIsHeld, Carries, Returned, PresentedOnce,
     RequestsPresentTheLiveToken, HeldWasMinted

LEMMA RequestPreservesInv ==
  ASSUME Inv, NEW p, NEW answer, NEW rotated, RequestStep(p, answer, rotated)
  PROVE  Inv'
<1> USE DEF Inv
<1> DEFINE result == HandBack(calls[p].presented, answer)
<1>0. /\ p \in Callers /\ calls[p].pc = "requesting" /\ calls[p] \in Call
      /\ calls \in [Callers -> Call]
      /\ held' = held /\ held \in Tokens \cup {Empty}
      /\ current \in Nat
  BY MaxTokensAssumption DEF RequestStep, TypeOK, Requesting, Tokens
<1>1. /\ result \in Result
      /\ result.err = "nil" <=> Good(answer)
      /\ Good(answer) => result.refreshToken = answer.refreshToken
      /\ result.code = "invalid_grant" => answer = ErrorAnswer(400, "invalid_grant")
      /\ RateLimited(result) => answer = ErrorAnswer(429, "none")
  BY HandBackResult DEF RequestStep
<1>2. /\ calls' \in [Callers -> Call]
      /\ \A q \in Callers \ {p} : calls'[q] = calls[q]
      /\ calls'[p].presented = calls[p].presented
      /\ calls'[p].rotated = (calls[p].rotated \/ rotated)
      /\ \/ /\ answer \notin TokenAnswers
            /\ calls'[p].pc = "requesting"
            /\ calls'[p].requests = 2
            /\ calls'[p].result = calls[p].result
         \/ /\ calls'[p].pc = "returned"
            /\ calls'[p].requests = calls[p].requests
            /\ calls'[p].result = result
  BY <1>0, AnsweredEffect DEF RequestStep
<1>3. /\ current <= current'
      /\ Good(answer) => answer.refreshToken = current'
      /\ current' \in Tokens
      /\ family' \in {"live", "reuse", "revoked"}
      /\ family' = "live" => family = "live"
      /\ mishaps \subseteq mishaps' /\ mishaps' \subseteq {"loss", "overlap"}
      /\ "overlap" \in mishaps' => "overlap" \in mishaps
  <2>1. Good(answer) => answer \in TokenAnswers /\ answer \notin ErrorAnswers
    BY DEF Good, TokenAnswers, TokenAnswer, ErrorAnswers, Broken, Declined, ErrorAnswer, NoAnswer
  <2>2. Good(answer) => answer.refreshToken = current'
    BY <2>1 DEF RequestStep, ErrorAnswers
  <2>3. current <= current' /\ current' \in Tokens
    BY <1>0 DEF RequestStep, TypeOK
  <2>4. /\ family' \in {"live", "reuse", "revoked"}
        /\ family' = "live" => family = "live"
    BY DEF RequestStep, TypeOK
  <2>5. mishaps' \in {mishaps, mishaps \cup {"loss"}}
    BY DEF RequestStep
  <2> QED BY <2>2, <2>3, <2>4, <2>5 DEF TypeOK
<1>4. styleKnown' \in BOOLEAN
  BY DEF RequestStep, Answered, TypeOK
<1>5. Empty \notin Tokens
  BY EmptyAssumption, MaxTokensAssumption DEF Tokens
<1>6. TypeOK'
  BY <1>0, <1>2, <1>3, <1>4 DEF TypeOK
<1>7. \A q \in Callers : CallOK(calls[q])'
  <2> SUFFICES ASSUME NEW q \in Callers PROVE CallOK(calls[q])'
    OBVIOUS
  <2>1. CASE q # p
    <3>1. calls'[q] = calls[q] /\ CallOK(calls[q]) /\ calls[q] \in Call
      BY <1>0, <1>2, <2>1
    <3>2. /\ calls[q].presented # Empty => calls[q].presented \in Nat
          /\ calls[q].result \in Result /\ calls[q].result.refreshToken # Empty =>
               calls[q].result.refreshToken \in Nat
      BY <3>1, MaxTokensAssumption DEF Call, Tokens, Result
    <3> QED BY <1>0, <1>3, <3>1, <3>2, MaxTokensAssumption DEF CallOK, Tokens, RateLimited, Call
  <2>2. CASE q = p
    <3>1. /\ calls[p].presented # Empty /\ calls[p].presented <= current
          /\ calls[p].presented \in Nat
          /\ calls[p].requests = 1 => ~ calls[p].rotated
      BY <1>0, MaxTokensAssumption DEF CallOK, Call, Tokens
    <3>2. calls'[p].presented <= current'
      BY <1>0, <1>2, <1>3, <3>1, MaxTokensAssumption DEF Tokens
    <3>3. result.code = "invalid_grant" => family' # "live"
      BY <1>1 DEF RequestStep, ErrorAnswer, Broken, Declined, NoAnswer, TokenAnswers, TokenAnswer
    <3>4. RateLimited(result) => ~ rotated
      BY <1>1 DEF RequestStep, ErrorAnswer, Broken, NoAnswer, TokenAnswers, TokenAnswer
    <3>5. /\ result # NoResult
          /\ result.err = "nil" => result.refreshToken = current'
          /\ current' # Empty /\ current' <= current'
      BY <1>1, <1>3, <1>5, NoResultAssumption, MaxTokensAssumption DEF Tokens
    <3>6. calls'[p].pc # "requesting" => calls'[p].result = result
      BY <1>2
    <3>7. CASE calls'[p].pc = "requesting"
      BY <1>2, <2>2, <3>1, <3>2, <3>7 DEF CallOK
    <3>8. CASE calls'[p].pc = "returned"
      <4>1. /\ calls'[p].result = result
            /\ calls'[p].requests = 1 => calls[p].requests = 1
        BY <1>2, <3>6, <3>8
      <4> HIDE DEF result
      <4>2. RateLimited(calls'[p].result) => ~ rotated
        BY <3>4, <4>1
      <4> QED BY <1>2, <2>2, <3>1, <3>3, <3>5, <3>8, <4>1, <4>2 DEF CallOK, RateLimited
    <3> QED BY <1>2, <3>7, <3>8
  <2> QED BY <2>1, <2>2
<1>8. SignedOutOnlyWhenOver'
  BY <1>0, <1>3 DEF SignedOutOnlyWhenOver
<1>14. HeldWasMinted'
  BY <1>0, <1>3, MaxTokensAssumption DEF HeldWasMinted, Tokens
<1>9. Current(p) \/ family # "live" \/ mishaps # {}
  BY <1>0 DEF RequestsPresentTheLiveToken, Current
<1>10. ReuseNeedsAMishap'
  BY <1>3, <1>9 DEF RequestStep, ReuseNeedsAMishap
<1>11. PresentedOnce'
  <2>1. \A q \in Callers : /\ calls'[q].presented = calls[q].presented
                           /\ calls'[q].pc # "idle" => calls[q].pc # "idle"
    BY <1>0, <1>2
  <2> QED BY <1>3, <2>1 DEF PresentedOnce
<1>12. RequestsPresentTheLiveToken'
  <2> SUFFICES ASSUME family' = "live", mishaps' = {},
                      NEW q \in Callers, calls'[q].pc = "requesting"
               PROVE  calls'[q].presented = current'
    BY DEF RequestsPresentTheLiveToken
  <2>1. family = "live" /\ mishaps = {}
    BY <1>3
  <2>2. calls'[q].presented = calls[q].presented /\ calls[q].pc = "requesting"
    BY <1>0, <1>2
  <2>3. calls[q].presented = current /\ calls[q].presented # Empty
    BY <1>0, <2>1, <2>2 DEF RequestsPresentTheLiveToken, CallOK
  <2>4. CASE current' = current
    BY <2>2, <2>3, <2>4
  <2>5. CASE current' # current
    <3>1. Current(p) /\ Good(answer)
      BY <2>5 DEF RequestStep
    <3>2. calls'[p].pc = "returned"
      BY <1>2, <3>1 DEF Good
    <3>3. q = p
      BY <1>0, <2>1, <2>2, <2>3, <3>1 DEF PresentedOnce, Current
    <3> QED BY <3>2, <3>3
  <2> QED BY <2>4, <2>5
<1>13. ASSUME family' = "live", "loss" \notin mishaps'
       PROVE  LiveTokenIsHeld' \/ LiveTokenIsCarried'
  <2> USE <1>13
  <2>1. family = "live" /\ "loss" \notin mishaps
    BY <1>3
  <2>2. LiveTokenIsHeld \/ LiveTokenIsCarried
    BY <2>1 DEF LiveTokenIsSomewhere
  <2>3. \A q \in Callers \ {p} : Carries(q)' <=> Carries(q)
    BY <1>2 DEF Carries, Returned
  <2>4. CASE current' = current
    <3>1. ~ Good(answer)
      BY <1>0, <1>3, <2>4 DEF RequestStep, Good, TokenAnswers, TokenAnswer, ErrorAnswers, Broken,
         Declined, ErrorAnswer, NoAnswer
    <3>2. ~ Carries(p) /\ ~ Carries(p)'
      BY <1>0, <1>1, <1>2, <3>1 DEF Carries, Returned
    <3>3. CASE LiveTokenIsHeld
      BY <1>0, <2>3, <2>4, <3>2, <3>3 DEF LiveTokenIsHeld
    <3>4. CASE LiveTokenIsCarried
      <4>1. PICK q \in Callers :
              /\ Carries(q)
              /\ calls[q].result.refreshToken = current
              /\ calls[q].presented = held
              /\ held # Empty /\ held < current
              /\ \A c \in Callers : calls[c].pc = "requesting" => calls[c].presented # current
              /\ \A c \in Callers \ {q} : ~ Carries(c)
        BY <3>4 DEF LiveTokenIsCarried
      <4>2. q # p /\ calls'[q] = calls[q]
        BY <1>2, <3>2, <4>1
      <4>3. \A c \in Callers : calls'[c].pc = "requesting" => calls'[c].presented # current'
        BY <1>0, <1>2, <2>4, <4>1
      <4>4. \A c \in Callers \ {q} : ~ Carries(c)'
        BY <2>3, <3>2, <4>1
      <4> QED BY <1>0, <2>3, <2>4, <4>1, <4>2, <4>3, <4>4 DEF LiveTokenIsCarried
    <3> QED BY <2>2, <3>3, <3>4
  <2>5. CASE current' # current
    <3>1. /\ Current(p) /\ Good(answer)
          /\ current' = current + 1
      BY <2>5 DEF RequestStep
    <3>2. LiveTokenIsHeld
      BY <1>0, <2>2, <3>1 DEF LiveTokenIsCarried, Current
    <3>3. Carries(p)' /\ calls'[p].result.refreshToken = current'
      BY <1>1, <1>2, <1>3, <3>1 DEF Carries, Returned, Good
    <3>4. calls'[p].presented = held' /\ held' # Empty /\ held' < current'
      BY <1>0, <1>2, <1>5, <3>1, <3>2 DEF LiveTokenIsHeld, Current, TypeOK
    <3>5. \A c \in Callers : calls'[c].pc = "requesting" => calls'[c].presented # current'
      <4> SUFFICES ASSUME NEW c \in Callers, calls'[c].pc = "requesting"
                   PROVE  calls'[c].presented # current'
        OBVIOUS
      <4>1. c # p /\ calls'[c] = calls[c]
        BY <1>2, <3>3 DEF Carries, Returned
      <4>2. calls[c].presented \in Nat /\ calls[c].presented <= current
        BY <1>0, <4>1, MaxTokensAssumption DEF CallOK, Call, Tokens
      <4> QED BY <1>0, <3>1, <4>1, <4>2
    <3>6. \A c \in Callers \ {p} : ~ Carries(c)'
      BY <2>3, <3>2 DEF LiveTokenIsHeld
    <3> QED BY <1>0, <3>3, <3>4, <3>5, <3>6 DEF LiveTokenIsCarried
  <2> QED BY <2>4, <2>5
<1>15. ASSUME family' = "live", "loss" \in mishaps'
       PROVE  LiveTokenIsLost'
  <2>1. family = "live"
    BY <1>3, <1>15
  <2>2. \A q \in Callers \ {p} : Carries(q)' <=> Carries(q)
    BY <1>2 DEF Carries, Returned
  <2>3. \A q \in Callers : calls'[q].pc = "requesting" =>
          /\ calls[q].pc = "requesting" /\ calls'[q].presented = calls[q].presented
          /\ calls[q].presented \in Nat /\ calls[q].presented <= current
    BY <1>0, <1>2, MaxTokensAssumption DEF CallOK, Call, Tokens
  <2>4. Empty \notin Nat
    BY EmptyAssumption
  <2>5. CASE "loss" \in mishaps
    <3>1. LiveTokenIsLost
      BY <2>1, <2>5 DEF LiveTokenIsSomewhere
    <3>2. ~ Current(p)
      BY <1>0, <3>1 DEF LiveTokenIsLost, Current
    <3>3. current' = current /\ answer \in ErrorAnswers
      BY <3>2 DEF RequestStep, ErrorAnswers
    <3>4. ~ Carries(p)'
      <4>1. answer \notin TokenAnswers
        BY <3>3 DEF TokenAnswers, TokenAnswer, ErrorAnswers, Broken, Declined, ErrorAnswer, NoAnswer
      <4> QED BY <1>1, <1>2, <4>1 DEF Carries, Returned, Good
    <3> QED BY <1>0, <2>2, <2>3, <3>1, <3>3, <3>4 DEF LiveTokenIsLost
  <2>6. CASE "loss" \notin mishaps
    <3>1. Current(p) /\ current' = current + 1 /\ ~ Good(answer)
      BY <1>15, <2>6 DEF RequestStep
    <3>2. LiveTokenIsHeld
      BY <1>0, <2>1, <2>6, <3>1 DEF LiveTokenIsSomewhere, LiveTokenIsCarried, Current
    <3>3. ~ Carries(p)'
      BY <1>1, <1>2, <3>1 DEF Carries, Returned, Good
    <3>4. held' = current /\ held' # Empty
      BY <1>0, <2>4, <3>2 DEF LiveTokenIsHeld
    <3>5. \A q \in Callers : calls'[q].pc = "requesting" => calls'[q].presented # current'
      BY <1>0, <2>3, <3>1
    <3> QED BY <1>0, <2>2, <3>1, <3>2, <3>3, <3>4, <3>5 DEF LiveTokenIsLost, LiveTokenIsHeld
  <2> QED BY <2>5, <2>6
<1>16. LiveTokenIsSomewhere'
  BY <1>13, <1>15 DEF LiveTokenIsSomewhere
<1> QED BY <1>6, <1>7, <1>8, <1>10, <1>11, <1>12, <1>14, <1>16

LEMMA IdleCall == Idle \in Call /\ Idle.presented = Empty /\ Idle.rotated = FALSE
BY DEF Idle, Call

LEMMA RefreshPreservesInv ==
  ASSUME Inv, NEW p \in Callers, Refresh(p)
  PROVE  Inv'
<1> USE DEF Inv
<1> DEFINE started == [Idle EXCEPT !.pc = "requesting", !.presented = held,
                              !.probes = ~ styleKnown, !.requests = 1]
           refused == [Idle EXCEPT !.pc = "returned", !.result = ErrAuthentication]
<1>0. /\ calls[p].pc = "idle" /\ calls \in [Callers -> Call]
      /\ held \in Tokens \cup {Empty} /\ Empty \notin Tokens
      /\ current \in Nat /\ Tokens \subseteq Nat
      /\ current' = current /\ family' = family /\ held' = held /\ styleKnown' = styleKnown
  BY EmptyAssumption, MaxTokensAssumption DEF Refresh, TypeOK, Tokens
<1>1. /\ started \in Call /\ started.pc = "requesting"
      /\ started.presented = held /\ ~ started.rotated
  <2>1. started \in Call
    <3>1. (~ styleKnown) \in BOOLEAN
      OBVIOUS
    <3> QED BY <1>0, <3>1, IdleCall, 1 \in 0..2 DEF Call
  <2>2. started.pc = "requesting" /\ started.presented = held
    BY IdleCall DEF Call
  <2>3. started.rotated = Idle.rotated
    BY IdleCall DEF Call
  <2> HIDE DEF started
  <2> QED BY <2>1, <2>2, <2>3, IdleCall
<1>2. /\ refused \in Call /\ refused.pc = "returned" /\ refused.presented = Empty
      /\ refused.result = ErrAuthentication /\ ErrAuthentication \in Result
  <2>2. ErrAuthentication \in Result
    BY DEF ErrAuthentication, Failed, Result
  <2> QED BY <2>2, IdleCall DEF Call
<1>3. \/ /\ held # Empty /\ calls' = [calls EXCEPT ![p] = started]
         /\ mishaps' = IF InFlight(held) THEN mishaps \cup {"overlap"} ELSE mishaps
      \/ /\ held = Empty /\ calls' = [calls EXCEPT ![p] = refused]
         /\ mishaps' = mishaps
  BY DEF Refresh
<1> HIDE DEF started, refused
<1>4. \/ held # Empty /\ calls'[p] = started
      \/ held = Empty /\ calls'[p] = refused
  BY <1>0, <1>3
<1>5. \A q \in Callers \ {p} : calls'[q] = calls[q]
  BY <1>0, <1>3
<1>6. mishaps \subseteq mishaps' /\ mishaps' \subseteq {"loss", "overlap"}
      /\ ("loss" \in mishaps' => "loss" \in mishaps)
  BY <1>3 DEF TypeOK
<1>7. TypeOK'
  BY <1>0, <1>1, <1>2, <1>3, <1>6 DEF TypeOK
<1>8. ~ Carries(p) /\ ~ Carries(p)' /\ \A q \in Callers \ {p} : Carries(q)' <=> Carries(q)
  BY <1>0, <1>1, <1>2, <1>4, <1>5 DEF Carries, Returned, ErrAuthentication, Failed
<1>9. \A q \in Callers : CallOK(calls[q])'
  <2> SUFFICES ASSUME NEW q \in Callers PROVE CallOK(calls[q])'
    OBVIOUS
  <2>1. CASE q # p
    BY <1>0, <1>5, <2>1 DEF CallOK
  <2>2. CASE q = p /\ held # Empty
    BY <1>0, <1>1, <1>4, <2>2 DEF CallOK, HeldWasMinted
  <2>3. CASE q = p /\ held = Empty
    <3>1. ErrAuthentication # NoResult /\ ~ RateLimited(ErrAuthentication)
          /\ ErrAuthentication.err # "nil" /\ ErrAuthentication.code # "invalid_grant"
      BY <1>2, NoResultAssumption DEF ErrAuthentication, Failed, RateLimited
    <3> QED BY <1>2, <1>4, <2>3, <3>1 DEF CallOK
  <2> QED BY <2>1, <2>2, <2>3
<1>10. HeldWasMinted' /\ SignedOutOnlyWhenOver' /\ ReuseNeedsAMishap'
  BY <1>0, <1>6 DEF HeldWasMinted, SignedOutOnlyWhenOver, ReuseNeedsAMishap
<1>11. ASSUME family' = "live", "loss" \notin mishaps'
       PROVE  LiveTokenIsHeld' \/ LiveTokenIsCarried'
  <2> USE <1>11
  <2>1. LiveTokenIsHeld \/ LiveTokenIsCarried
    BY <1>0, <1>6 DEF LiveTokenIsSomewhere
  <2>2. CASE LiveTokenIsHeld
    BY <1>0, <1>8, <2>2 DEF LiveTokenIsHeld
  <2>3. CASE LiveTokenIsCarried
    <3>1. PICK q \in Callers :
            /\ Carries(q)
            /\ calls[q].result.refreshToken = current
            /\ calls[q].presented = held
            /\ held # Empty /\ held < current
            /\ \A c \in Callers : calls[c].pc = "requesting" => calls[c].presented # current
            /\ \A c \in Callers \ {q} : ~ Carries(c)
      BY <2>3 DEF LiveTokenIsCarried
    <3>2. q # p /\ calls'[q] = calls[q]
      BY <1>5, <1>8, <3>1
    <3>3. \A c \in Callers : calls'[c].pc = "requesting" => calls'[c].presented # current'
      BY <1>0, <1>1, <1>4, <1>5, <3>1
    <3>4. \A c \in Callers \ {q} : ~ Carries(c)'
      BY <1>8, <3>1
    <3> QED BY <1>0, <1>8, <3>1, <3>2, <3>3, <3>4 DEF LiveTokenIsCarried
  <2> QED BY <2>1, <2>2, <2>3
<1>12. PresentedOnce'
  <2> SUFFICES ASSUME "overlap" \notin mishaps',
                      NEW c \in Callers, NEW d \in Callers,
                      calls'[c].pc # "idle", calls'[d].pc # "idle",
                      calls'[c].presented # Empty, calls'[c].presented = calls'[d].presented
               PROVE  c = d
    BY DEF PresentedOnce
  <2>1. "overlap" \notin mishaps /\ (held # Empty => ~ InFlight(held))
    BY <1>3
  <2>2. \A q \in Callers : calls[q].pc # "idle" => held = Empty \/ calls[q].presented # held
    BY <2>1 DEF InFlight
  <2>3. calls'[p].presented = held
    BY <1>1, <1>2, <1>4
  <2> QED BY <1>5, <2>1, <2>2, <2>3 DEF PresentedOnce
<1>13. RequestsPresentTheLiveToken'
  <2> SUFFICES ASSUME family' = "live", mishaps' = {},
                      NEW q \in Callers, calls'[q].pc = "requesting"
               PROVE  calls'[q].presented = current'
    BY DEF RequestsPresentTheLiveToken
  <2>1. family = "live" /\ mishaps = {} /\ "loss" \notin mishaps
    BY <1>0, <1>6
  <2>2. CASE q # p
    BY <1>0, <1>5, <2>1, <2>2 DEF RequestsPresentTheLiveToken
  <2>3. CASE q = p
    <3>1. held # Empty /\ calls'[p] = started /\ ~ InFlight(held)
      <4>1. held # Empty /\ calls'[p] = started
        BY <1>2, <1>4, <2>3
      <4> QED BY <1>3, <4>1
    <3>2. ~ LiveTokenIsCarried
      BY <3>1 DEF LiveTokenIsCarried, InFlight, Carries, Returned
    <3>3. held = current
      BY <2>1, <3>2 DEF LiveTokenIsSomewhere, LiveTokenIsHeld
    <3> QED BY <1>0, <1>1, <2>3, <3>1, <3>3
  <2> QED BY <2>2, <2>3
<1>14. ASSUME family' = "live", "loss" \in mishaps'
       PROVE  LiveTokenIsLost'
  <2>1. LiveTokenIsLost
    BY <1>0, <1>6, <1>14 DEF LiveTokenIsSomewhere
  <2>2. held # Empty /\ held \in Nat /\ held # current
    BY <1>0, <2>1 DEF LiveTokenIsLost
  <2>3. calls'[p].presented # current'
    BY <1>0, <1>1, <1>4, <2>2
  <2> QED BY <1>0, <1>5, <1>8, <2>1, <2>3 DEF LiveTokenIsLost
<1>15. LiveTokenIsSomewhere'
  BY <1>11, <1>14 DEF LiveTokenIsSomewhere
<1> QED BY <1>7, <1>9, <1>10, <1>12, <1>13, <1>15

LEMMA AppResumesPreservesInv ==
  ASSUME Inv, NEW p \in Callers, AppResumes(p)
  PROVE  Inv'
<1> USE DEF Inv
<1>0. /\ calls[p].pc = "returned" /\ calls[p] \in Call /\ calls \in [Callers -> Call]
      /\ calls[p].result \in Result
      /\ held \in Tokens \cup {Empty} /\ Empty \notin Tokens
      /\ current \in Nat /\ Tokens \subseteq Nat
      /\ current' = current /\ family' = family /\ styleKnown' = styleKnown
      /\ mishaps' = mishaps
  BY EmptyAssumption, MaxTokensAssumption DEF AppResumes, TypeOK, Tokens, Returned, CallOK, Call
<1>1. Idle \in Call /\ Idle.pc = "idle"
  BY DEF Idle, Call
<1>2. calls'[p] = Idle /\ \A q \in Callers \ {p} : calls'[q] = calls[q]
  BY <1>0 DEF AppResumes
<1>3. \/ Carries(p) /\ held' = calls[p].result.refreshToken
      \/ ~ Carries(p) /\ calls[p].result.code = "invalid_grant" /\ held' = Empty
      \/ ~ Carries(p) /\ held' = held
  <2>1. CASE calls[p].result.err = "nil"
    BY <1>0, <2>1 DEF AppResumes, Carries, Returned
  <2>2. CASE calls[p].result.err # "nil" /\ calls[p].result.code = "invalid_grant"
    BY <1>0, <2>2 DEF AppResumes, Carries, Returned
  <2>3. CASE calls[p].result.err # "nil" /\ calls[p].result.code # "invalid_grant"
    BY <1>0, <2>3 DEF AppResumes, Carries, Returned
  <2> QED BY <2>1, <2>2, <2>3
<1>4. Carries(p) => calls[p].result.refreshToken \in Tokens /\ calls[p].result.refreshToken <= current
  BY <1>0 DEF Carries, CallOK, Result
<1>5. calls[p].result.code = "invalid_grant" => family # "live"
  BY <1>0 DEF CallOK, Returned
<1>6. TypeOK'
  BY <1>0, <1>1, <1>3, <1>4 DEF TypeOK, AppResumes
<1>7. ~ Carries(p)' /\ \A q \in Callers \ {p} : Carries(q)' <=> Carries(q)
  BY <1>1, <1>2 DEF Carries, Returned
<1>8. \A q \in Callers : CallOK(calls[q])'
  BY <1>0, <1>1, <1>2 DEF CallOK
<1>9. HeldWasMinted' /\ SignedOutOnlyWhenOver' /\ ReuseNeedsAMishap'
  BY <1>0, <1>3, <1>4, <1>5 DEF HeldWasMinted, SignedOutOnlyWhenOver, ReuseNeedsAMishap
<1>10. ASSUME family' = "live", "loss" \notin mishaps'
       PROVE  LiveTokenIsHeld' \/ LiveTokenIsCarried'
  <2> USE <1>10
  <2>1. LiveTokenIsHeld \/ LiveTokenIsCarried
    BY <1>0 DEF LiveTokenIsSomewhere
  <2>2. CASE Carries(p)
    <3>1. calls[p].result.refreshToken = current /\ \A q \in Callers \ {p} : ~ Carries(q)
      BY <2>1, <2>2 DEF LiveTokenIsHeld, LiveTokenIsCarried
    <3> QED BY <1>0, <1>3, <1>7, <2>2, <3>1 DEF LiveTokenIsHeld
  <2>3. CASE ~ Carries(p)
    <3>1. held' = held
      BY <1>0, <1>3, <1>5, <2>3
    <3>2. CASE LiveTokenIsHeld
      BY <1>0, <1>7, <3>1, <3>2 DEF LiveTokenIsHeld
    <3>3. CASE LiveTokenIsCarried
      <4>1. PICK q \in Callers :
              /\ Carries(q)
              /\ calls[q].result.refreshToken = current
              /\ calls[q].presented = held
              /\ held # Empty /\ held < current
              /\ \A c \in Callers : calls[c].pc = "requesting" => calls[c].presented # current
              /\ \A c \in Callers \ {q} : ~ Carries(c)
        BY <3>3 DEF LiveTokenIsCarried
      <4>2. q # p /\ calls'[q] = calls[q]
        BY <1>2, <2>3, <4>1
      <4>3. \A c \in Callers : calls'[c].pc = "requesting" => calls'[c].presented # current'
        BY <1>0, <1>1, <1>2, <4>1
      <4>4. \A c \in Callers \ {q} : ~ Carries(c)'
        BY <1>7, <4>1
      <4> QED BY <1>0, <1>7, <3>1, <4>1, <4>2, <4>3, <4>4 DEF LiveTokenIsCarried
    <3> QED BY <2>1, <3>2, <3>3
  <2> QED BY <2>2, <2>3
<1>11. PresentedOnce'
  BY <1>0, <1>1, <1>2 DEF PresentedOnce
<1>12. RequestsPresentTheLiveToken'
  BY <1>0, <1>1, <1>2 DEF RequestsPresentTheLiveToken
<1>13. ASSUME family' = "live", "loss" \in mishaps'
       PROVE  LiveTokenIsLost'
  <2>1. LiveTokenIsLost
    BY <1>0, <1>13 DEF LiveTokenIsSomewhere
  <2>2. held' = held
    BY <1>0, <1>3, <1>5, <1>13, <2>1 DEF LiveTokenIsLost
  <2> QED BY <1>0, <1>1, <1>2, <1>7, <2>1, <2>2 DEF LiveTokenIsLost
<1>14. LiveTokenIsSomewhere'
  BY <1>10, <1>13 DEF LiveTokenIsSomewhere
<1> QED BY <1>6, <1>8, <1>9, <1>11, <1>12, <1>14

LEMMA EndPreservesInv == Inv /\ EndedElsewhere => Inv'
BY DEF Inv, EndedElsewhere, TypeOK, CallOK, HeldWasMinted, SignedOutOnlyWhenOver,
   ReuseNeedsAMishap, LiveTokenIsSomewhere, PresentedOnce, RequestsPresentTheLiveToken, RateLimited

LEMMA ToldPreservesInv == Inv /\ ToldOfTheEnd => Inv'
<1> SUFFICES ASSUME Inv, ToldOfTheEnd PROVE Inv'
  OBVIOUS
<1> USE DEF Inv, ToldOfTheEnd
<1>1. TypeOK' /\ \A p \in Callers : CallOK(calls[p])'
  BY DEF TypeOK, CallOK, RateLimited
<1>2. HeldWasMinted' /\ SignedOutOnlyWhenOver' /\ ReuseNeedsAMishap'
  BY DEF HeldWasMinted, SignedOutOnlyWhenOver, ReuseNeedsAMishap
<1>3. LiveTokenIsSomewhere' /\ RequestsPresentTheLiveToken'
  BY DEF LiveTokenIsSomewhere, RequestsPresentTheLiveToken
<1>4. PresentedOnce'
  BY DEF PresentedOnce
<1> QED
  BY <1>1, <1>2, <1>3, <1>4

LEMMA StutterPreservesInv == Inv /\ UNCHANGED vars => Inv'
BY DEF Inv, vars, TypeOK, CallOK, HeldWasMinted, SignedOutOnlyWhenOver, ReuseNeedsAMishap,
   LiveTokenIsSomewhere, LiveTokenIsHeld, LiveTokenIsCarried, LiveTokenIsLost, Carries, Returned,
   PresentedOnce,
   RequestsPresentTheLiveToken

LEMMA NextPreservesInv == Inv /\ [Next]_vars => Inv'
<1> SUFFICES ASSUME Inv, [Next]_vars PROVE Inv'
  OBVIOUS
<1>1. CASE EndedElsewhere \/ ToldOfTheEnd
  BY <1>1, EndPreservesInv, ToldPreservesInv
<1>2. ASSUME NEW p \in Callers, Refresh(p) PROVE Inv'
  BY <1>2, RefreshPreservesInv
<1>3. ASSUME NEW p \in Callers,
             Rotated(p) \/ Refused(p) \/ RefusedUnheard(p) \/ NotProcessed(p)
      PROVE  Inv'
  BY <1>3, RequestSteps, RequestPreservesInv DEF Inv
<1>4. ASSUME NEW p \in Callers, AppResumes(p) PROVE Inv'
  BY <1>4, AppResumesPreservesInv
<1>5. CASE UNCHANGED vars
  BY <1>5, StutterPreservesInv
<1> QED BY <1>1, <1>2, <1>3, <1>4, <1>5 DEF Next, CallerNext

(* The strengthening of the properties that every step preserves: where    *)
(* the live token is, and who may present what.                            *)
THEOREM Invariance == Spec => []Inv
BY InitInv, NextPreservesInv, PTL DEF Spec

(* auth.go 300-326: the state of a session is well formed.                 *)
THEOREM TypeCorrectness == Spec => []TypeOK
<1>1. Inv => TypeOK
  BY DEF Inv
<1> QED BY Invariance, <1>1, PTL

(* auth.go 300-303: for any number of goroutines, reuse is only detected   *)
(* after a rotated token was lost or one token was refreshed twice at a    *)
(* time.                                                                   *)
THEOREM ReuseIsNeverSpurious == Spec => []ReuseNeedsAMishap
<1>1. Inv => ReuseNeedsAMishap
  BY DEF Inv
<1> QED BY Invariance, <1>1, PTL

(* auth.go 300-303, 319-325: for any number of goroutines and errors, the  *)
(* application holds the live token of a live family; or, where that one   *)
(* was lost on the wire or dropped with its id_token (320), the one before *)
(* it: it is never further behind, and never ahead.                        *)
THEOREM TheLiveTokenIsKept == Spec => []HeldIsCurrent
<1>1. Inv => HeldIsCurrent
  BY DEF Inv, HeldIsCurrent, LiveTokenIsSomewhere, LiveTokenIsHeld, LiveTokenIsCarried,
     LiveTokenIsLost, Carries, Returned
<1> QED BY Invariance, <1>1, PTL

(* errors.go 82-84: a rate limited call has not used up its token.         *)
THEOREM RateLimitsAreRetryable == Spec => []RateLimitedIsRetryable
<1>1. Inv => RateLimitedIsRetryable
  BY DEF Inv, RateLimitedIsRetryable, CallOK, Returned
<1> QED BY Invariance, <1>1, PTL

(* errors.go 46-48, 86-88: the application signs nobody out before the     *)
(* instance has ended the session.                                         *)
THEOREM NobodyIsSignedOutEarly == Spec => []SignedOutOnlyWhenOver
<1>1. Inv => SignedOutOnlyWhenOver
  BY DEF Inv
<1> QED BY Invariance, <1>1, PTL

-----------------------------------------------------------------------------
(***************************************************************************)
(* Signing out: the sessions of SignOut are sessions of RefreshRotation,   *)
(* and what the back channel reports is true.                              *)
(***************************************************************************)
(* A step of the session leaves what the back channel knows true.          *)
LEMMA SessionSteps ==
  ASSUME SignOutInv, [Next]_vars
  PROVE  /\ current \in Nat /\ current' \in Nat /\ current <= current'
         /\ family # "live" => family' # "live"
<1>1. current \in Nat
  BY MaxTokensAssumption DEF SignOutInv, Inv, TypeOK, Tokens
<1>2. ASSUME NEW p \in Callers,
             \/ Refresh(p) \/ Refused(p) \/ RefusedUnheard(p)
             \/ NotProcessed(p) \/ AppResumes(p)
      PROVE  current' = current /\ (family # "live" => family' # "live")
  BY <1>2 DEF Refresh, Refused, RefusedUnheard, NotProcessed, AppResumes
<1>3. ASSUME NEW p \in Callers, Rotated(p)
      PROVE  current' = current + 1 /\ family' = family
  BY <1>3 DEF Rotated
<1>4. CASE EndedElsewhere \/ ToldOfTheEnd \/ UNCHANGED vars
  BY <1>1, <1>4 DEF EndedElsewhere, ToldOfTheEnd, vars
<1> QED
  BY <1>1, <1>2, <1>3, <1>4 DEF Next, CallerNext

LEMMA DeadTokensStayDead ==
  ASSUME SignOutInv, [Next]_vars,
         NEW token \in Tokens, token <= current, ~ Active(token)
  PROVE  token <= current' /\ ~ Active(token)'
<1>1. token \in Nat
  BY MaxTokensAssumption DEF Tokens
<1> QED
  BY <1>1, SessionSteps DEF Active

LEMMA SessionPreservesInv ==
  ASSUME SignOutInv, [Next]_vars, UNCHANGED <<client, backChannel>>
  PROVE  SignOutInv'
<1>1. Inv' /\ backChannel'.token = backChannel.token
  BY NextPreservesInv DEF SignOutInv
<1>2. backChannel.token # Empty => backChannel.token \in Nat /\ backChannel.token \in Tokens
  BY MaxTokensAssumption DEF SignOutInv, BackChannelType, Tokens
<1>3. backChannel.token # Empty => backChannel.token <= current'
  BY <1>2, SessionSteps DEF SignOutInv
<1>4. InactiveMeansOver'
  <2>1. CASE backChannel.token = Empty
    BY <2>1 DEF SignOutInv, InactiveMeansOver
  <2>2. CASE backChannel.token # Empty
    BY <1>2, <2>2, DeadTokensStayDead DEF SignOutInv, InactiveMeansOver, Active
  <2> QED
    BY <2>1, <2>2
<1> QED
  BY <1>1, <1>3, <1>4, SessionSteps DEF SignOutInv, BackChannelType

-----------------------------------------------------------------------------
(* The steps of the back channel.                                          *)

LEMMA BeginPreservesInv ==
  ASSUME SignOutInv, NEW op \in {"revoke", "introspect"}, NEW allowed \in BOOLEAN,
         Begin(op, allowed)
  PROVE  SignOutInv'
<1>1. Inv'
  BY StutterPreservesInv DEF SignOutInv, Begin
<1>2. held \in Tokens /\ held <= current
  BY DEF Begin, SignOutInv, Inv, TypeOK, HeldWasMinted
<1>3. /\ backChannel'.pc = IF allowed THEN "requesting" ELSE "returned"
      /\ backChannel'.op = op
      /\ backChannel'.token = held
      /\ backChannel'.err = IF allowed THEN "none" ELSE "ErrConfiguration"
      /\ backChannel' \in BackChannelType
  BY <1>2 DEF Begin, NoCall, BackChannelType
<1>4. backChannel'.err # "nil" /\ held' = held /\ held # Empty /\ UNCHANGED <<current, client>>
  BY <1>3 DEF Begin, vars
<1>5. InactiveMeansOver'
  BY <1>4 DEF InactiveMeansOver
<1> QED
  BY <1>1, <1>2, <1>3, <1>4, <1>5 DEF SignOutInv

LEMMA ReturnPreservesInv ==
  ASSUME SignOutInv, NEW err \in {"nil", "ErrAuthentication"}, NEW active \in BOOLEAN,
         backChannel.pc = "requesting", ReturnCall(err, active),
         UNCHANGED <<current, client>>, Inv',
         backChannel.op = "revoke" /\ err = "nil" => family' # "live",
         backChannel.op = "introspect" /\ err = "nil" /\ ~ active => ~ Active(backChannel.token)',
         backChannel.op = "introspect" => UNCHANGED family
  PROVE  SignOutInv'
<1>1. /\ backChannel'.pc = "returned"
      /\ backChannel'.op = backChannel.op
      /\ backChannel'.token = backChannel.token
      /\ backChannel'.err = err
      /\ backChannel'.active = active
      /\ backChannel' \in BackChannelType
  BY DEF ReturnCall, SignOutInv, BackChannelType
<1>2. InactiveMeansOver'
  BY <1>1 DEF InactiveMeansOver, Active
<1> QED
  BY <1>1, <1>2 DEF SignOutInv

(* Every step of the back channel is one that RefreshRotation allows its   *)
(* environment, or none of its steps.                                      *)
LEMMA BackChannelRefines ==
  ASSUME SignOutInv,
         Revoke \/ Revoked \/ NotRevoked \/ Introspect \/ Introspected \/ AppSignsOut
  PROVE  [Next]_vars
<1>1. CASE Revoke \/ NotRevoked \/ Introspect \/ Introspected
  BY <1>1 DEF Revoke, NotRevoked, Introspect, Introspected, Begin, vars
<1>2. CASE Revoked
  BY <1>2 DEF Revoked, EndedElsewhere, Next, vars
<1>3. CASE AppSignsOut
  BY <1>3 DEF AppSignsOut, ToldOfTheEnd, Next, vars, SignOutInv
<1> QED
  BY <1>1, <1>2, <1>3

LEMMA BackChannelPreservesInv ==
  ASSUME SignOutInv,
         Revoke \/ Revoked \/ NotRevoked \/ Introspect \/ Introspected \/ AppSignsOut
  PROVE  SignOutInv'
<1>1. CASE Revoke
  <2>1. ("revocation_endpoint" \in client.endpoints) \in BOOLEAN
    OBVIOUS
  <2> QED
    BY <1>1, <2>1, BeginPreservesInv DEF Revoke
<1>2. CASE Introspect
  <2>1. (client.clientSecret /\ "introspection_endpoint" \in client.endpoints) \in BOOLEAN
    OBVIOUS
  <2> QED
    BY <1>2, <2>1, BeginPreservesInv DEF Introspect
<1>3. CASE Revoked
  <2>1. PICK answer \in Broken \cup {Success} : ReturnCall(RevocationOutcome(answer), FALSE)
    BY <1>3 DEF Revoked
  <2>2. RevocationOutcome(answer) \in {"nil", "ErrAuthentication"}
    BY DEF RevocationOutcome
  <2>3. /\ backChannel.pc = "requesting" /\ backChannel.op = "revoke"
        /\ UNCHANGED <<current, client>> /\ family' # "live"
    BY <1>3 DEF Revoked, Requested
  <2>4. Inv'
    BY <1>3, BackChannelRefines, NextPreservesInv DEF SignOutInv
  <2> QED
    BY <2>1, <2>2, <2>3, <2>4, ReturnPreservesInv
<1>4. CASE NotRevoked
  <2>1. PICK answer \in Broken \cup Declined : ReturnCall(RevocationOutcome(answer), FALSE)
    BY <1>4 DEF NotRevoked
  <2>2. RevocationOutcome(answer) = "ErrAuthentication"
    BY DEF RevocationOutcome, Broken, Declined, NoAnswer, ErrorAnswer
  <2>3. /\ backChannel.pc = "requesting" /\ backChannel.op = "revoke"
        /\ UNCHANGED <<current, client>> /\ UNCHANGED vars
    BY <1>4 DEF NotRevoked, Requested, vars
  <2> QED
    BY <2>1, <2>2, <2>3, StutterPreservesInv, ReturnPreservesInv DEF SignOutInv
<1>5. CASE Introspected
  <2> DEFINE verdict == Verdict(Active(backChannel.token))
  <2>1. PICK answer \in Broken \cup Declined \cup {verdict, Unreadable} :
          ReturnCall(IntrospectionOutcome(answer), answer.kind = "verdict" /\ answer.active)
    BY <1>5 DEF Introspected
  <2>2. IntrospectionOutcome(answer) \in {"nil", "ErrAuthentication"}
    BY DEF IntrospectionOutcome
  <2>3. (answer.kind = "verdict" /\ answer.active) \in BOOLEAN
    OBVIOUS
  <2>4. /\ backChannel.pc = "requesting" /\ backChannel.op = "introspect"
        /\ UNCHANGED <<current, family, client>> /\ UNCHANGED vars
    BY <1>5 DEF Introspected, Requested, vars
  <2>5. IntrospectionOutcome(answer) = "nil" => answer = verdict
    BY <2>1 DEF IntrospectionOutcome, Broken, Declined, NoAnswer, ErrorAnswer, Unreadable
  <2>6. verdict.kind = "verdict" /\ (verdict.active <=> Active(backChannel.token))
    BY DEF Verdict
  <2>7. Active(backChannel.token)' <=> family = "live" /\ backChannel'.token = current
    BY <2>4 DEF Active
  <2>8. backChannel'.token = backChannel.token
    BY <2>1 DEF ReturnCall, SignOutInv, BackChannelType
  <2>9. IntrospectionOutcome(answer) = "nil" /\ ~ (answer.kind = "verdict" /\ answer.active) =>
          ~ Active(backChannel.token)'
    BY <2>5, <2>6, <2>7, <2>8 DEF Active
  <2> QED
    BY <2>1, <2>2, <2>3, <2>4, <2>9, StutterPreservesInv, ReturnPreservesInv DEF SignOutInv
<1>6. CASE AppSignsOut
  <2>1. Inv'
    BY <1>6, BackChannelRefines, NextPreservesInv DEF SignOutInv
  <2>2. NoCall \in BackChannelType
    BY DEF NoCall, BackChannelType
  <2>3. InactiveMeansOver'
    BY <1>6 DEF AppSignsOut, NoCall, InactiveMeansOver
  <2> QED
    BY <1>6, <2>1, <2>2, <2>3 DEF AppSignsOut, NoCall, SignOutInv
<1> QED
  BY <1>1, <1>2, <1>3, <1>4, <1>5, <1>6

-----------------------------------------------------------------------------
(* The theorems.                                                           *)

LEMMA SignOutInitInv == SignOutInit => SignOutInv
<1> SUFFICES ASSUME SignOutInit PROVE SignOutInv
  OBVIOUS
<1>1. Inv
  BY InitInv DEF SignOutInit
<1>2. NoCall \in BackChannelType
  BY DEF NoCall, BackChannelType
<1> QED
  BY <1>1, <1>2 DEF SignOutInit, NoCall, SignOutInv, InactiveMeansOver

LEMMA SignOutNextPreservesInv == SignOutInv /\ [SignOutNext]_signOutVars => SignOutInv'
<1> SUFFICES ASSUME SignOutInv, [SignOutNext]_signOutVars PROVE SignOutInv'
  OBVIOUS
<1>1. CASE (CallerNext \/ EndedElsewhere) /\ UNCHANGED <<client, backChannel>>
  BY <1>1, SessionPreservesInv DEF Next
<1>2. CASE UNCHANGED signOutVars
  BY <1>2, SessionPreservesInv DEF signOutVars, vars
<1> QED
  BY <1>1, <1>2, BackChannelPreservesInv DEF SignOutNext

(* backchannel.go 59-154: a sign-out that was answered is one that took    *)
(* place, and a verdict that was read is one that was given.               *)
THEOREM SignOutInvariance == SignOutSpec => []SignOutInv
BY SignOutInitInv, SignOutNextPreservesInv, PTL DEF SignOutSpec

(* auth.go 300-326, backchannel.go 106-154: a sign-out is nothing that     *)
(* refreshing cannot meet; the theorems of RefreshRotation above hold of   *)
(* an application that signs out as well.                                  *)
THEOREM SignOutImplementsRefreshRotation == SignOutSpec => IsRefreshRotation
<1>1. SignOutInit => Init
  BY DEF SignOutInit
<1>2. SignOutInv /\ [SignOutNext]_signOutVars => [Next]_vars
  BY BackChannelRefines DEF SignOutNext, Next, signOutVars, vars
<1> QED
  BY <1>1, <1>2, SignOutInvariance, PTL DEF SignOutSpec, IsRefreshRotation

(* backchannel.go 118-119: nobody is signed out, or believes to be, before *)
(* the session is over.                                                    *)
THEOREM SignOutsAreReal == SignOutSpec => []SignedOutOnlyWhenOver
<1>1. SignOutInv => SignedOutOnlyWhenOver
  BY DEF SignOutInv, Inv
<1> QED
  BY <1>1, SignOutInvariance, PTL

(* backchannel.go 59-97: no outage is read as the verdict that a token is  *)
(* over.                                                                   *)
THEOREM VerdictsAreTrue == SignOutSpec => []InactiveMeansOver
<1>1. SignOutInv => InactiveMeansOver
  BY DEF SignOutInv
<1> QED
  BY <1>1, SignOutInvariance, PTL

(* auth.go 300-326: the properties of refreshing survive a sign-out that   *)
(* overlaps with it.                                                       *)
THEOREM RefreshingSurvivesSignOut ==
  SignOutSpec => [](ReuseNeedsAMishap /\ HeldIsCurrent /\ RateLimitedIsRetryable)
<1>1. SignOutInv => ReuseNeedsAMishap
  BY DEF SignOutInv, Inv
<1>2. SignOutInv => HeldIsCurrent
  BY DEF SignOutInv, Inv, HeldIsCurrent, LiveTokenIsSomewhere, LiveTokenIsHeld,
         LiveTokenIsCarried, LiveTokenIsLost, Carries, Returned
<1>3. SignOutInv => RateLimitedIsRetryable
  BY DEF SignOutInv, Inv, RateLimitedIsRetryable, CallOK, Returned
<1> QED
  BY <1>1, <1>2, <1>3, SignOutInvariance, PTL
=============================================================================
