----------------------------- MODULE DeviceFlow -----------------------------
(***************************************************************************)
(* The device authorization grant (device.go): a program without a browser *)
(* asks for a device code, a person approves it elsewhere, and             *)
(* PollDeviceToken polls until there is a token, which userFromToken turns *)
(* into a user.                                                            *)
(*                                                                         *)
(* The polling loop itself is the library's (golang.org/x/oauth2), and so  *)
(* external: it gives up when the caller's context or the lifetime of the  *)
(* code ends, polls at each tick of a time.Ticker, goes on after           *)
(* authorization_pending, resets the ticker to a longer interval after     *)
(* slow_down, and returns anything else.  One poll is up to Attempts       *)
(* requests: while the library has not learned how the instance wants the  *)
(* client to authenticate, it repeats a request that failed in another     *)
(* form, at once and with the same device code, and the answer to the      *)
(* repetition replaces the first.  It learns from a success only, so every *)
(* poll of a pending code is sent twice, unless the client has obtained a  *)
(* token before.                                                           *)
(*                                                                         *)
(* Time is a countdown: a Tick takes one unit off every timer that runs.   *)
(* Nothing is urgent, so anything can be late by any number of ticks.      *)
(***************************************************************************)
EXTENDS UserFromToken, Integers

CONSTANTS
  People,          \* who may approve, and whom a profile may be of
  Intervals,       \* the interval the instance may ask for; 0: it asks for none
  Lifetimes,       \* time left at the start until Expiry; Never: no expires_in
  Deadlines,       \* time a caller's context leaves; Never: it has no deadline
  ScopeChoices,    \* DeviceParams.Scopes
  DefaultInterval, \* of the library, when the instance asks for none (5 s)
  SlowDownStep,    \* what a slow_down adds to the interval (5 s)
  MaxInterval,     \* bound: the instance answers slow_down up to here
  Attempts,        \* requests in one poll: 2, or 1 once the style is known
  RequestsTimeOut, \* Config.HTTPClient ends a request that takes too long
  Never            \* a timer that never ends

ASSUME TimesAssumption ==
  /\ DefaultInterval \in Nat \ {0} /\ SlowDownStep \in Nat \ {0}
  /\ MaxInterval \in Nat /\ DefaultInterval <= MaxInterval
  /\ Intervals \subseteq 0 .. MaxInterval
  /\ Never \notin Nat
  /\ Lifetimes \subseteq Nat \cup {Never}
  /\ Deadlines \subseteq Nat \cup {Never}
  /\ Attempts \in {1, 2}
  /\ RequestsTimeOut \in BOOLEAN

ASSUME PeopleAssumption == People \subseteq Strings /\ "email" \in ClaimNames

VARIABLES
  grant,  \* external: what the instance knows of the device code
  late,   \* external: a request the client has given up may still arrive
  auth,   \* the DeviceAuth the application holds
  call,   \* the PollDeviceToken in progress
  timer,  \* time left of the caller's context, and of the code (Expiry)
  ticker, \* of the loop: its period, time to the next tick, a tick is due
  pace,   \* history: what the instance asked for, and how requests keep to it
  mishap  \* history: an approved code may have been spent in vain

vars == <<grant, late, auth, call, timer, ticker, pace, mishap>>

-----------------------------------------------------------------------------
(* States.                                                                 *)

NoCall == [pc |-> "none", attempt |-> 0, answer |-> "none", result |-> None]

(* What the instance told the client, by the interval and by every         *)
(* slow_down it has received; how much of that was dropped, because the    *)
(* slow_down answered a request that is repeated; and the time that        *)
(* requests may still use up.                                              *)
FromTheStart(interval) == [told |-> interval, dropped |-> 0, credit |-> 0]

Stopped == [interval |-> DefaultInterval, next |-> DefaultInterval, due |-> FALSE]

Init ==
  /\ grant = [status |-> "none", by |-> None]
  /\ late = FALSE
  /\ auth = None
  /\ call = NoCall
  /\ timer = [deadline |-> Never, expiry |-> Never]
  /\ ticker = Stopped
  /\ pace = FromTheStart(DefaultInterval)
  /\ mishap = FALSE

Polling == call.pc \in {"waiting", "requesting"}

(* Mutation: the context of the caller is not passed on.                   *)
CtxDoneWithTheCodeOnly == timer.expiry = 0

(* The context of the loop: the caller's, cut at the end of the code.      *)
CtxDone == timer.deadline = 0 \/ timer.expiry = 0

Return(result) == call' = [NoCall EXCEPT !.pc = "returned", !.result = result]

ErrConfiguration == Failed("ErrConfiguration", "none", "none")
ErrContext       == Failed("context", "none", "none")

-----------------------------------------------------------------------------
(* Asking for a code.                                                      *)

DefaultScopes == {"openid", "profile", "email"}

GrantScopes(scopes) == IF scopes = {} THEN DefaultScopes ELSE scopes

(* The instance answers with a code, or the call fails and leaves no code  *)
(* the application knows.                                                  *)
RequestDeviceAuthorization ==
  /\ auth = None /\ call.pc = "none"
  /\ \/ \E interval \in Intervals, lifetime \in Lifetimes, scopes \in ScopeChoices :
          /\ auth' = [interval |-> interval, scopes |-> GrantScopes(scopes)]
          /\ timer' = [timer EXCEPT !.expiry = lifetime]
          /\ grant' = [grant EXCEPT !.status = "pending"]
          /\ UNCHANGED call
     \/ Return(ErrAuthentication) /\ UNCHANGED <<grant, auth, timer>>
  /\ UNCHANGED <<late, ticker, pace, mishap>>

-----------------------------------------------------------------------------
(* External: the person decides, and codes end.                            *)

Decide ==
  /\ grant.status = "pending"
  /\ \/ \E person \in People : grant' = [status |-> "approved", by |-> person]
     \/ grant' = [grant EXCEPT !.status = "denied"]
  /\ UNCHANGED <<late, auth, call, timer, ticker, pace, mishap>>

Expire ==
  /\ grant.status \in {"pending", "approved"}
  /\ grant' = [grant EXCEPT !.status = "expired"]
  /\ UNCHANGED <<late, auth, call, timer, ticker, pace, mishap>>

-----------------------------------------------------------------------------
(* PollDeviceToken begins: everything the loop gets to know of the code    *)
(* and of the caller.                                                      *)

PeriodOf(interval) == IF interval = 0 THEN DefaultInterval ELSE interval

StartLoop(interval, deadline) ==
  /\ call' = [NoCall EXCEPT !.pc = "waiting"]
  /\ timer' = [timer EXCEPT !.deadline = deadline]
  /\ ticker' = [interval |-> PeriodOf(interval), next |-> PeriodOf(interval), due |-> FALSE]

(* Mutation: the loop is given the device code and nothing else of auth.   *)
BeginWithTheCodeAlone(deadline) == StartLoop(0, deadline)

Begin(deadline) == StartLoop(auth.interval, deadline)

PollDeviceToken ==
  /\ call.pc = "none"
  /\ \/ /\ auth = None
        /\ Return(ErrConfiguration)
        /\ UNCHANGED <<timer, ticker, pace>>
     \/ /\ auth # None
        /\ \E deadline \in Deadlines : Begin(deadline)
        /\ pace' = FromTheStart(PeriodOf(auth.interval))
  /\ UNCHANGED <<grant, late, auth, mishap>>

-----------------------------------------------------------------------------
(* Time.                                                                   *)

CountedDown(left) == IF left \in {0, Never} THEN left ELSE left - 1

AtMost(bound, n) == IF n <= bound THEN n ELSE bound

(* The interval that is due to the instance, but for what was dropped.     *)
Kept == pace.told - pace.dropped

(* What may be saved up: one poll a tick before the next one is due, one   *)
(* that is due, and the repetition of one that has been sent.              *)
MostSaved == Attempts * (2 * Kept - 1) + (Attempts - 1) * Kept

Tick ==
  /\ timer' = [deadline |-> CountedDown(timer.deadline), expiry |-> CountedDown(timer.expiry)]
  /\ IF Polling
     THEN /\ ticker' = [ticker EXCEPT
                          !.next = IF ticker.next = 1 THEN ticker.interval ELSE ticker.next - 1,
                          !.due  = ticker.due \/ ticker.next = 1]
          /\ pace' = [pace EXCEPT !.credit = AtMost(MostSaved, @ + Attempts)]
     ELSE UNCHANGED <<ticker, pace>>
  /\ UNCHANGED <<grant, late, auth, call, mishap>>

(* The caller cancels its context, which is as good as its end.            *)
Cancel ==
  /\ call.pc \in {"waiting", "requesting", "verifying"}
  /\ timer' = [timer EXCEPT !.deadline = 0]
  /\ UNCHANGED <<grant, late, auth, call, ticker, pace, mishap>>

-----------------------------------------------------------------------------
(* External: the library's polling loop.                                   *)

(* Whichever is noticed first, the end of the context or a tick: a request *)
(* under an ended context is not sent, and its error is the context's.     *)
GiveUp ==
  /\ call.pc = "waiting" /\ CtxDone
  /\ Return(ErrContext)
  /\ UNCHANGED <<grant, late, auth, timer, ticker, pace, mishap>>

Send ==
  /\ call.pc = "waiting" /\ ticker.due /\ ~ CtxDone
  /\ call' = [call EXCEPT !.pc = "requesting", !.attempt = 1]
  /\ ticker' = [ticker EXCEPT !.due = FALSE]
  /\ pace' = [pace EXCEPT !.credit = @ - Kept]
  /\ UNCHANGED <<grant, late, auth, timer, mishap>>

Losses == {"lost", "timed_out"}

AnswersTo(status) ==
  {"server_error"} \cup
  CASE status = "pending"  -> {"authorization_pending", "slow_down"}
    [] status = "approved" -> {"token", "slow_down"}
    [] status = "denied"   -> {"access_denied"}
    [] status = "expired"  -> {"expired_token"}
    [] status = "redeemed" -> {"invalid_grant"}

(* External: the instance handles a request.                               *)
Answer ==
  /\ call.pc = "requesting" /\ call.answer = "none"
  /\ \E answer \in AnswersTo(grant.status) :
       /\ answer = "slow_down" => pace.told + SlowDownStep <= MaxInterval
       /\ call' = [call EXCEPT !.answer = answer]
       /\ grant' = IF answer = "token" THEN [grant EXCEPT !.status = "redeemed"] ELSE grant
  /\ UNCHANGED <<late, auth, timer, ticker, pace, mishap>>

(* External: the network loses the answer, or the request, which may still *)
(* reach the instance when the client no longer waits for it.  A timeout   *)
(* of the HTTP client tells itself apart, but for one that strikes while   *)
(* the body is read: the library keeps only its text.                      *)
Lose ==
  /\ call.pc = "requesting" /\ call.answer \notin Losses
  /\ \E loss \in IF RequestsTimeOut THEN Losses ELSE {"lost"} :
       call' = [call EXCEPT !.answer = loss]
  /\ late' = (late \/ call.answer = "none")
  /\ mishap' = (mishap \/ call.answer = "token")
  /\ UNCHANGED <<grant, auth, timer, ticker, pace>>

LateArrival ==
  /\ late
  /\ late' = FALSE
  /\ IF grant.status = "approved"
     THEN grant' = [grant EXCEPT !.status = "redeemed"] /\ mishap' = TRUE
     ELSE UNCHANGED <<grant, mishap>>
  /\ UNCHANGED <<auth, call, timer, ticker, pace>>

(* Mutation: a refusal is waited out like a pending request.               *)
ContinuesAfterRefusal(answer) == answer \in {"authorization_pending", "slow_down", "access_denied"}

Continues(answer) == answer \in {"authorization_pending", "slow_down"}

(* Mutation: the interval grows, and the ticker runs on as it was.         *)
SlowedDownWithoutReset == [ticker EXCEPT !.interval = @ + SlowDownStep]

(* A reset ticker starts a whole new interval and drops a tick that is due.*)
SlowedDown ==
  LET interval == ticker.interval + SlowDownStep IN
  [interval |-> interval, next |-> interval, due |-> FALSE]

(* The same poll once more; what the first answer asked for is dropped.    *)
Repeat ==
  LET dropped == IF call.answer = "slow_down" THEN SlowDownStep ELSE 0 IN
  /\ call' = [call EXCEPT !.attempt = @ + 1, !.answer = "none"]
  /\ pace' = [told    |-> pace.told + dropped,
              dropped |-> pace.dropped + dropped,
              credit  |-> pace.credit - Kept]

(* A timeout of the HTTP client is a context.DeadlineExceeded by the rules *)
(* of errors.Is, and so returned as the error of a context.                *)
ErrorOf(answer) == IF answer = "timed_out" THEN ErrContext ELSE ErrAuthentication

Receive ==
  /\ call.pc = "requesting" /\ call.answer # "none"
  /\ IF call.answer = "token" THEN
       call' = [NoCall EXCEPT !.pc = "verifying"] /\ UNCHANGED <<ticker, pace>>
     ELSE IF call.attempt < Attempts THEN
       /\ UNCHANGED ticker
       /\ IF CtxDone THEN Return(ErrContext) /\ UNCHANGED pace ELSE Repeat
     ELSE IF Continues(call.answer) THEN
       /\ call' = [NoCall EXCEPT !.pc = "waiting"]
       /\ IF call.answer = "slow_down"
          THEN /\ ticker' = SlowedDown
               /\ pace' = [pace EXCEPT !.told = @ + SlowDownStep, !.credit = 0]
          ELSE UNCHANGED <<ticker, pace>>
     ELSE Return(ErrorOf(call.answer)) /\ UNCHANGED <<ticker, pace>>
  /\ UNCHANGED <<grant, late, auth, timer, mishap>>

(* The context ends during a request.  The error is the context's, unless  *)
(* it ends while the body is read: the library keeps only its text.        *)
Interrupted ==
  /\ call.pc = "requesting" /\ CtxDone
  /\ Return(ErrContext) \/ Return(ErrAuthentication)
  /\ late' = (late \/ call.answer = "none")
  /\ mishap' = (mishap \/ call.answer = "token")
  /\ UNCHANGED <<grant, auth, timer, ticker, pace>>

-----------------------------------------------------------------------------
(* The token becomes a user.                                               *)

ClaimsAbout(person) ==
  [k \in ClaimNames |-> IF k \in {"sub", "email"} THEN person ELSE Absent]

(* An id_token exactly when openid was asked for, about the person who     *)
(* approved; it may fail to verify (the keys cannot be fetched).           *)
Tokens ==
  IF "openid" \in auth.scopes
  THEN {[idToken |-> "unverifiable", nonce |-> Empty, verified |-> NoClaims],
        [idToken |-> "verified", nonce |-> Empty,
         verified |-> [NoClaims EXCEPT !["sub"] = grant.by]]}
  ELSE {[idToken |-> "none", nonce |-> Empty, verified |-> NoClaims]}

Profiles == {NoClaims} \cup {ClaimsAbout(person) : person \in People}

(* Mutation: a nonce is expected that no device token carries.             *)
DeviceUserExpectingNonce(token, profile) ==
  IF RefusedToken(token, "nonce") # None THEN RefusedToken(token, "nonce")
                                         ELSE Enriched(token, profile)

DeviceUser(token, profile) ==
  IF RefusedToken(token, Empty) # None THEN RefusedToken(token, Empty)
                                       ELSE Enriched(token, profile)

(* userFromToken works under the context of the caller alone: that the     *)
(* code has expired meanwhile does not end it.                             *)
Finish ==
  /\ call.pc = "verifying"
  /\ \E token \in Tokens, profile \in Profiles :
       /\ Return(DeviceUser(token, profile))
       /\ mishap' = \/ mishap
                    \/ token.idToken = "unverifiable"
                    \/ profile \notin {NoClaims, ClaimsAbout(grant.by)}
                    \/ token.idToken = "none" /\ profile = NoClaims
  /\ UNCHANGED <<grant, late, auth, timer, ticker, pace>>

(* External: the application takes the result; after an error it may call  *)
(* again, with the same DeviceAuth.                                        *)
AppResumes ==
  /\ call.pc = "returned" /\ call.result.err # "nil"
  /\ call' = NoCall
  /\ UNCHANGED <<grant, late, auth, timer, ticker, pace, mishap>>

Next ==
  \/ RequestDeviceAuthorization \/ Decide \/ Expire
  \/ PollDeviceToken \/ Tick \/ Cancel
  \/ GiveUp \/ Send \/ Answer \/ Lose \/ LateArrival \/ Receive \/ Interrupted
  \/ Finish \/ AppResumes

(* Time passes, the loop takes what is there, and a context that has ended *)
(* ends what waits for it; nothing is assumed of the instance and of the   *)
(* network, nor that the application calls.                                *)
Fairness ==
  /\ WF_vars(Tick)
  /\ WF_vars(GiveUp)
  /\ WF_vars(Send)
  /\ WF_vars(Receive)
  /\ WF_vars(Interrupted)
  /\ WF_vars(timer.deadline = 0 /\ Finish)

Spec == Init /\ [][Next]_vars /\ Fairness

-----------------------------------------------------------------------------
(* Types, and the inductive invariant.                                     *)

Token == [idToken : {"none", "unverifiable", "verified"}, nonce : {Empty}, verified : Claims]

User == [token          : Token,
         id             : Strings,
         organizationID : Strings \cup {Empty},
         sessionID      : Strings \cup {Empty},
         claims         : Claims]

Result == {ErrConfiguration, ErrContext, ErrAuthentication} \cup
          [err : {"nil"}, op : {"none"}, code : {"none"}, user : User]

DeviceAuth == [interval : Intervals,
               scopes   : {GrantScopes(scopes) : scopes \in ScopeChoices}]

Answers == {"none", "token", "authorization_pending", "slow_down", "access_denied",
            "expired_token", "invalid_grant", "server_error"} \cup Losses

(* None is none of the values it stands for the lack of.                   *)
ASSUME NoneAssumption == None \notin People \cup DeviceAuth \cup Result

TypeOK ==
  /\ grant \in [status : {"none", "pending", "approved", "denied", "expired", "redeemed"},
                by     : People \cup {None}]
  /\ late \in BOOLEAN
  /\ auth \in DeviceAuth \cup {None}
  /\ call \in [pc      : {"none", "waiting", "requesting", "verifying", "returned"},
              attempt : 0 .. Attempts,
              answer  : Answers,
              result  : Result \cup {None}]
  /\ timer \in [deadline : Nat \cup {Never}, expiry : Nat \cup {Never}]
  /\ ticker \in [interval : 1 .. MaxInterval, next : 1 .. MaxInterval, due : BOOLEAN]
  /\ pace \in [told : 1 .. MaxInterval, dropped : 0 .. MaxInterval, credit : Int]
  /\ mishap \in BOOLEAN

(* What the ticker, and the poll that is under way, may still spend.       *)
Owed ==
  Attempts * ((ticker.interval - ticker.next) + IF ticker.due THEN ticker.interval ELSE 0)
    + IF call.pc = "requesting" THEN (Attempts - call.attempt) * ticker.interval ELSE 0

(* The loop has allowed itself no more polls than its ticker has ticked.   *)
TickerKeepsPace ==
  Polling =>
    /\ ticker.interval = Kept
    /\ ticker.next <= ticker.interval
    /\ call.pc = "requesting" => call.attempt >= 1
    /\ pace.credit >= Owed
    /\ Attempts = 1 => pace.dropped = 0

(* The code is only taken for approved by the token of the person who did. *)
TokenIsOfTheApproval ==
  /\ grant.status \in {"approved", "redeemed"} => grant.by # None
  /\ call.answer = "token" \/ call.pc = "verifying" => grant.status = "redeemed"
  /\ call.answer # "none" => call.pc = "requesting"

Inv ==
  /\ TypeOK
  /\ TickerKeepsPace
  /\ TokenIsOfTheApproval
  /\ grant.status = "none" <=> auth = None
  /\ call.answer = "slow_down" => pace.told + SlowDownStep <= MaxInterval
  /\ call.answer = "timed_out" => RequestsTimeOut
  /\ Polling \/ call.pc = "verifying" => auth # None

-----------------------------------------------------------------------------
(* Properties.                                                             *)

(* device.go 26, 62-63, 73: what is left of the promised minimum between   *)
(* polls.  Every request is charged.  Over any time, a call sends no more  *)
(* than Attempts requests for each interval that has passed, and what it   *)
(* saves up while an answer is late is bounded (MostSaved): with one       *)
(* request in a poll, less than two of them.  The interval is the one the  *)
(* instance asked for, and a step more for every slow_down that answers    *)
(* the last request of a poll; one that answers a request which is then    *)
(* repeated is dropped.                                                    *)
PollsArePaced == Polling => pace.credit >= 0

(* device.go 62-63, 73: once the client knows how to authenticate, so that *)
(* a poll is one request, no slow_down is dropped, and the loop keeps the  *)
(* whole interval the instance has told it.                                *)
SlowDownsAreHeard == Attempts = 1 /\ Polling => ticker.interval = pace.told

(* device.go 73-76: with an HTTP client that has no timeout of its own, an *)
(* error of the context is returned only when the context of the caller,   *)
(* or the lifetime of the code, has ended.                                 *)
ContextErrorMeansTimeIsUp ==
  ~ RequestsTimeOut /\ call.pc = "returned" /\ call.result.err = "context" =>
    timer.deadline = 0 \/ timer.expiry = 0

(* device.go 62-66, 81: a user is returned only for a code that was        *)
(* approved, and nothing of it is about another person than the one who    *)
(* approved, unless the instance was never asked to sign who that is.      *)
UserIsTheApprover ==
  call.pc = "returned" /\ call.result.err = "nil" =>
    /\ grant.status = "redeemed"
    /\ call.result.user.token.idToken = "verified" =>
         /\ call.result.user.id = grant.by
         /\ call.result.user.claims["email"] \in {Absent, grant.by}

(* device.go 73-81: an approval is not spent on a failed call unless       *)
(* something went wrong outside: an answer was lost, the context ended     *)
(* while one was under way, or the instance contradicted itself.           *)
SpentInVainNeedsAMishap ==
  grant.status = "redeemed" =>
    \/ mishap
    \/ call.answer = "token"
    \/ call.pc = "verifying"
    \/ call.pc = "returned" /\ call.result.err = "nil"

(* device.go 64-65, 73: a call under a context with a deadline returns,    *)
(* whatever the instance does; and one that polls for a code with a        *)
(* lifetime does not poll for ever.                                        *)
PollEnds ==
  /\ (Polling \/ call.pc = "verifying") /\ timer.deadline # Never ~> call.pc = "returned"
  /\ Polling /\ timer.expiry # Never ~> ~ Polling

(* device.go 62-63: without any deadline, the decision of the person ends  *)
(* the wait, as long as every request is answered or fails in the end.     *)
DecisionEndsTheWait ==
  WF_vars(Answer \/ Lose) =>
    (Polling /\ grant.status \notin {"none", "pending"} ~> ~ Polling)

=============================================================================
