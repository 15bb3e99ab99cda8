-------------------------- MODULE DeviceFlowProofs --------------------------
(***************************************************************************)
(* Proofs about DeviceFlow, for any intervals, lifetimes and deadlines.    *)
(***************************************************************************)
EXTENDS DeviceFlow, TLAPS

LEMMA PeriodType ==
  ASSUME NEW interval \in Intervals
  PROVE  PeriodOf(interval) \in 1 .. MaxInterval
  BY TimesAssumption DEF PeriodOf

LEMMA Ranges ==
  /\ DefaultInterval \in 1 .. MaxInterval
  /\ MaxInterval \in 0 .. MaxInterval /\ 0 \in 0 .. MaxInterval
  /\ 0 \in 0 .. Attempts /\ 1 \in 0 .. Attempts
  /\ 0 \in Int
  BY TimesAssumption

LEMMA NoClaimsType == NoClaims \in Claims
  BY DEF NoClaims, Claims

LEMMA ClaimsAboutType ==
  ASSUME NEW person \in People
  PROVE  ClaimsAbout(person) \in Claims
  BY PeopleAssumption DEF ClaimsAbout, Claims

LEMMA ErrorTypes ==
  /\ ErrConfiguration \in Result /\ ErrContext \in Result /\ ErrAuthentication \in Result
  /\ ErrConfiguration.err = "ErrConfiguration"
  /\ ErrContext.err = "context"
  /\ ErrAuthentication.err = "ErrAuthentication"
  /\ ErrAuthentication # None
  BY NoneAssumption DEF ErrConfiguration, ErrContext, ErrAuthentication, Failed, Result

(* A token the instance gives out for an approved code.                    *)
LEMMA TokensLemma ==
  ASSUME grant.by \in People, NEW token \in Tokens
  PROVE  /\ token \in Token
         /\ token.idToken \in {"unverifiable", "none"} => token.verified = NoClaims
         /\ token.idToken = "verified" =>
              /\ token.verified["sub"] = grant.by
              /\ \A k \in ClaimNames \ {"sub"} : token.verified[k] = Absent
<1>1. PICK signed : signed = [NoClaims EXCEPT !["sub"] = grant.by]
  OBVIOUS
<1>2. signed \in Claims
  BY <1>1, PeopleAssumption DEF NoClaims, Claims
<1>3. signed["sub"] = grant.by
  BY <1>1, ClaimsAssumption DEF NoClaims
<1>4. \A k \in ClaimNames \ {"sub"} : signed[k] = Absent
  BY <1>1 DEF NoClaims
<1>5. \/ token = [idToken |-> "unverifiable", nonce |-> Empty, verified |-> NoClaims]
      \/ token = [idToken |-> "verified", nonce |-> Empty, verified |-> signed]
      \/ token = [idToken |-> "none", nonce |-> Empty, verified |-> NoClaims]
  BY <1>1 DEF Tokens
<1>6. token \in Token
  BY <1>2, <1>5, NoClaimsType DEF Token
<1>7. \/ token.idToken = "unverifiable" /\ token.verified = NoClaims
      \/ token.idToken = "verified" /\ token.verified = signed
      \/ token.idToken = "none" /\ token.verified = NoClaims
  BY <1>5
<1> QED
  BY <1>3, <1>4, <1>6, <1>7

(***************************************************************************)
(* userFromToken on what the instance may answer: a user about the person  *)
(* who approved, or ErrAuthentication; and the user, unless the instance   *)
(* contradicts itself or its keys cannot be had.                           *)
(***************************************************************************)
LEMMA DeviceUserLemma ==
  ASSUME grant.by \in People, NEW token \in Tokens, NEW profile \in Profiles,
         NEW result, result = DeviceUser(token, profile)
  PROVE  /\ result \in Result
         /\ result.err \in {"nil", "ErrAuthentication"}
         /\ result.err = "nil" =>
              /\ result.user.token = token
              /\ token.idToken = "verified" =>
                   /\ result.user.id = grant.by
                   /\ result.user.claims["email"] \in {Absent, grant.by}
         /\ \/ result.err = "nil"
            \/ token.idToken = "unverifiable"
            \/ profile \notin {NoClaims, ClaimsAbout(grant.by)}
            \/ token.idToken = "none" /\ profile = NoClaims
<1> DEFINE user   == CboxUser(token, profile)
           claims == merge(profile, token.verified)
<1>1. token \in Token /\ token.verified \in Claims /\ token.nonce = Empty
  BY TokensLemma DEF Token
<1>2. profile \in Claims
  BY NoClaimsType, ClaimsAboutType DEF Profiles
<1>3. claims \in Claims
  BY <1>1, <1>2 DEF merge, Claims
<1>4. /\ user.token = token /\ user.claims = claims
      /\ user.id = stringClaim(claims, "sub")
  BY DEF CboxUser
<1>5. user.id # Empty => user \in User
  BY <1>1, <1>3, ClaimsAssumption DEF CboxUser, User, stringClaim
<1>6. RefusedToken(token, Empty) = IF token.idToken = "unverifiable" THEN ErrAuthentication ELSE None
  BY DEF RefusedToken, NonceDiffers
<1>7. CASE token.idToken = "unverifiable"
  <2>1. result = ErrAuthentication
    BY <1>6, <1>7, ErrorTypes DEF DeviceUser
  <2> QED
    BY <1>7, <2>1, ErrorTypes
<1>8. CASE token.idToken # "unverifiable"
  <2>1. result = Enriched(token, profile)
    BY <1>6, <1>8 DEF DeviceUser
  <2>2. CASE SubjectsDiffer(profile, token.verified) \/ user.id = Empty
    <3>1. result = ErrAuthentication
      BY <2>1, <2>2 DEF Enriched
    <3>2. \/ profile \notin {NoClaims, ClaimsAbout(grant.by)}
          \/ token.idToken = "none" /\ profile = NoClaims
      <4>1. SUFFICES ASSUME profile \in {NoClaims, ClaimsAbout(grant.by)},
                            token.idToken = "verified" \/ profile = ClaimsAbout(grant.by)
                     PROVE  FALSE
        BY <1>1, <1>8 DEF Token
      <4>2. profile["sub"] \in {Absent, grant.by}
        BY <4>1, ClaimsAssumption DEF NoClaims, ClaimsAbout
      <4>3. token.verified["sub"] \in {Absent, grant.by}
        BY <1>1, TokensLemma, ClaimsAssumption DEF Token, NoClaims
      <4>4. token.verified["sub"] = grant.by \/ profile["sub"] = grant.by
        BY <4>1, TokensLemma, ClaimsAssumption DEF ClaimsAbout
      <4>5. claims["sub"] = grant.by
        BY <4>2, <4>3, <4>4, ClaimsAssumption, PeopleAssumption DEF merge
      <4>6. user.id = grant.by
        BY <1>4, <4>5, PeopleAssumption DEF stringClaim
      <4>7. ~ SubjectsDiffer(profile, token.verified)
        BY <4>2, <4>3, ClaimsAssumption DEF SubjectsDiffer, IsString
      <4> QED
        BY <2>2, <4>6, <4>7, ClaimsAssumption, PeopleAssumption
    <3> QED
      BY <3>1, <3>2, ErrorTypes
  <2>3. CASE ~ SubjectsDiffer(profile, token.verified) /\ user.id # Empty
    <3>1. result = Succeeded(user)
      BY <2>1, <2>3 DEF Enriched
    <3>2. result.err = "nil" /\ result.user = user /\ result \in Result
      BY <1>5, <2>3, <3>1 DEF Succeeded, Result
    <3>3. ASSUME token.idToken = "verified"
          PROVE  /\ user.id = grant.by
                 /\ claims["email"] \in {Absent, grant.by}
      <4>1. token.verified["sub"] = grant.by /\ token.verified["email"] = Absent
        BY <3>3, TokensLemma, PeopleAssumption
      <4>2. claims["sub"] = grant.by /\ claims["email"] = profile["email"]
        BY <4>1, ClaimsAssumption, PeopleAssumption DEF merge
      <4>3. user.id = grant.by
        BY <1>4, <4>2, PeopleAssumption DEF stringClaim
      <4>4. \/ profile["email"] = Absent
            \/ profile["email"] = profile["sub"] /\ profile["sub"] \in People
        BY ClaimsAssumption, PeopleAssumption DEF Profiles, NoClaims, ClaimsAbout
      <4>5. profile["sub"] \in People => profile["sub"] = grant.by
        BY <2>3, <4>1, PeopleAssumption DEF SubjectsDiffer, IsString
      <4> QED
        BY <4>2, <4>3, <4>4, <4>5
    <3> QED
      BY <1>4, <3>2, <3>3
  <2> QED
    BY <2>2, <2>3
<1> QED
  BY <1>7, <1>8

-----------------------------------------------------------------------------
(* The invariant: the one of the model, and the two properties that are    *)
(* kept by what each step leaves behind.                                   *)
IInv ==
  /\ Inv
  /\ ContextErrorMeansTimeIsUp
  /\ UserIsTheApprover
  /\ SpentInVainNeedsAMishap

LEMMA InitIInv == Init => IInv
<1> SUFFICES ASSUME Init PROVE IInv
  OBVIOUS
<1>1. TypeOK
  <2>1. /\ call = [pc |-> "none", attempt |-> 0, answer |-> "none", result |-> None]
        /\ ticker = [interval |-> DefaultInterval, next |-> DefaultInterval, due |-> FALSE]
        /\ pace = [told |-> DefaultInterval, dropped |-> 0, credit |-> 0]
        /\ timer = [deadline |-> Never, expiry |-> Never]
        /\ grant = [status |-> "none", by |-> None]
        /\ auth = None /\ late = FALSE /\ mishap = FALSE
    BY DEF Init, NoCall, Stopped, FromTheStart
  <2> QED
    BY <2>1, Ranges DEF TypeOK, Answers
<1> QED
  BY <1>1 DEF Init, IInv, Inv, TickerKeepsPace, TokenIsOfTheApproval, Polling, NoCall,
              ContextErrorMeansTimeIsUp, UserIsTheApprover, SpentInVainNeedsAMishap

(* A call returns with an error: nothing is left of it.                    *)
LEMMA ReturnLemma ==
  ASSUME NEW result \in Result, Return(result)
  PROVE  /\ call'.pc = "returned" /\ call'.answer = "none" /\ call'.result = result
         /\ call' \in [pc      : {"none", "waiting", "requesting", "verifying", "returned"},
                      attempt : 0 .. Attempts,
                      answer  : Answers,
                      result  : Result \cup {None}]
<1>1. call' = [pc |-> "returned", attempt |-> 0, answer |-> "none", result |-> result]
  BY DEF Return, NoCall
<1> QED
  BY <1>1, Ranges DEF Answers

(* Whatever keeps the call, its requests, the ticker and the pace as they  *)
(* were keeps what they owe each other.                                    *)
LEMMA PaceIsKept ==
  ASSUME TickerKeepsPace, UNCHANGED <<ticker, pace>>,
         Polling' => Polling /\ call'.pc = call.pc /\ call'.attempt = call.attempt
  PROVE  TickerKeepsPace'
<1> SUFFICES ASSUME Polling' PROVE TickerKeepsPace'
  BY DEF TickerKeepsPace
<1>1. Kept' = Kept /\ Owed' = Owed
  BY DEF Kept, Owed
<1> QED
  BY <1>1 DEF TickerKeepsPace

LEMMA RequestIInv ==
  ASSUME IInv, RequestDeviceAuthorization
  PROVE  IInv'
<1>1. CASE Return(ErrAuthentication) /\ UNCHANGED <<grant, auth, timer>>
  BY <1>1, ReturnLemma, ErrorTypes, PaceIsKept
     DEF RequestDeviceAuthorization, IInv, Inv, TypeOK, TokenIsOfTheApproval,
         Polling, ContextErrorMeansTimeIsUp, UserIsTheApprover, SpentInVainNeedsAMishap
<1>2. ASSUME NEW interval \in Intervals, NEW lifetime \in Lifetimes, NEW scopes \in ScopeChoices,
             auth' = [interval |-> interval, scopes |-> GrantScopes(scopes)],
             timer' = [timer EXCEPT !.expiry = lifetime],
             grant' = [grant EXCEPT !.status = "pending"],
             UNCHANGED call
      PROVE  IInv'
  <2>1. auth' \in DeviceAuth /\ auth' # None
    BY <1>2, NoneAssumption DEF DeviceAuth
  <2>2. timer' \in [deadline : Nat \cup {Never}, expiry : Nat \cup {Never}]
    BY <1>2, TimesAssumption DEF IInv, Inv, TypeOK
  <2>3. grant'.status = "pending"
        /\ grant' \in [status : {"none", "pending", "approved", "denied", "expired", "redeemed"},
                       by     : People \cup {None}]
    BY <1>2 DEF IInv, Inv, TypeOK
  <2>4. call.pc = "none" /\ UNCHANGED <<late, ticker, pace, mishap>>
    BY DEF RequestDeviceAuthorization
  <2> QED
    BY <1>2, <2>1, <2>2, <2>3, <2>4, PaceIsKept
       DEF IInv, Inv, TypeOK, TokenIsOfTheApproval,
           Polling, ContextErrorMeansTimeIsUp, UserIsTheApprover, SpentInVainNeedsAMishap
<1> QED
  BY <1>1, <1>2 DEF RequestDeviceAuthorization

(* What happens to the code while it is not redeemed touches no property.  *)
LEMMA CodeChangesIInv ==
  ASSUME IInv, Decide \/ Expire
  PROVE  IInv'
<1>1. /\ grant' \in [status : {"none", "pending", "approved", "denied", "expired", "redeemed"},
                     by     : People \cup {None}]
      /\ grant.status \in {"pending", "approved"}
      /\ grant'.status \in {"approved", "denied", "expired"}
      /\ grant'.status = "approved" => grant'.by # None
  BY NoneAssumption DEF Decide, Expire, IInv, Inv, TypeOK
<1>2. UNCHANGED <<late, auth, call, timer, ticker, pace, mishap>>
  BY DEF Decide, Expire
<1> QED
  BY <1>1, <1>2, PaceIsKept DEF IInv, Inv, TypeOK, TokenIsOfTheApproval, Polling,
                    ContextErrorMeansTimeIsUp, UserIsTheApprover, SpentInVainNeedsAMishap

LEMMA PollIInv ==
  ASSUME IInv, PollDeviceToken
  PROVE  IInv'
<1>1. CASE auth = None /\ Return(ErrConfiguration) /\ UNCHANGED <<timer, ticker, pace>>
  BY <1>1, ReturnLemma, ErrorTypes, PaceIsKept
     DEF PollDeviceToken, IInv, Inv, TypeOK, TokenIsOfTheApproval,
         Polling, ContextErrorMeansTimeIsUp, UserIsTheApprover, SpentInVainNeedsAMishap
<1>2. ASSUME auth # None, NEW deadline \in Deadlines, Begin(deadline),
             pace' = FromTheStart(PeriodOf(auth.interval))
      PROVE  IInv'
  <2> DEFINE period == PeriodOf(auth.interval)
  <2>1. period \in 1 .. MaxInterval
    BY <1>2, PeriodType DEF IInv, Inv, TypeOK, DeviceAuth
  <2> HIDE DEF period
  <2>2. /\ call' = [NoCall EXCEPT !.pc = "waiting"]
        /\ timer' = [timer EXCEPT !.deadline = deadline]
        /\ ticker' = [interval |-> period, next |-> period, due |-> FALSE]
        /\ pace' = [told |-> period, dropped |-> 0, credit |-> 0]
    BY <1>2 DEF Begin, StartLoop, FromTheStart, period
  <2>3. /\ ticker' \in [interval : 1 .. MaxInterval, next : 1 .. MaxInterval, due : BOOLEAN]
        /\ pace' \in [told : 1 .. MaxInterval, dropped : 0 .. MaxInterval, credit : Int]
        /\ timer' \in [deadline : Nat \cup {Never}, expiry : Nat \cup {Never}]
    <3>1. deadline \in Nat \cup {Never}
      BY TimesAssumption
    <3>2. /\ pace \in [told : 1 .. MaxInterval, dropped : 0 .. MaxInterval, credit : Int]
          /\ timer \in [deadline : Nat \cup {Never}, expiry : Nat \cup {Never}]
      BY DEF IInv, Inv, TypeOK
    <3> QED
      BY <2>1, <2>2, <3>1, <3>2, Ranges
  <2>4. TypeOK'
    BY <2>2, <2>3, TimesAssumption DEF PollDeviceToken, IInv, Inv, TypeOK, NoCall, Answers
  <2>5. TickerKeepsPace'
    <3>1. /\ ticker'.interval = period /\ ticker'.next = period /\ ticker'.due = FALSE
          /\ pace'.told = period /\ pace'.dropped = 0 /\ pace'.credit = 0
          /\ call'.pc = "waiting"
      BY <2>2 DEF NoCall
    <3>2. Kept' = period
      BY <2>1, <3>1 DEF Kept
    <3>3. Owed' = 0
      BY <2>1, <3>1, TimesAssumption DEF Owed
    <3> QED
      BY <2>1, <3>1, <3>2, <3>3 DEF TickerKeepsPace
  <2>6. call.pc = "none" /\ call.answer = "none" /\ UNCHANGED <<grant, late, auth, mishap>>
    BY DEF PollDeviceToken, IInv, Inv, TokenIsOfTheApproval
  <2>7. call'.pc = "waiting" /\ call'.answer = "none"
    BY <2>2 DEF NoCall
  <2> QED
    BY <1>2, <2>4, <2>5, <2>6, <2>7
       DEF IInv, Inv, TokenIsOfTheApproval, Polling,
           ContextErrorMeansTimeIsUp, UserIsTheApprover, SpentInVainNeedsAMishap
<1> QED
  BY <1>1, <1>2 DEF PollDeviceToken

(* A timer that has ended stays ended while time passes.                   *)
LEMMA CountedDownLemma ==
  ASSUME NEW left \in Nat \cup {Never}
  PROVE  /\ CountedDown(left) \in Nat \cup {Never}
         /\ left = 0 => CountedDown(left) = 0
  BY TimesAssumption DEF CountedDown

(* The numbers of a call that polls.                                       *)
LEMMA PaceNumbers ==
  ASSUME IInv, Polling
  PROVE  /\ ticker.interval \in Nat /\ ticker.interval >= 1 /\ ticker.interval = Kept
         /\ ticker.next \in Nat /\ ticker.next >= 1 /\ ticker.next <= ticker.interval
         /\ ticker.due \in BOOLEAN
         /\ pace.told \in Nat /\ pace.dropped \in Nat /\ pace.credit \in Int
         /\ call.attempt \in Nat /\ call.attempt <= Attempts
         /\ call.pc = "requesting" => call.attempt >= 1
         /\ pace.credit >= Owed
  BY TimesAssumption DEF IInv, Inv, TypeOK, TickerKeepsPace

(* What a tick of the clock adds to the credit is what the ticker may need *)
(* of it, and what may be saved up is enough for both.                     *)
LEMMA TickPays ==
  ASSUME NEW interval \in Nat, interval >= 1, NEW next \in Nat, next >= 1, next <= interval,
         NEW due \in BOOLEAN, NEW reserve \in Int, reserve <= (Attempts - 1) * interval,
         NEW credit \in Int,
         credit >= Attempts * ((interval - next) + IF due THEN interval ELSE 0) + reserve,
         NEW next2, next2 = (IF next = 1 THEN interval ELSE next - 1),
         NEW due2, due2 = (due \/ next = 1)
  PROVE  AtMost(Attempts * (2 * interval - 1) + (Attempts - 1) * interval, credit + Attempts)
           >= Attempts * ((interval - next2) + IF due2 THEN interval ELSE 0) + reserve
<1>1. CASE Attempts = 1
  BY <1>1 DEF AtMost
<1>2. CASE Attempts = 2
  BY <1>2 DEF AtMost
<1> QED
  BY <1>1, <1>2, TimesAssumption

(* The heart of the pacing: the clock pays for what the ticker allows.     *)
LEMMA TickIInv ==
  ASSUME IInv, Tick
  PROVE  IInv'
<1>1. UNCHANGED <<grant, late, auth, call, mishap>>
  BY DEF Tick
<1>2. /\ timer' \in [deadline : Nat \cup {Never}, expiry : Nat \cup {Never}]
      /\ timer.deadline = 0 => timer'.deadline = 0
      /\ timer.expiry = 0 => timer'.expiry = 0
  BY CountedDownLemma DEF Tick, IInv, Inv, TypeOK
<1>3. CASE Polling
  <2>1. /\ ticker' = [ticker EXCEPT
                        !.next = IF ticker.next = 1 THEN ticker.interval ELSE ticker.next - 1,
                        !.due  = (ticker.due \/ ticker.next = 1)]
        /\ pace' = [pace EXCEPT !.credit = AtMost(MostSaved, pace.credit + Attempts)]
    BY <1>3 DEF Tick
  <2>2. /\ ticker \in [interval : 1 .. MaxInterval, next : 1 .. MaxInterval, due : BOOLEAN]
        /\ pace \in [told : 1 .. MaxInterval, dropped : 0 .. MaxInterval, credit : Int]
        /\ MaxInterval \in Nat
    BY TimesAssumption DEF IInv, Inv, TypeOK
  <2>3. /\ ticker'.interval = ticker.interval
        /\ ticker'.next = IF ticker.next = 1 THEN ticker.interval ELSE ticker.next - 1
        /\ ticker'.due = (ticker.due \/ ticker.next = 1)
        /\ pace'.told = pace.told /\ pace'.dropped = pace.dropped
        /\ pace'.credit = AtMost(MostSaved, pace.credit + Attempts)
    BY <2>1, <2>2
  <2>4. /\ ticker' \in [interval : 1 .. MaxInterval, next : 1 .. MaxInterval, due : BOOLEAN]
        /\ pace' \in [told : 1 .. MaxInterval, dropped : 0 .. MaxInterval, credit : Int]
    <3>1. AtMost(MostSaved, pace.credit + Attempts) \in Int
      <4>1. Kept \in Int /\ Attempts \in Int
        BY <2>2, TimesAssumption DEF Kept
      <4>2. MostSaved \in Int
        BY <4>1 DEF MostSaved
      <4> QED
        BY <2>2, <4>1, <4>2 DEF AtMost
    <3>2. (IF ticker.next = 1 THEN ticker.interval ELSE ticker.next - 1) \in 1 .. MaxInterval
      BY <2>2
    <3> QED
      BY <2>1, <2>2, <3>1, <3>2
  <2> DEFINE reserve == IF call.pc = "requesting"
                        THEN (Attempts - call.attempt) * ticker.interval ELSE 0
  <2>5. Kept' = Kept /\ ticker'.next <= ticker'.interval
    BY <1>3, <2>3, PaceNumbers DEF Kept
  <2>6. reserve \in Int /\ reserve <= (Attempts - 1) * ticker.interval
    <3>1. CASE Attempts = 1
      BY <1>3, <3>1, PaceNumbers
    <3>2. CASE Attempts = 2
      BY <1>3, <3>2, PaceNumbers
    <3> QED
      BY <3>1, <3>2, TimesAssumption
  <2>7. /\ Owed = Attempts * ((ticker.interval - ticker.next)
                               + IF ticker.due THEN ticker.interval ELSE 0) + reserve
        /\ Owed' = Attempts * ((ticker.interval - ticker'.next)
                               + IF ticker'.due THEN ticker.interval ELSE 0) + reserve
    BY <1>1, <2>3, Zenon DEF Owed
  <2> HIDE DEF reserve
  <2>8. pace'.credit >= Owed'
    <3>1. MostSaved = Attempts * (2 * ticker.interval - 1) + (Attempts - 1) * ticker.interval
      BY <1>3, PaceNumbers DEF MostSaved
    <3>2. /\ ticker.interval \in Nat /\ ticker.interval >= 1
          /\ ticker.next \in Nat /\ ticker.next >= 1 /\ ticker.next <= ticker.interval
          /\ ticker.due \in BOOLEAN /\ pace.credit \in Int
          /\ pace.credit >= Attempts * ((ticker.interval - ticker.next)
                               + IF ticker.due THEN ticker.interval ELSE 0) + reserve
      BY <1>3, <2>7, PaceNumbers
    <3> QED
      BY <2>3, <2>6, <2>7, <3>1, <3>2, TickPays
  <2>9. TickerKeepsPace'
    BY <1>1, <1>3, <2>3, <2>5, <2>8 DEF IInv, Inv, TickerKeepsPace
  <2> QED
    BY <1>1, <1>2, <1>3, <2>3, <2>4, <2>9
       DEF IInv, Inv, TypeOK, TokenIsOfTheApproval, Polling,
           ContextErrorMeansTimeIsUp, UserIsTheApprover, SpentInVainNeedsAMishap
<1>4. CASE ~ Polling
  <2>1. UNCHANGED <<ticker, pace>>
    BY <1>4 DEF Tick
  <2> QED
    BY <1>1, <1>2, <1>4, <2>1, PaceIsKept
       DEF IInv, Inv, TypeOK, TokenIsOfTheApproval, Polling,
           ContextErrorMeansTimeIsUp, UserIsTheApprover, SpentInVainNeedsAMishap
<1> QED
  BY <1>3, <1>4

LEMMA CancelIInv ==
  ASSUME IInv, Cancel
  PROVE  IInv'
<1>1. timer' \in [deadline : Nat \cup {Never}, expiry : Nat \cup {Never}]
  BY DEF Cancel, IInv, Inv, TypeOK
<1> QED
  BY <1>1, PaceIsKept DEF Cancel, IInv, Inv, TypeOK, TokenIsOfTheApproval, Polling,
              ContextErrorMeansTimeIsUp, UserIsTheApprover, SpentInVainNeedsAMishap

LEMMA GiveUpIInv ==
  ASSUME IInv, GiveUp
  PROVE  IInv'
<1>1. call'.pc = "returned" /\ call'.answer = "none" /\ call'.result = ErrContext
  BY ReturnLemma, ErrorTypes DEF GiveUp
<1>2. TypeOK'
  BY ReturnLemma, ErrorTypes DEF GiveUp, IInv, Inv, TypeOK
<1>3. timer'.deadline = 0 \/ timer'.expiry = 0
  BY DEF GiveUp, CtxDone
<1> QED
  BY <1>1, <1>2, <1>3, ErrorTypes, PaceIsKept
     DEF GiveUp, IInv, Inv, TokenIsOfTheApproval, Polling,
         ContextErrorMeansTimeIsUp, UserIsTheApprover, SpentInVainNeedsAMishap

LEMMA SendIInv ==
  ASSUME IInv, Send
  PROVE  IInv'
<1>1. /\ call' = [call EXCEPT !.pc = "requesting", !.attempt = 1]
      /\ ticker' = [ticker EXCEPT !.due = FALSE]
      /\ pace' = [pace EXCEPT !.credit = pace.credit - Kept]
      /\ call.pc = "waiting" /\ ticker.due /\ UNCHANGED <<grant, late, auth, timer, mishap>>
  BY DEF Send
<1>2. Polling
  BY <1>1 DEF Polling
<1>3. TypeOK'
  <2>1. pace.credit - Kept \in Int
    BY <1>2, PaceNumbers
  <2> QED
    BY <1>1, <2>1, Ranges DEF IInv, Inv, TypeOK
<1>4. call'.pc = "requesting" /\ call'.attempt = 1 /\ call'.answer = call.answer
  BY <1>1 DEF IInv, Inv, TypeOK
<1>5. /\ ticker'.interval = ticker.interval /\ ticker'.next = ticker.next
      /\ ticker'.due = FALSE
      /\ pace'.told = pace.told /\ pace'.dropped = pace.dropped
      /\ pace'.credit = pace.credit - Kept
  BY <1>1 DEF IInv, Inv, TypeOK
<1>6. pace'.credit >= Owed'
  <2>1. Owed = Attempts * ((ticker.interval - ticker.next) + ticker.interval)
    <3>1. Owed = Attempts * ((ticker.interval - ticker.next) + ticker.interval) + 0
      BY <1>1 DEF Owed
    <3> QED
      BY <1>2, <3>1, PaceNumbers, TimesAssumption
  <2>2. Owed' = Attempts * ((ticker.interval - ticker.next) + 0) + (Attempts - 1) * ticker.interval
    BY <1>4, <1>5 DEF Owed
  <2>3. CASE Attempts = 1
    BY <1>2, <1>5, <2>1, <2>2, <2>3, PaceNumbers
  <2>4. CASE Attempts = 2
    BY <1>2, <1>5, <2>1, <2>2, <2>4, PaceNumbers
  <2> QED
    BY <2>3, <2>4, TimesAssumption
<1>7. TickerKeepsPace'
  BY <1>2, <1>4, <1>5, <1>6 DEF IInv, Inv, TickerKeepsPace, Kept
<1> QED
  BY <1>1, <1>3, <1>4, <1>7
     DEF IInv, Inv, TokenIsOfTheApproval, Polling,
         ContextErrorMeansTimeIsUp, UserIsTheApprover, SpentInVainNeedsAMishap

LEMMA AnswerIInv ==
  ASSUME IInv, Answer
  PROVE  IInv'
<1>1. PICK answer \in AnswersTo(grant.status) :
        /\ answer = "slow_down" => pace.told + SlowDownStep <= MaxInterval
        /\ call' = [call EXCEPT !.answer = answer]
        /\ grant' = IF answer = "token" THEN [grant EXCEPT !.status = "redeemed"] ELSE grant
  BY DEF Answer
<1>2. call.pc = "requesting" /\ UNCHANGED <<late, auth, timer, ticker, pace, mishap>>
  BY DEF Answer
<1>3. auth # None /\ grant.status # "none"
  BY <1>2 DEF IInv, Inv, Polling
<1>4. /\ answer \in {"token", "authorization_pending", "slow_down", "access_denied",
                     "expired_token", "invalid_grant", "server_error"}
      /\ answer = "token" => grant.status = "approved"
  BY <1>1, <1>3 DEF AnswersTo, IInv, Inv, TypeOK
<1>5. call'.pc = "requesting" /\ call'.answer = answer
  BY <1>1, <1>2 DEF IInv, Inv, TypeOK
<1>6. TypeOK'
  BY <1>1, <1>2, <1>4 DEF IInv, Inv, TypeOK, Answers
<1>7. TickerKeepsPace'
  <2>1. call'.attempt = call.attempt
    BY <1>1 DEF IInv, Inv, TypeOK
  <2> QED
    BY <1>2, <1>5, <2>1, PaceIsKept DEF IInv, Inv, Polling
<1>8. CASE answer = "token"
  <2>1. grant.status = "approved" /\ grant'.status = "redeemed" /\ grant'.by = grant.by
    BY <1>1, <1>4, <1>8 DEF IInv, Inv, TypeOK
  <2> QED
    BY <1>2, <1>3, <1>5, <1>6, <1>7, <1>8, <2>1
       DEF IInv, Inv, TokenIsOfTheApproval, Polling,
           ContextErrorMeansTimeIsUp, UserIsTheApprover, SpentInVainNeedsAMishap
<1>9. CASE answer # "token"
  <2>1. UNCHANGED grant
    BY <1>1, <1>9
  <2>2. SpentInVainNeedsAMishap'
    <3>1. ASSUME grant.status = "redeemed", call.answer = "token" PROVE FALSE
      BY <3>1 DEF Answer
    <3> QED
      BY <1>2, <2>1, <3>1 DEF IInv, SpentInVainNeedsAMishap
  <2> QED
    BY <1>1, <1>2, <1>3, <1>4, <1>5, <1>6, <1>7, <1>9, <2>1, <2>2
       DEF IInv, Inv, TokenIsOfTheApproval, Polling,
           ContextErrorMeansTimeIsUp, UserIsTheApprover
<1> QED
  BY <1>8, <1>9

LEMMA LoseIInv ==
  ASSUME IInv, Lose
  PROVE  IInv'
<1>1. call.pc = "requesting" /\ UNCHANGED <<grant, auth, timer, ticker, pace>>
  BY DEF Lose
<1>2. PICK loss \in Losses : /\ call' = [call EXCEPT !.answer = loss]
                             /\ loss = "timed_out" => RequestsTimeOut
  BY DEF Lose, Losses
<1>3. /\ call'.pc = "requesting" /\ call'.attempt = call.attempt
      /\ call'.answer = loss /\ loss \in {"lost", "timed_out"}
  BY <1>1, <1>2 DEF IInv, Inv, TypeOK, Losses
<1>4. TypeOK'
  BY <1>1, <1>2 DEF Lose, IInv, Inv, TypeOK, Answers
<1>5. mishap' = (mishap \/ call.answer = "token")
  BY DEF Lose
<1>6. TickerKeepsPace'
  BY <1>1, <1>3, PaceIsKept DEF IInv, Inv, Polling
<1> QED
  BY <1>1, <1>2, <1>3, <1>4, <1>5, <1>6
     DEF IInv, Inv, TokenIsOfTheApproval, Polling,
         ContextErrorMeansTimeIsUp, UserIsTheApprover, SpentInVainNeedsAMishap

LEMMA LateArrivalIInv ==
  ASSUME IInv, LateArrival
  PROVE  IInv'
<1>1. UNCHANGED <<auth, call, timer, ticker, pace>>
  BY DEF LateArrival
<1>2. CASE grant.status = "approved"
  <2>1. grant' = [grant EXCEPT !.status = "redeemed"] /\ mishap' = TRUE /\ late' = FALSE
    BY <1>2 DEF LateArrival
  <2>2. grant'.status = "redeemed" /\ grant'.by = grant.by
    BY <2>1 DEF IInv, Inv, TypeOK
  <2>3. TypeOK'
    BY <1>1, <2>1 DEF IInv, Inv, TypeOK
  <2> QED
    BY <1>1, <1>2, <2>1, <2>2, <2>3, PaceIsKept
       DEF IInv, Inv, TokenIsOfTheApproval, Polling,
           ContextErrorMeansTimeIsUp, UserIsTheApprover, SpentInVainNeedsAMishap
<1>3. CASE grant.status # "approved"
  <2>1. UNCHANGED <<grant, mishap>> /\ late' = FALSE
    BY <1>3 DEF LateArrival
  <2>2. TypeOK'
    <3>1. /\ grant' = grant /\ auth' = auth /\ call' = call
          /\ timer' = timer /\ ticker' = ticker /\ pace' = pace
      BY <1>1, <2>1
    <3>2. late' \in BOOLEAN /\ mishap' \in BOOLEAN
      BY <2>1 DEF IInv, Inv, TypeOK
    <3> QED
      BY <3>1, <3>2 DEF IInv, Inv, TypeOK
  <2> QED
    BY <1>1, <2>1, <2>2, PaceIsKept
       DEF IInv, Inv, TokenIsOfTheApproval, Polling,
           ContextErrorMeansTimeIsUp, UserIsTheApprover, SpentInVainNeedsAMishap
<1> QED
  BY <1>2, <1>3

LEMMA ReceiveIInv ==
  ASSUME IInv, Receive
  PROVE  IInv'
<1>1. /\ call.pc = "requesting" /\ call.answer # "none"
      /\ UNCHANGED <<grant, late, auth, timer, mishap>>
  BY DEF Receive
<1>2. CASE call.answer = "token"
  <2>1. call' = [NoCall EXCEPT !.pc = "verifying"] /\ UNCHANGED <<ticker, pace>>
    BY <1>2 DEF Receive
  <2>2. call'.pc = "verifying" /\ call'.answer = "none"
    BY <2>1 DEF NoCall
  <2>3. TypeOK'
    BY <1>1, <2>1, TimesAssumption DEF IInv, Inv, TypeOK, NoCall, Answers
  <2> QED
    BY <1>1, <1>2, <2>1, <2>2, <2>3, PaceIsKept
       DEF IInv, Inv, TokenIsOfTheApproval, Polling,
           ContextErrorMeansTimeIsUp, UserIsTheApprover, SpentInVainNeedsAMishap
<1>3. ASSUME call.answer # "token", NEW result \in {ErrContext, ErrAuthentication}, Return(result),
             result = ErrContext => CtxDone \/ RequestsTimeOut, UNCHANGED <<ticker, pace>>
      PROVE  IInv'
  <2>1. call'.pc = "returned" /\ call'.answer = "none" /\ call'.result = result
    BY <1>3, ReturnLemma, ErrorTypes
  <2>2. TypeOK'
    BY <1>1, <1>3, ReturnLemma, ErrorTypes DEF IInv, Inv, TypeOK
  <2>3. /\ result.err # "nil"
        /\ result.err = "context" =>
             RequestsTimeOut \/ timer.deadline = 0 \/ timer.expiry = 0
    BY <1>3, ErrorTypes DEF CtxDone
  <2> QED
    BY <1>1, <1>3, <2>1, <2>2, <2>3, PaceIsKept
       DEF IInv, Inv, TokenIsOfTheApproval, Polling,
           ContextErrorMeansTimeIsUp, UserIsTheApprover, SpentInVainNeedsAMishap
<1>4. CASE call.answer # "token" /\ call.attempt < Attempts
  <2>1. CASE CtxDone
    BY <1>3, <1>4, <2>1 DEF Receive
  <2>2. CASE ~ CtxDone
    <3>1. Repeat /\ UNCHANGED ticker
      BY <1>4, <2>2 DEF Receive
    <3>2. /\ call.pc = "requesting" /\ Polling
          /\ call' = [call EXCEPT !.attempt = call.attempt + 1, !.answer = "none"]
          /\ call'.pc = "requesting" /\ call'.answer = "none"
          /\ call'.attempt = call.attempt + 1
      BY <1>1, <3>1 DEF Repeat, IInv, Inv, TypeOK, Polling
    <3> DEFINE dropped == IF call.answer = "slow_down" THEN SlowDownStep ELSE 0
    <3>3. pace' = [told    |-> pace.told + dropped,
                   dropped |-> pace.dropped + dropped,
                   credit  |-> pace.credit - Kept]
      BY <3>1 DEF Repeat
    <3>4. dropped \in Nat /\ pace.told + dropped <= MaxInterval
      BY <3>2, TimesAssumption DEF IInv, Inv, TypeOK
    <3>5. /\ pace'.told = pace.told + dropped /\ pace'.dropped = pace.dropped + dropped
          /\ pace'.credit = pace.credit - Kept
      BY <3>3
    <3> HIDE DEF dropped
    <3>6. pace' \in [told : 1 .. MaxInterval, dropped : 0 .. MaxInterval, credit : Int]
      <4>1. /\ pace.told + dropped \in 1 .. MaxInterval
            /\ pace.dropped + dropped \in 0 .. MaxInterval
            /\ pace.credit - Kept \in Int
        BY <3>2, <3>4, PaceNumbers, TimesAssumption DEF IInv, Inv, TypeOK, Kept
      <4> QED
        BY <3>3, <4>1
    <3>7. TypeOK'
      <4>1. call.attempt + 1 \in 0 .. Attempts
        BY <1>4, TimesAssumption DEF IInv, Inv, TypeOK
      <4> QED
        BY <1>1, <3>1, <3>2, <3>6, <4>1 DEF IInv, Inv, TypeOK, Answers
    <3>8. TickerKeepsPace'
      <4>1. Attempts = 2 /\ call.attempt = 1
        BY <1>1, <1>4, <3>2, PaceNumbers, TimesAssumption
      <4>2. Kept' = Kept
        BY <3>2, <3>4, <3>5, PaceNumbers DEF Kept
      <4>3. pace'.credit >= Owed'
        <5>1. UNCHANGED ticker
          BY <3>1
        <5>2. Owed' = 2 * ((ticker.interval - ticker.next)
                             + IF ticker.due THEN ticker.interval ELSE 0) + (2 - 2) * ticker.interval
          BY <3>2, <4>1, <5>1 DEF Owed
        <5>3. Owed = 2 * ((ticker.interval - ticker.next)
                             + IF ticker.due THEN ticker.interval ELSE 0) + (2 - 1) * ticker.interval
          BY <3>2, <4>1 DEF Owed
        <5> QED
          BY <3>2, <3>5, <5>2, <5>3, PaceNumbers
      <4> QED
        BY <3>1, <3>2, <4>1, <4>2, <4>3, PaceNumbers DEF TickerKeepsPace
    <3> QED
      BY <1>1, <1>4, <3>1, <3>2, <3>7, <3>8
         DEF IInv, Inv, TokenIsOfTheApproval, Polling,
             ContextErrorMeansTimeIsUp, UserIsTheApprover, SpentInVainNeedsAMishap
  <2> QED
    BY <2>1, <2>2
<1>5. CASE call.answer # "token" /\ ~ (call.attempt < Attempts) /\ Continues(call.answer)
  <2>1. call' = [NoCall EXCEPT !.pc = "waiting"]
    BY <1>5 DEF Receive
  <2>2. call'.pc = "waiting" /\ call'.answer = "none"
    BY <2>1 DEF NoCall
  <2>3. /\ ticker' \in [interval : 1 .. MaxInterval, next : 1 .. MaxInterval, due : BOOLEAN]
        /\ pace' \in [told : 1 .. MaxInterval, dropped : 0 .. MaxInterval, credit : Int]
        /\ TickerKeepsPace'
    <3>1. Polling /\ call.attempt = Attempts
      BY <1>1, <1>5, TimesAssumption DEF IInv, Inv, TypeOK, Polling
    <3>2. CASE call.answer = "slow_down"
      <4>1. /\ ticker' = SlowedDown
            /\ pace' = [pace EXCEPT !.told = pace.told + SlowDownStep, !.credit = 0]
        BY <1>5, <3>2 DEF Receive
      <4> PICK interval : interval = ticker.interval + SlowDownStep
        OBVIOUS
      <4>2. /\ pace.told + SlowDownStep \in 1 .. MaxInterval
            /\ interval \in 1 .. MaxInterval /\ interval \in Nat
            /\ interval = (pace.told + SlowDownStep) - pace.dropped
        BY <3>1, <3>2, PaceNumbers, TimesAssumption DEF IInv, Inv, Kept
      <4>3. ticker' = [interval |-> interval, next |-> interval, due |-> FALSE]
        BY <4>1 DEF SlowedDown
      <4>4. pace \in [told : 1 .. MaxInterval, dropped : 0 .. MaxInterval, credit : Int]
        BY DEF IInv, Inv, TypeOK
      <4>5. /\ ticker'.interval = interval /\ ticker'.next = interval /\ ticker'.due = FALSE
            /\ pace'.told = pace.told + SlowDownStep
            /\ pace'.dropped = pace.dropped /\ pace'.credit = 0
        BY <4>1, <4>3, <4>4
      <4>6. /\ ticker' \in [interval : 1 .. MaxInterval, next : 1 .. MaxInterval, due : BOOLEAN]
            /\ pace' \in [told : 1 .. MaxInterval, dropped : 0 .. MaxInterval, credit : Int]
        <5>1. ticker' \in [interval : 1 .. MaxInterval, next : 1 .. MaxInterval, due : BOOLEAN]
          BY <4>2, <4>3
        <5>2. pace' \in [told : 1 .. MaxInterval, dropped : 0 .. MaxInterval, credit : Int]
          BY <4>1, <4>2, <4>4, Ranges
        <5> QED
          BY <5>1, <5>2
      <4>7. Kept' = interval
        BY <4>2, <4>5 DEF Kept
      <4>8. Owed' = 0
        BY <2>2, <4>2, <4>5, TimesAssumption DEF Owed
      <4>9. Attempts = 1 => pace'.dropped = 0
        BY <3>1, <4>5 DEF IInv, Inv, TickerKeepsPace
      <4> QED
        BY <2>2, <4>2, <4>5, <4>6, <4>7, <4>8, <4>9 DEF TickerKeepsPace
    <3>3. CASE call.answer # "slow_down"
      <4>1. UNCHANGED <<ticker, pace>>
        BY <1>5, <3>3 DEF Receive
      <4>2. Kept' = Kept
        BY <4>1 DEF Kept
      <4>3. Owed' = Owed
        <5>1. Owed = Attempts * ((ticker.interval - ticker.next)
                       + IF ticker.due THEN ticker.interval ELSE 0) + (Attempts - Attempts) * ticker.interval
          BY <1>1, <3>1 DEF Owed
        <5>2. Owed' = Attempts * ((ticker.interval - ticker.next)
                       + IF ticker.due THEN ticker.interval ELSE 0) + 0
          BY <2>2, <4>1 DEF Owed
        <5>3. (Attempts - Attempts) * ticker.interval = 0
          BY <3>1, PaceNumbers, TimesAssumption
        <5> QED
          BY <5>1, <5>2, <5>3
      <4>4. TickerKeepsPace'
        BY <2>2, <3>1, <4>1, <4>2, <4>3 DEF IInv, Inv, TickerKeepsPace
      <4> QED
        BY <4>1, <4>4 DEF IInv, Inv, TypeOK
    <3> QED
      BY <3>2, <3>3
  <2>4. TypeOK'
    BY <1>1, <2>1, <2>3, TimesAssumption DEF IInv, Inv, TypeOK, NoCall, Answers
  <2> QED
    BY <1>1, <1>5, <2>2, <2>3, <2>4
       DEF IInv, Inv, TokenIsOfTheApproval, Polling,
           ContextErrorMeansTimeIsUp, UserIsTheApprover, SpentInVainNeedsAMishap
<1>6. CASE call.answer # "token" /\ ~ (call.attempt < Attempts) /\ ~ Continues(call.answer)
  <2>1. Return(ErrorOf(call.answer)) /\ UNCHANGED <<ticker, pace>>
    BY <1>6 DEF Receive
  <2>2. /\ ErrorOf(call.answer) \in {ErrContext, ErrAuthentication}
        /\ ErrorOf(call.answer) = ErrContext => RequestsTimeOut
    BY ErrorTypes DEF ErrorOf, IInv, Inv
  <2> QED
    BY <1>3, <1>6, <2>1, <2>2
<1> QED
  BY <1>2, <1>4, <1>5, <1>6

LEMMA InterruptedIInv ==
  ASSUME IInv, Interrupted
  PROVE  IInv'
<1>1. PICK result \in {ErrContext, ErrAuthentication} : Return(result)
  BY DEF Interrupted
<1>2. call'.pc = "returned" /\ call'.answer = "none" /\ call'.result = result
  BY <1>1, ReturnLemma, ErrorTypes
<1>3. TypeOK'
  BY <1>1, ReturnLemma, ErrorTypes DEF Interrupted, IInv, Inv, TypeOK
<1>4. timer'.deadline = 0 \/ timer'.expiry = 0
  BY DEF Interrupted, CtxDone
<1>5. result.err # "nil"
  BY ErrorTypes
<1> QED
  BY <1>2, <1>3, <1>4, <1>5, PaceIsKept
     DEF Interrupted, IInv, Inv, TokenIsOfTheApproval, Polling,
         ContextErrorMeansTimeIsUp, UserIsTheApprover, SpentInVainNeedsAMishap

LEMMA FinishIInv ==
  ASSUME IInv, Finish
  PROVE  IInv'
<1>1. PICK token \in Tokens, profile \in Profiles :
        /\ Return(DeviceUser(token, profile))
        /\ mishap' = \/ mishap
                     \/ token.idToken = "unverifiable"
                     \/ profile \notin {NoClaims, ClaimsAbout(grant.by)}
                     \/ token.idToken = "none" /\ profile = NoClaims
  BY DEF Finish
<1>2. /\ call.pc = "verifying" /\ grant.status = "redeemed" /\ auth # None
      /\ UNCHANGED <<grant, late, auth, timer, ticker, pace>>
  BY DEF Finish, IInv, Inv, TokenIsOfTheApproval
<1>3. grant.by \in People
  BY <1>2 DEF IInv, Inv, TypeOK, TokenIsOfTheApproval
<1> PICK result : result = DeviceUser(token, profile)
  OBVIOUS
<1>4. /\ result \in Result
      /\ result.err \in {"nil", "ErrAuthentication"}
      /\ result.err = "nil" =>
           /\ result.user.token = token
           /\ token.idToken = "verified" =>
                /\ result.user.id = grant.by
                /\ result.user.claims["email"] \in {Absent, grant.by}
      /\ \/ result.err = "nil"
         \/ token.idToken = "unverifiable"
         \/ profile \notin {NoClaims, ClaimsAbout(grant.by)}
         \/ token.idToken = "none" /\ profile = NoClaims
  BY <1>3, DeviceUserLemma
<1>5. call'.pc = "returned" /\ call'.answer = "none" /\ call'.result = result
  BY <1>1, <1>4, ReturnLemma
<1>6. mishap' \in BOOLEAN
  BY <1>1
<1>7. TypeOK'
  BY <1>1, <1>2, <1>4, <1>6, ReturnLemma DEF IInv, Inv, TypeOK
<1>8. UserIsTheApprover'
  BY <1>2, <1>4, <1>5 DEF UserIsTheApprover
<1>9. SpentInVainNeedsAMishap'
  BY <1>1, <1>4, <1>5 DEF SpentInVainNeedsAMishap
<1> QED
  BY <1>2, <1>4, <1>5, <1>7, <1>8, <1>9, PaceIsKept
     DEF IInv, Inv, TokenIsOfTheApproval, Polling, ContextErrorMeansTimeIsUp

LEMMA AppResumesIInv ==
  ASSUME IInv, AppResumes
  PROVE  IInv'
<1>1. call'.pc = "none" /\ call'.answer = "none"
  BY DEF AppResumes, NoCall
<1>2. TypeOK'
  BY TimesAssumption DEF AppResumes, NoCall, IInv, Inv, TypeOK, Answers
<1>3. call.answer = "none"
  BY DEF AppResumes, IInv, Inv, TokenIsOfTheApproval
<1> QED
  BY <1>1, <1>2, <1>3, PaceIsKept
     DEF AppResumes, IInv, Inv, TokenIsOfTheApproval, Polling,
         ContextErrorMeansTimeIsUp, UserIsTheApprover, SpentInVainNeedsAMishap

LEMMA StepIInv ==
  ASSUME IInv, [Next]_vars
  PROVE  IInv'
<1>1. ASSUME UNCHANGED vars PROVE IInv'
  BY <1>1, PaceIsKept DEF vars, IInv, Inv, TypeOK, TokenIsOfTheApproval, Polling,
              ContextErrorMeansTimeIsUp, UserIsTheApprover, SpentInVainNeedsAMishap
<1> QED
  BY <1>1, RequestIInv, CodeChangesIInv, PollIInv, TickIInv, CancelIInv, GiveUpIInv, SendIInv,
     AnswerIInv, LoseIInv, LateArrivalIInv, ReceiveIInv, InterruptedIInv, FinishIInv,
     AppResumesIInv DEF Next

(***************************************************************************)
(* Everything below holds in every reachable state.                        *)
(***************************************************************************)
THEOREM AllInvariance == Spec => []IInv
<1>1. Init => IInv
  BY InitIInv
<1>2. IInv /\ [Next]_vars => IInv'
  BY StepIInv
<1> QED
  BY <1>1, <1>2, PTL DEF Spec

(***************************************************************************)
(* The ticker never allows more polls than the clock has paid for.         *)
(***************************************************************************)
THEOREM Invariance == Spec => []Inv
<1>1. IInv => Inv
  BY DEF IInv
<1> QED
  BY <1>1, AllInvariance, PTL

(***************************************************************************)
(* For any interval, any slow_down and any lateness of answers: no more    *)
(* than Attempts requests for each interval that the loop keeps, beyond    *)
(* what a late answer has saved up.  With one request in a poll that is    *)
(* the interval the instance asked for (SlowDownsReachTheTicker); with two *)
(* it is a half of it, and lacks the slow_downs that were dropped.         *)
(***************************************************************************)
THEOREM PollsKeepPace == Spec => []PollsArePaced
<1>1. IInv => PollsArePaced
  <2> SUFFICES ASSUME IInv, Polling PROVE pace.credit >= 0
    BY DEF PollsArePaced
  <2>1. Owed >= 0
    <3>1. CASE Attempts = 1
      BY <3>1, PaceNumbers DEF Owed
    <3>2. CASE Attempts = 2
      BY <3>2, PaceNumbers DEF Owed
    <3> QED
      BY <3>1, <3>2, TimesAssumption
  <2>2. Owed \in Int
    BY PaceNumbers, TimesAssumption DEF Owed
  <2> QED
    BY <2>1, <2>2, PaceNumbers
<1> QED
  BY <1>1, AllInvariance, PTL

(***************************************************************************)
(* A client that has learned how to authenticate drops no slow_down: the   *)
(* ticker runs at the interval the instance has told it.                   *)
(***************************************************************************)
THEOREM SlowDownsReachTheTicker == Spec => []SlowDownsAreHeard
<1>1. IInv => SlowDownsAreHeard
  <2> SUFFICES ASSUME IInv, Attempts = 1, Polling PROVE ticker.interval = pace.told
    BY DEF SlowDownsAreHeard
  <2>1. pace.dropped = 0
    BY DEF IInv, Inv, TickerKeepsPace
  <2> QED
    BY <2>1, PaceNumbers DEF Kept
<1> QED
  BY <1>1, AllInvariance, PTL

(***************************************************************************)
(* With an HTTP client that has no timeout, an error of the context is     *)
(* never made up.  A timeout of the client is returned as one (ErrorOf).   *)
(***************************************************************************)
THEOREM ContextErrorsAreTrue == Spec => []ContextErrorMeansTimeIsUp
<1>1. IInv => ContextErrorMeansTimeIsUp
  BY DEF IInv
<1> QED
  BY <1>1, AllInvariance, PTL

(***************************************************************************)
(* The user is the person who approved, whatever UserInfo answers.         *)
(***************************************************************************)
THEOREM UsersAreApprovers == Spec => []UserIsTheApprover
<1>1. IInv => UserIsTheApprover
  BY DEF IInv
<1> QED
  BY <1>1, AllInvariance, PTL

(***************************************************************************)
(* The code itself never spends an approval in vain.                       *)
(***************************************************************************)
THEOREM ApprovalsAreNotWasted == Spec => []SpentInVainNeedsAMishap
<1>1. IInv => SpentInVainNeedsAMishap
  BY DEF IInv
<1> QED
  BY <1>1, AllInvariance, PTL
=============================================================================
