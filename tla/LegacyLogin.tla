----------------------------- MODULE LegacyLogin -----------------------------
(***************************************************************************)
(* LegacyLoginHandler (legacy.go): while an application migrates to Cbox   *)
(* ID, sign-ins of people Cbox ID does not know are offered to the old     *)
(* system, as signed requests this handler answers with the verdict of the *)
(* application's verifier.                                                 *)
(*                                                                         *)
(* External: Cbox ID, which signs a request for a sign-in with its own     *)
(* clock and asks again when it got no decision; the network, which keeps  *)
(* requests back, repeats them, loses answers, or runs them through        *)
(* something that writes their body anew; and the verifier, which gives a  *)
(* true answer or, in an outage, none.                                     *)
(***************************************************************************)
EXTENDS Webhook

CONSTANTS SignIns,   \* people at the sign-in form of Cbox ID
          Workers,   \* goroutines serving the handler
          Tolerance, \* the toleranceSeconds of the handler
          Skews,     \* how far the clock of Cbox ID may be off
          MaxTime,   \* bound: the last tick of the clock
          MaxAsked   \* bound: requests signed for one sign-in

ASSUME ToleranceAssumption == Tolerance \in Nat \ {0}
ASSUME BoundsAssumption    == MaxTime \in Nat /\ MaxAsked \in Nat /\ Skews \subseteq Int

(* Clocks are nowhere near the ends of int64.                              *)
ASSUME ClocksAssumption ==
  \A time, signed \in 0..MaxTime, skew \in Skews :
    IsInt64(signed + skew) /\ IsInt64(time - (signed + skew))

VARIABLES
  now,      \* the clock of the application
  skew,     \* the clock of Cbox ID is that of the application plus skew
  password, \* per sign-in: what the person typed, or none for the tooling
  asked,    \* per sign-in: the requests Cbox ID signed for it
  wire,     \* the requests that can still arrive
  work,     \* per worker: the request it serves
  told      \* per sign-in: the decisions Cbox ID has heard

vars == <<now, skew, password, asked, wire, work, told>>

TheSecret == "ours"

(* A body: whose sign-in, what was typed, and how it is written: as Cbox   *)
(* ID writes it, as JSON of another kind (a webhook sent to this URL), or  *)
(* decoded and encoded again on its way.                                   *)
Body(s, typed, form) == [email |-> s, password |-> typed, form |-> form]

Request(s, typed, form, timestamp, sentAt) ==
  LET body == Body(s, typed, form) IN
  [raw    |-> body,
   header |-> <<Segment("t", timestamp), Segment("v1", MAC(TheSecret, timestamp, body))>>,
   sentAt |-> sentAt]

NoWork == [pc |-> "free"]

Init ==
  /\ now = 0
  /\ skew \in Skews
  /\ password \in [SignIns -> {"right", "wrong", "none"}]
  /\ asked = [s \in SignIns |-> 0]
  /\ wire = {}
  /\ work = [w \in Workers |-> NoWork]
  /\ told = [s \in SignIns |-> {}]

-----------------------------------------------------------------------------
(* External: the sender and the network.                                   *)

Tick ==
  /\ now < MaxTime
  /\ now' = now + 1
  /\ UNCHANGED <<skew, password, asked, wire, work, told>>

(* Cbox ID asks, first or again, unless it was told already.               *)
Ask(s) ==
  /\ told[s] = {}
  /\ asked[s] < MaxAsked
  /\ asked' = [asked EXCEPT ![s] = @ + 1]
  /\ \E form \in {"login", "webhook"} :
       wire' = wire \cup {Request(s, password[s], form,
                                  Timestamp(now + skew, now + skew), now)}
  /\ UNCHANGED <<now, skew, password, work, told>>

Rewrite ==
  /\ \E request \in wire :
       /\ request.raw.form = "login"
       /\ wire' = (wire \ {request}) \cup {[request EXCEPT !.raw.form = "re-encoded"]}
  /\ UNCHANGED <<now, skew, password, asked, work, told>>

-----------------------------------------------------------------------------
(* The handler.                                                            *)

Answer(status, user) == [status |-> status, user |-> user]

BadRequest   == Answer(400, "none")
Unauthorized == Answer(401, "none")
Unavailable  == Answer(503, "none")
NoUser       == Answer(200, "null")
TheUser      == Answer(200, "user")

(* Mutations.                                                              *)
RefusedWithoutSignature(request, time) ==
  IF request.raw.form = "webhook" THEN BadRequest
  ELSE IF request.raw.password = "none" THEN NoUser
  ELSE NoWork
AnsweredAsNo(verdict) ==
  IF verdict = "user" THEN TheUser ELSE NoUser
AnsweredWithoutNilCheck(verdict) ==
  IF verdict = "error" THEN Unavailable ELSE Answer(200, verdict)

(* What is answered without asking the verifier, if anything.              *)
Refused(request, time) ==
  IF ~ VerifyWebhook(request.raw, request.header, TheSecret, Tolerance, time) THEN Unauthorized
  ELSE IF request.raw.form = "webhook" THEN BadRequest
  ELSE IF request.raw.password = "none" THEN NoUser
  ELSE NoWork

(* What the verdict of the verifier is answered as.                        *)
Answered(verdict) ==
  CASE verdict = "error" -> Unavailable
    [] verdict = "nil"   -> NoUser
    [] verdict = "user"  -> TheUser

(* A request arrives; it may arrive again.  The body may not be readable.  *)
Serve(w, request) ==
  /\ work[w].pc = "free"
  /\ request \in wire
  /\ \E readable \in BOOLEAN :
       LET refused == IF readable THEN Refused(request, now) ELSE BadRequest IN
       work' = [work EXCEPT ![w] =
                  IF refused = NoWork
                  THEN [pc |-> "verifying", request |-> request, readAt |-> now]
                  ELSE [pc |-> "answering", request |-> request, answer |-> refused]]
  /\ UNCHANGED <<now, skew, password, asked, wire, told>>

(* The verifier is true to the password it is given.                       *)
Verdicts(typed) == {"error", IF typed = "right" THEN "user" ELSE "nil"}

Verify(w) ==
  /\ work[w].pc = "verifying"
  /\ \E verdict \in Verdicts(work[w].request.raw.password) :
       work' = [work EXCEPT ![w] = [pc      |-> "answering",
                                    request |-> work[w].request,
                                    answer  |-> Answered(verdict)]]
  /\ UNCHANGED <<now, skew, password, asked, wire, told>>

-----------------------------------------------------------------------------
(* External: Cbox ID reads the answer, a 200 as a decision; or it is lost. *)

Decision(answer) ==
  IF answer.status # 200 THEN {} ELSE {IF answer.user = "null" THEN "no" ELSE "yes"}

Hear(w) ==
  /\ work[w].pc = "answering"
  /\ told' = [told EXCEPT ![work[w].request.raw.email] =
                @ \cup Decision(work[w].answer)]
  /\ work' = [work EXCEPT ![w] = NoWork]
  /\ UNCHANGED <<now, skew, password, asked, wire>>

Lose(w) ==
  /\ work[w].pc = "answering"
  /\ work' = [work EXCEPT ![w] = NoWork]
  /\ UNCHANGED <<now, skew, password, asked, wire, told>>

Next ==
  \/ Tick
  \/ \E s \in SignIns : Ask(s)
  \/ Rewrite
  \/ \E w \in Workers, request \in wire : Serve(w, request)
  \/ \E w \in Workers : Verify(w) \/ Hear(w) \/ Lose(w)

Spec == Init /\ [][Next]_vars

-----------------------------------------------------------------------------
(* Properties.                                                             *)

Answers == {BadRequest, Unauthorized, Unavailable, NoUser, TheUser}

(* Where the state of the handler, the clocks and the sender range.        *)
TypeOK ==
  /\ now \in 0..MaxTime
  /\ skew \in Skews
  /\ password \in [SignIns -> {"right", "wrong", "none"}]
  /\ asked \in [SignIns -> 0..MaxAsked]
  /\ DOMAIN work = Workers
  /\ \A w \in Workers : work[w].pc \in {"free", "verifying", "answering"}
  /\ told \in [SignIns -> SUBSET {"yes", "no"}]

(* legacy.go 29-33, 39-41, 108-122: whatever breaks, arrives twice or      *)
(* arrives late, nobody is told that a right password is wrong, neither by *)
(* an outage of the store nor by a request that failed to verify, and      *)
(* nobody is admitted but with the password the old system knows.          *)
DecisionsAreTrue ==
  \A s \in SignIns : /\ "no" \in told[s] => password[s] # "right"
                     /\ "yes" \in told[s] => password[s] = "right"

(* legacy.go 43-50: the verifier sees a password only within the tolerance *)
(* of its signing and only as it was signed; a request kept back longer is *)
(* dead, whatever the clocks disagree by.                                  *)
VerifierSeesOnlyFresh ==
  \A w \in Workers : work[w].pc = "verifying" =>
    /\ work[w].request.raw.form = "login"
    /\ work[w].readAt - work[w].request.sentAt \in (skew - Tolerance)..(skew + Tolerance)

-----------------------------------------------------------------------------
(* The inductive invariant: what is on its way is what Cbox ID signed, but *)
(* for the writing of its body; and what a worker is about to verify or to *)
(* answer is true to the password of its sign-in.                          *)
Sent(request) ==
  \E s \in SignIns, form \in {"login", "webhook"}, sentAt \in 0..now :
    LET signed == Request(s, password[s], form,
                          Timestamp(sentAt + skew, sentAt + skew), sentAt)
    IN  request = signed \/ request = [signed EXCEPT !.raw.form = "re-encoded"]

WireOK == \A request \in wire : Sent(request)

TrueTo(answer, typed) ==
  /\ answer \in Answers
  /\ answer = NoUser => typed # "right"
  /\ answer = TheUser => typed = "right"

WorkOK ==
  \A w \in Workers :
    LET raw == work[w].request.raw IN
    /\ work[w].pc = "verifying" => /\ raw.email \in SignIns
                                   /\ raw.password = password[raw.email]
    /\ work[w].pc = "answering" => /\ raw.email \in SignIns
                                   /\ TrueTo(work[w].answer, password[raw.email])

Inv ==
  /\ TypeOK
  /\ WireOK
  /\ WorkOK
  /\ VerifierSeesOnlyFresh
  /\ DecisionsAreTrue
=============================================================================
