-------------------------- MODULE LegacyLoginProofs --------------------------
(***************************************************************************)
(* Proofs about LegacyLogin for any number of sign-ins and workers, and    *)
(* for clocks that may disagree by anything.                               *)
(***************************************************************************)
EXTENDS LegacyLogin, TLAPS

(***************************************************************************)
(* Cbox ID writes a header of two segments: each is found by its key.      *)
(***************************************************************************)
LEMMA HeaderValues ==
  ASSUME NEW timestamp, NEW signature, NEW absent
  PROVE  LET header == <<Segment("t", timestamp), Segment("v1", signature)>>
         IN  /\ ValueOf("t", header, absent) = timestamp
             /\ ValueOf("v1", header, absent) = signature
<1> DEFINE header == <<Segment("t", timestamp), Segment("v1", signature)>>
<1>1. /\ DOMAIN header = {1, 2}
      /\ header[1].key = "t" /\ header[1].value = timestamp
      /\ header[2].key = "v1" /\ header[2].value = signature
  BY DEF Segment
<1> HIDE DEF header
<1>2. ValueOf("t", header, absent) = timestamp
  <2> DEFINE with == {i \in DOMAIN header : header[i].key = "t"}
  <2>1. with = {1}
    BY <1>1
  <2>2. (CHOOSE i \in with : \A j \in with : j <= i) = 1
    BY <2>1
  <2> QED
    BY <1>1, <2>1, <2>2 DEF ValueOf
<1>3. ValueOf("v1", header, absent) = signature
  <2> DEFINE with == {i \in DOMAIN header : header[i].key = "v1"}
  <2>1. with = {2}
    BY <1>1
  <2>2. (CHOOSE i \in with : \A j \in with : j <= i) = 2
    BY <2>1
  <2> QED
    BY <1>1, <2>1, <2>2 DEF ValueOf
<1> QED
  BY <1>2, <1>3 DEF header

(***************************************************************************)
(* What VerifyWebhook lets through (webhook.go 39-51): of the requests that*)
(* come of Cbox ID, those within the tolerance, written as they were       *)
(* signed.                                                                 *)
(***************************************************************************)
LEMMA VerifiedIsFresh ==
  ASSUME NEW s \in SignIns, NEW typed, NEW form, NEW sentAt \in 0..MaxTime,
         NEW off \in Skews, NEW raw, NEW time \in 0..MaxTime,
         VerifyWebhook(raw,
                       Request(s, typed, form, Timestamp(sentAt + off, sentAt + off), sentAt).header,
                       TheSecret, Tolerance, time)
  PROVE  /\ raw = Body(s, typed, form)
         /\ time - sentAt \in (off - Tolerance)..(off + Tolerance)
<1> DEFINE timestamp == Timestamp(sentAt + off, sentAt + off)
           signature == MAC(TheSecret, timestamp, Body(s, typed, form))
           header    == <<Segment("t", timestamp), Segment("v1", signature)>>
           delta     == Wrapped(time - timestamp.int)
<1>1. Request(s, typed, form, timestamp, sentAt).header = header
  BY DEF Request
<1>2. /\ ValueOf("t", header, NoTimestamp) = timestamp
      /\ ValueOf("v1", header, NoSignature) = signature
  BY HeaderValues
<1>3. /\ delta <= Tolerance /\ delta >= -Tolerance
      /\ signature = MAC(TheSecret, timestamp, raw)
  BY <1>1, <1>2, ToleranceAssumption DEF VerifyWebhook
<1>4. raw = Body(s, typed, form)
  BY <1>3 DEF MAC
<1>5. delta = time - (sentAt + off)
  BY ClocksAssumption DEF IsInt64, Timestamp
<1> QED
  BY <1>3, <1>4, <1>5, BoundsAssumption, ToleranceAssumption

LEMMA InitInv == Init => Inv
  BY BoundsAssumption
     DEF Init, Inv, TypeOK, WireOK, WorkOK, VerifierSeesOnlyFresh, DecisionsAreTrue, NoWork

(***************************************************************************)
(* A request on its way is from one of the sign-ins, with what was typed   *)
(* there.                                                                  *)
(***************************************************************************)
LEMMA SentIsOfASignIn ==
  ASSUME NEW request, Sent(request)
  PROVE  /\ request.raw.email \in SignIns
         /\ request.raw.password = password[request.raw.email]
  BY DEF Sent, Request, Body

(***************************************************************************)
(* A handler that answers itself says 200 only for a request without a     *)
(* password; one that is left to the verifier is fresh and as it was       *)
(* signed (legacy.go 77-113).                                              *)
(***************************************************************************)
LEMMA ServedIsTrue ==
  ASSUME TypeOK, NEW request, Sent(request)
  PROVE  LET refused == Refused(request, now) IN
         /\ refused # NoWork => TrueTo(refused, request.raw.password)
         /\ refused = NoWork =>
              /\ request.raw.form = "login"
              /\ now - request.sentAt \in (skew - Tolerance)..(skew + Tolerance)
<1>1. PICK s \in SignIns, form \in {"login", "webhook"}, sentAt \in 0..now :
        LET signed == Request(s, password[s], form,
                              Timestamp(sentAt + skew, sentAt + skew), sentAt)
        IN  request = signed \/ request = [signed EXCEPT !.raw.form = "re-encoded"]
  BY DEF Sent
<1> DEFINE timestamp == Timestamp(sentAt + skew, sentAt + skew)
           signed    == Request(s, password[s], form, timestamp, sentAt)
<1>2. /\ request.header = signed.header /\ request.sentAt = sentAt
      /\ request.raw = Body(s, password[s], form)
           \/ request.raw = Body(s, password[s], "re-encoded")
  BY <1>1 DEF Request, Body
<1>3. /\ NoWork # BadRequest /\ NoWork # Unauthorized /\ NoWork # NoUser
  BY DEF NoWork, BadRequest, Unauthorized, NoUser, Answer
<1>4. ASSUME VerifyWebhook(request.raw, request.header, TheSecret, Tolerance, now)
      PROVE  /\ request.raw = Body(s, password[s], form)
             /\ now - sentAt \in (skew - Tolerance)..(skew + Tolerance)
  <2>1. sentAt \in 0..MaxTime
    BY BoundsAssumption DEF TypeOK
  <2>2. skew \in Skews /\ now \in 0..MaxTime
    BY DEF TypeOK
  <2>3. VerifyWebhook(request.raw, Request(s, password[s], form, timestamp, sentAt).header,
                      TheSecret, Tolerance, now)
    BY <1>2, <1>4
  <2> QED
    BY <2>1, <2>2, <2>3, VerifiedIsFresh
<1>5. CASE ~ VerifyWebhook(request.raw, request.header, TheSecret, Tolerance, now)
  BY <1>3, <1>5 DEF Refused, TrueTo, Answers, Unauthorized, NoUser, TheUser, Answer
<1>6. CASE VerifyWebhook(request.raw, request.header, TheSecret, Tolerance, now)
  <2>1. request.raw.form \in {"login", "webhook"}
    BY <1>4, <1>6 DEF Body
  <2> QED
    BY <1>2, <1>3, <1>4, <1>6, <2>1
       DEF Refused, TrueTo, Answers, BadRequest, NoUser, TheUser, Answer
<1> QED
  BY <1>5, <1>6

(***************************************************************************)
(* No step makes a request on its way one that was not signed; the         *)
(* password and the clock of a sign-in are what they were.                 *)
(***************************************************************************)
LEMMA WirePreserved ==
  ASSUME Inv, Next
  PROVE  WireOK'
<1>1. /\ skew' = skew /\ password' = password
      /\ now \in 0..MaxTime /\ now' \in 0..MaxTime /\ now <= now'
  BY BoundsAssumption DEF Inv, TypeOK, Next, Tick, Ask, Rewrite, Serve, Verify, Hear, Lose
<1>2. ASSUME NEW request, Sent(request) PROVE Sent(request)'
  <2>1. 0..now \subseteq 0..now'
    BY <1>1
  <2> QED
    BY <1>1, <1>2, <2>1 DEF Sent
<1>3. CASE wire' = wire
  BY <1>2, <1>3 DEF Inv, WireOK
<1>4. ASSUME NEW s \in SignIns, Ask(s) PROVE WireOK'
  <2>0. PICK form \in {"login", "webhook"} :
          wire' = wire \cup {Request(s, password[s], form,
                                     Timestamp(now + skew, now + skew), now)}
    BY <1>4 DEF Ask
  <2>1. PICK signed :
          /\ signed = Request(s, password[s], form, Timestamp(now + skew, now + skew), now)
          /\ wire' = wire \cup {signed}
    BY <2>0
  <2>2. now' = now /\ now \in 0..now
    BY <1>1, <1>4 DEF Ask
  <2>3. Sent(signed)'
    BY <1>1, <2>1, <2>2 DEF Sent
  <2>4. ASSUME NEW request \in wire' PROVE Sent(request)'
    <3>1. CASE request \in wire
      BY <1>2, <3>1 DEF Inv, WireOK
    <3>2. CASE request = signed
      BY <2>3, <3>2
    <3> QED
      BY <2>1, <2>4, <3>1, <3>2
  <2> QED
    BY <2>4 DEF WireOK
<1>5. CASE Rewrite
  <2>1. PICK original \in wire :
          /\ original.raw.form = "login"
          /\ wire' = (wire \ {original}) \cup {[original EXCEPT !.raw.form = "re-encoded"]}
    BY <1>5 DEF Rewrite
  <2>2. PICK s \in SignIns, form \in {"login", "webhook"}, sentAt \in 0..now :
          LET signed == Request(s, password[s], form,
                                Timestamp(sentAt + skew, sentAt + skew), sentAt)
          IN  original = signed \/ original = [signed EXCEPT !.raw.form = "re-encoded"]
    BY DEF Inv, WireOK, Sent
  <2>3. original = Request(s, password[s], form,
                           Timestamp(sentAt + skew, sentAt + skew), sentAt)
    BY <2>1, <2>2 DEF Request, Body
  <2>4. Sent([original EXCEPT !.raw.form = "re-encoded"])
    BY <2>3 DEF Sent
  <2>5. ASSUME NEW request \in wire' PROVE Sent(request)'
    <3>1. CASE request \in wire
      BY <1>2, <3>1 DEF Inv, WireOK
    <3>2. CASE request = [original EXCEPT !.raw.form = "re-encoded"]
      BY <1>2, <2>4, <3>2
    <3> QED
      BY <2>1, <2>5, <3>1, <3>2
  <2> QED
    BY <2>5 DEF WireOK
<1> QED
  BY <1>3, <1>4, <1>5 DEF Next, Tick, Serve, Verify, Hear, Lose

(***************************************************************************)
(* The three steps of a worker.                                            *)
(***************************************************************************)
LEMMA ServePreserved ==
  ASSUME Inv, NEW w \in Workers, NEW request \in wire, Serve(w, request), WireOK'
  PROVE  Inv'
<1>1. PICK readable \in BOOLEAN :
        LET refused == IF readable THEN Refused(request, now) ELSE BadRequest IN
        work' = [work EXCEPT ![w] =
                   IF refused = NoWork
                   THEN [pc |-> "verifying", request |-> request, readAt |-> now]
                   ELSE [pc |-> "answering", request |-> request, answer |-> refused]]
  BY DEF Serve
<1> DEFINE refused == IF readable THEN Refused(request, now) ELSE BadRequest
<1>2. Sent(request)
  BY DEF Inv, WireOK
<1>3. /\ request.raw.email \in SignIns
      /\ request.raw.password = password[request.raw.email]
  BY <1>2, SentIsOfASignIn
<1>4. /\ refused # NoWork => TrueTo(refused, request.raw.password)
      /\ refused = NoWork =>
           /\ request.raw.form = "login"
           /\ now - request.sentAt \in (skew - Tolerance)..(skew + Tolerance)
  <2>1. CASE readable
    BY <1>2, <2>1, ServedIsTrue DEF Inv
  <2>2. CASE ~ readable
    BY <2>2 DEF BadRequest, NoUser, TheUser, NoWork, Answer, TrueTo, Answers
  <2> QED
    BY <2>1, <2>2
<1>5. /\ DOMAIN work' = Workers
      /\ \A v \in Workers \ {w} : work'[v] = work[v]
      /\ work'[w] = IF refused = NoWork
                    THEN [pc |-> "verifying", request |-> request, readAt |-> now]
                    ELSE [pc |-> "answering", request |-> request, answer |-> refused]
  BY <1>1 DEF Inv, TypeOK
<1> HIDE DEF refused
<1>6. UNCHANGED <<now, skew, password, asked, wire, told>>
  BY DEF Serve
<1>7. TypeOK'
  BY <1>5, <1>6 DEF Inv, TypeOK
<1>8. WorkOK'
  <2> SUFFICES ASSUME NEW v \in Workers
               PROVE  LET raw == work'[v].request.raw IN
                      /\ work'[v].pc = "verifying" => /\ raw.email \in SignIns
                                                      /\ raw.password = password[raw.email]
                      /\ work'[v].pc = "answering" => /\ raw.email \in SignIns
                                                      /\ TrueTo(work'[v].answer, password[raw.email])
    BY <1>6 DEF WorkOK, TrueTo
  <2>1. CASE v # w
    BY <1>5, <2>1 DEF Inv, WorkOK
  <2>2. CASE v = w
    BY <1>3, <1>4, <1>5, <2>2
  <2> QED
    BY <2>1, <2>2
<1>9. VerifierSeesOnlyFresh'
  BY <1>4, <1>5, <1>6 DEF Inv, VerifierSeesOnlyFresh
<1> QED
  BY <1>6, <1>7, <1>8, <1>9 DEF Inv, DecisionsAreTrue

LEMMA VerifyPreserved ==
  ASSUME Inv, NEW w \in Workers, Verify(w), WireOK'
  PROVE  Inv'
<1>1. PICK verdict \in Verdicts(work[w].request.raw.password) :
        work' = [work EXCEPT ![w] = [pc      |-> "answering",
                                     request |-> work[w].request,
                                     answer  |-> Answered(verdict)]]
  BY DEF Verify
<1> DEFINE raw == work[w].request.raw
<1>2. raw.email \in SignIns /\ raw.password = password[raw.email]
  BY DEF Inv, WorkOK, Verify
<1>3. TrueTo(Answered(verdict), password[raw.email])
  BY <1>2 DEF Verdicts, Answered, TrueTo, Answers, Unavailable, NoUser, TheUser, Answer
<1>4. /\ DOMAIN work' = Workers
      /\ \A v \in Workers \ {w} : work'[v] = work[v]
      /\ work'[w].pc = "answering" /\ work'[w].request = work[w].request
      /\ work'[w].answer = Answered(verdict)
  BY <1>1 DEF Inv, TypeOK
<1>5. UNCHANGED <<now, skew, password, asked, wire, told>>
  BY DEF Verify
<1>6. TypeOK' /\ VerifierSeesOnlyFresh'
  BY <1>4, <1>5 DEF Inv, TypeOK, VerifierSeesOnlyFresh
<1>7. WorkOK'
  BY <1>2, <1>3, <1>4, <1>5 DEF Inv, WorkOK, TrueTo
<1> QED
  BY <1>5, <1>6, <1>7 DEF Inv, DecisionsAreTrue

LEMMA AnswerPreserved ==
  ASSUME Inv, NEW w \in Workers, Hear(w) \/ Lose(w), WireOK'
  PROVE  Inv'
<1>1. /\ DOMAIN work' = Workers
      /\ \A v \in Workers \ {w} : work'[v] = work[v]
      /\ work'[w].pc = "free"
      /\ UNCHANGED <<now, skew, password, asked, wire>>
  BY DEF Hear, Lose, Inv, TypeOK, NoWork
<1>2. VerifierSeesOnlyFresh' /\ WorkOK'
  BY <1>1 DEF Inv, WorkOK, VerifierSeesOnlyFresh, TrueTo
<1> DEFINE email == work[w].request.raw.email
           answer == work[w].answer
<1>3. CASE Hear(w)
  <2>1. email \in SignIns /\ TrueTo(answer, password[email])
    BY <1>3 DEF Hear, Inv, WorkOK
  <2>2. told' = [told EXCEPT ![email] = @ \cup Decision(answer)]
    BY <1>3 DEF Hear
  <2>3. /\ Decision(answer) \subseteq {"yes", "no"}
        /\ "no" \in Decision(answer) => password[email] # "right"
        /\ "yes" \in Decision(answer) => password[email] = "right"
    BY <2>1 DEF Decision, TrueTo, Answers, BadRequest, Unauthorized, Unavailable,
                NoUser, TheUser, Answer
  <2> HIDE DEF email, answer
  <2>4. TypeOK'
    BY <1>1, <2>1, <2>2, <2>3 DEF Inv, TypeOK
  <2>5. DecisionsAreTrue'
    BY <1>1, <2>1, <2>2, <2>3 DEF Inv, TypeOK, DecisionsAreTrue
  <2> QED
    BY <1>2, <2>4, <2>5 DEF Inv
<1>4. CASE Lose(w)
  BY <1>1, <1>2, <1>4 DEF Lose, Inv, TypeOK, DecisionsAreTrue
<1> QED
  BY <1>3, <1>4

LEMMA NextPreservesInv ==
  ASSUME Inv, [Next]_vars
  PROVE  Inv'
<1>1. CASE UNCHANGED vars
  BY <1>1 DEF vars, Inv, TypeOK, WireOK, Sent, WorkOK, TrueTo, VerifierSeesOnlyFresh,
              DecisionsAreTrue
<1>2. CASE Next
  <2>1. WireOK'
    BY <1>2, WirePreserved
  <2>2. CASE Tick \/ Rewrite \/ \E s \in SignIns : Ask(s)
    <3>1. /\ UNCHANGED <<skew, password, work, told>>
          /\ now' \in 0..MaxTime /\ asked' \in [SignIns -> 0..MaxAsked]
      BY <2>2, BoundsAssumption DEF Tick, Rewrite, Ask, Inv, TypeOK
    <3> QED
      BY <2>1, <3>1 DEF Inv, TypeOK, WorkOK, TrueTo, VerifierSeesOnlyFresh, DecisionsAreTrue
  <2>3. ASSUME NEW w \in Workers, NEW request \in wire, Serve(w, request) PROVE Inv'
    BY <2>1, <2>3, ServePreserved
  <2>4. ASSUME NEW w \in Workers, Verify(w) \/ Hear(w) \/ Lose(w) PROVE Inv'
    BY <2>1, <2>4, VerifyPreserved, AnswerPreserved
  <2> QED
    BY <1>2, <2>2, <2>3, <2>4 DEF Next
<1> QED
  BY <1>1, <1>2

-----------------------------------------------------------------------------
(***************************************************************************)
(* What is on its way is what was signed, and every worker is about to say *)
(* what is true.                                                           *)
(***************************************************************************)
THEOREM Invariance == Spec => []Inv
<1>1. Init => Inv
  BY InitInv
<1>2. Inv /\ [Next]_vars => Inv'
  BY NextPreservesInv
<1> QED
  BY <1>1, <1>2, PTL DEF Spec

(***************************************************************************)
(* Whatever breaks, is repeated, rewritten or late, nobody is told that a  *)
(* right password is wrong or a wrong one right.                           *)
(***************************************************************************)
THEOREM DecisionsAreTruthful == Spec => []DecisionsAreTrue
<1>1. Inv => DecisionsAreTrue
  BY DEF Inv
<1> QED
  BY <1>1, Invariance, PTL

(***************************************************************************)
(* A password reaches the verifier within the tolerance of its signing, as *)
(* it was signed, or never.                                                *)
(***************************************************************************)
THEOREM VerifierIsGivenFreshOnly == Spec => []VerifierSeesOnlyFresh
<1>1. Inv => VerifierSeesOnlyFresh
  BY DEF Inv
<1> QED
  BY <1>1, Invariance, PTL
=============================================================================
