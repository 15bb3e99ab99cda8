------------------------------ MODULE Webhook ------------------------------
(***************************************************************************)
(* VerifyWebhook (webhook.go): the check of a signed request, over its raw *)
(* body, its X-Cbox-Signature header and the clock of the receiver.  Pure. *)
(*                                                                         *)
(* The HMAC is ideal: a signature is the record of the secret and of what  *)
(* it was computed over, and two are equal only when these are.  A         *)
(* timestamp is the text of the header and what ParseInt makes of it, for  *)
(* the text is what was signed and several texts can parse alike.          *)
(***************************************************************************)
EXTENDS GoValues, Integers, Sequences

CONSTANTS Half,     \* half of the values of a Go int64: 2 ^ 63 there, fewer for TLC
          NoSecret  \* no secret: the signature of nobody

ASSUME HalfAssumption == Half \in Nat /\ Half > 0

(* The value a Go int64 expression has.                                    *)
Wrapped(n) == ((n + Half) % (2 * Half)) - Half

IsInt64(n) == n = Wrapped(n)

Timestamp(text, int) == [text |-> text, parses |-> IsInt64(int), int |-> int]
NoTimestamp == [text |-> Empty, parses |-> FALSE, int |-> 0]

MAC(secret, timestamp, payload) ==
  [secret |-> secret, text |-> timestamp.text, payload |-> payload]
NoSignature == [secret |-> NoSecret, text |-> Empty, payload |-> Empty]

(* A header is the sequence of its comma-separated segments.               *)
Segment(key, value) == [key |-> key, value |-> value]

(* The loop over the segments: the last one with the key stands, and one   *)
(* without "=" or with another key is skipped.                             *)
ValueOf(key, header, absent) ==
  LET with == {i \in DOMAIN header : header[i].key = key} IN
  IF with = {} THEN absent ELSE header[CHOOSE i \in with : \A j \in with : j <= i].value

DefaultTolerance == 300

(* Mutations.                                                              *)
VerifyWebhookNegatingTheDelta(payload, header, secret, toleranceSeconds, now) ==
  LET timestamp == ValueOf("t", header, NoTimestamp)
      signature == ValueOf("v1", header, NoSignature)
      tolerance == IF toleranceSeconds <= 0 THEN DefaultTolerance ELSE toleranceSeconds
      delta     == Wrapped(now - timestamp.int)
      absolute  == IF delta < 0 THEN Wrapped(-delta) ELSE delta
  IN  /\ timestamp.parses
      /\ absolute <= tolerance
      /\ signature = MAC(secret, timestamp, payload)
VerifyWebhookOfThePast(payload, header, secret, toleranceSeconds, now) ==
  LET timestamp == ValueOf("t", header, NoTimestamp)
      signature == ValueOf("v1", header, NoSignature)
      tolerance == IF toleranceSeconds <= 0 THEN DefaultTolerance ELSE toleranceSeconds
      delta     == Wrapped(now - timestamp.int)
  IN  /\ timestamp.parses
      /\ delta <= tolerance /\ delta >= 0
      /\ signature = MAC(secret, timestamp, payload)

VerifyWebhook(payload, header, secret, toleranceSeconds, now) ==
  LET timestamp == ValueOf("t", header, NoTimestamp)
      signature == ValueOf("v1", header, NoSignature)
      tolerance == IF toleranceSeconds <= 0 THEN DefaultTolerance ELSE toleranceSeconds
      delta     == Wrapped(now - timestamp.int)
  IN  /\ timestamp.parses
      /\ signature # NoSignature
      /\ delta <= tolerance /\ delta >= -tolerance
      /\ signature = MAC(secret, timestamp, payload)
=============================================================================
