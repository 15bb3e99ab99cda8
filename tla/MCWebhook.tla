----------------------------- MODULE MCWebhook -----------------------------
(***************************************************************************)
(* Every header of up to MaxSegments segments against every clock: one     *)
(* initial state per request, one step for its verification.               *)
(***************************************************************************)
EXTENDS Webhook, FiniteSets, SequencesExt

CONSTANTS Secrets, Payloads,
          Now,         \* the clock of the receiver
          Offsets,     \* how far from it the timestamps enumerated lie
          Tolerances,  \* what toleranceSeconds is
          MaxSegments  \* bound: segments of a header

(* The time of day is far from the ends of int64, and so is the time of    *)
(* day any tolerance later.                                                *)
ASSUME ClockAssumption ==
  /\ Now \in Nat /\ Offsets \subseteq Int /\ Tolerances \subseteq Int
  /\ \A tolerance \in Tolerances \cup {DefaultTolerance} : Now + tolerance < Half
ASSUME MaxSegmentsAssumption == MaxSegments \in Nat
ASSUME SecretsAssumption == Secrets # {} /\ NoSecret \notin Secrets

(* Both ends of both windows, and half of all int64 away.                  *)
MCOffsets == {-301, -300, -6, -5, 0, 5, 6, 300, 301, -Half}

VARIABLES payload, header, toleranceSeconds, verdict

webhookVars == <<payload, header, toleranceSeconds, verdict>>

Secret == CHOOSE secret \in Secrets : TRUE

(* Timestamps at each offset, at both ends of int64 and one past it, and   *)
(* one spelled otherwise than the sender spells it.                        *)
Plain == {Timestamp(<<"plain", n>>, n) :
            n \in {Now + offset : offset \in Offsets}
                  \cup {-Half, Half - 1, Half}}
Timestamps == Plain \cup {Timestamp(<<"padded", Now>>, Now)}

Signatures == {MAC(secret, timestamp, p) :
                 secret \in Secrets, timestamp \in Timestamps, p \in Payloads}

(* Headers as the sender writes them, with other segments in between, and  *)
(* headers in which a segment occurs again or not at all.                  *)
Segments == {Segment("t", timestamp) : timestamp \in Timestamps}
              \cup {Segment("v1", signature) : signature \in Signatures}
              \cup {Segment("v0", Empty)}
Headers == {<<>>}
             \cup (UNION {[1..n -> Segments] : n \in 1..MaxSegments})
             \cup {<<Segment("t", timestamp), Segment("v0", Empty), Segment("v1", signature)>> :
                     timestamp \in Timestamps, signature \in Signatures}

WebhookInit == /\ payload \in Payloads
               /\ header \in Headers
               /\ toleranceSeconds \in Tolerances
               /\ verdict = "none"

Verify == /\ verdict = "none"
          /\ verdict' = IF VerifyWebhook(payload, header, Secret, toleranceSeconds, Now)
                        THEN "true" ELSE "false"
          /\ UNCHANGED <<payload, header, toleranceSeconds>>

WebhookSpec == WebhookInit /\ [][Verify]_webhookVars

(* The window, in the integers: of the tolerance given, or of 300 seconds. *)
Window == IF toleranceSeconds > 0 THEN toleranceSeconds ELSE 300
Fresh(timestamp) == timestamp.int \in (Now - Window)..(Now + Window)

SignedFresh(timestamp) == /\ Fresh(timestamp)
                          /\ Segment("t", timestamp) \in ToSet(header)
                          /\ Segment("v1", MAC(Secret, timestamp, payload)) \in ToSet(header)

(* webhook.go 12-15, 43: whatever the header, nothing passes but a body    *)
(* the holder of the secret signed together with a timestamp that the      *)
(* header carries and that lies in the window; no arithmetic on a          *)
(* timestamp at the end of int64 brings it into the window.                *)
AcceptedMeansSignedAndFresh ==
  verdict = "true" => \E timestamp \in Timestamps : SignedFresh(timestamp)

(* webhook.go 12-13, 22-33: a header of the documented form is accepted in *)
(* the whole window, both ends included, in either order of its segments   *)
(* and with segments this version does not know.                           *)
GenuineIsAccepted ==
  /\ verdict # "none"
  /\ \E timestamp \in Timestamps : SignedFresh(timestamp)
  /\ Cardinality({i \in DOMAIN header : header[i].key = "t"}) = 1
  /\ Cardinality({i \in DOMAIN header : header[i].key = "v1"}) = 1
  => verdict = "true"
=============================================================================
