---------------------------- MODULE HelperProofs ----------------------------
(***************************************************************************)
(* Proofs about the functions of the SDK that keep no state, for every     *)
(* input: VerifyWebhook, the claim helpers, and the two entry points that  *)
(* build an authorization request.                                         *)
(***************************************************************************)
EXTENDS MCWebhook, MCClaimHelpers, MCAuthorizationRequest, OrderingProofs

-----------------------------------------------------------------------------
(* VerifyWebhook: the loop over the segments.                              *)

Keyed(key, h) == {i \in DOMAIN h : h[i].key = key}

(* The value found for a key is that of a segment with the key.            *)
LEMMA ValueOfIsThere ==
  ASSUME NEW T, NEW h \in Seq(T), NEW key, NEW absent
  PROVE  /\ IsFiniteSet(Keyed(key, h))
         /\ Keyed(key, h) = {} => ValueOf(key, h, absent) = absent
         /\ Keyed(key, h) # {} => \E i \in Keyed(key, h) : ValueOf(key, h, absent) = h[i].value
<1> DEFINE with == Keyed(key, h)
<1>1. Len(h) \in Nat /\ DOMAIN h = 1..Len(h)
  OBVIOUS
<1>2. IsFiniteSet(1..Len(h))
  BY <1>1, FS_Interval, 1 \in Int, Len(h) \in Int, Zenon
<1>3. IsFiniteSet(with) /\ \A i \in with : i \in Int
  <2>1. with \in SUBSET (1..Len(h))
    BY <1>1 DEF Keyed
  <2> QED
    BY <1>2, <2>1, FS_Subset
<1>4. ASSUME with # {}
      PROVE  \E i \in with : ValueOf(key, h, absent) = h[i].value
  <2> DEFINE last == CHOOSE i \in with : \A j \in with : j <= i
  <2>1. \E i \in with : \A j \in with : j <= i
    <3> DEFINE R == {p \in with \X with : p[1] <= p[2]}
    <3>1. \A i, j \in with : <<i, j>> \in R <=> i <= j
      OBVIOUS
    <3>2. Orders(R, with)
      BY <1>3, <3>1 DEF Orders
    <3> HIDE DEF R
    <3> QED
      BY <1>3, <1>4, <3>1, <3>2, FirstAndLast
  <2>2. last \in with
    BY <2>1
  <2>3. ValueOf(key, h, absent) = h[last].value
    BY <1>4 DEF ValueOf, Keyed
  <2> QED
    BY <2>2, <2>3
<1>5. with = {} => ValueOf(key, h, absent) = absent
  BY DEF ValueOf, Keyed
<1> QED
  BY <1>3, <1>4, <1>5

LEMMA HeaderIsSegments ==
  ASSUME NEW h \in Headers
  PROVE  h \in Seq(Segments)
<1>1. ASSUME NEW n \in 1..MaxSegments, h \in [1..n -> Segments]
      PROVE  h \in Seq(Segments)
  BY <1>1, MaxSegmentsAssumption
<1>2. ASSUME NEW timestamp \in Timestamps, NEW signature \in Signatures,
             h = <<Segment("t", timestamp), Segment("v0", Empty), Segment("v1", signature)>>
      PROVE  h \in Seq(Segments)
  BY <1>2 DEF Segments
<1>3. CASE h = <<>>
  BY <1>3
<1> QED
  BY <1>1, <1>2, <1>3 DEF Headers

(* What the loop leaves behind.                                            *)
LEMMA TimestampFound ==
  ASSUME NEW h \in Headers
  PROVE  LET found == ValueOf("t", h, NoTimestamp) IN
         \/ found = NoTimestamp /\ Keyed("t", h) = {}
         \/ found \in Timestamps /\ Segment("t", found) \in ToSet(h)
<1>1. h \in Seq(Segments)
  BY HeaderIsSegments
<1>2. ASSUME NEW i \in Keyed("t", h)
      PROVE  h[i].value \in Timestamps /\ Segment("t", h[i].value) \in ToSet(h)
  <2>1. i \in DOMAIN h /\ h[i] \in Segments /\ h[i].key = "t"
    BY <1>1 DEF Keyed
  <2>2. PICK timestamp \in Timestamps : h[i] = Segment("t", timestamp)
    BY <2>1 DEF Segments, Segment
  <2> QED
    BY <2>1, <2>2 DEF Segment, ToSet
<1> QED
  BY <1>1, <1>2, ValueOfIsThere

LEMMA SignatureFound ==
  ASSUME NEW h \in Headers
  PROVE  LET found == ValueOf("v1", h, NoSignature) IN
         \/ found = NoSignature /\ Keyed("v1", h) = {}
         \/ found \in Signatures /\ Segment("v1", found) \in ToSet(h)
<1>1. h \in Seq(Segments)
  BY HeaderIsSegments
<1>2. ASSUME NEW i \in Keyed("v1", h)
      PROVE  h[i].value \in Signatures /\ Segment("v1", h[i].value) \in ToSet(h)
  <2>1. i \in DOMAIN h /\ h[i] \in Segments /\ h[i].key = "v1"
    BY <1>1 DEF Keyed
  <2>2. PICK signature \in Signatures : h[i] = Segment("v1", signature)
    BY <2>1 DEF Segments, Segment
  <2> QED
    BY <2>1, <2>2 DEF Segment, ToSet
<1> QED
  BY <1>1, <1>2, ValueOfIsThere

(* With one segment of a key, its value is the one found.                  *)
LEMMA OnlyValue ==
  ASSUME NEW h \in Headers, NEW key, NEW value, NEW absent,
         Cardinality(Keyed(key, h)) = 1, Segment(key, value) \in ToSet(h)
  PROVE  ValueOf(key, h, absent) = value
<1>1. h \in Seq(Segments)
  BY HeaderIsSegments
<1>2. IsFiniteSet(Keyed(key, h))
  BY <1>1, ValueOfIsThere
<1>3. PICK only : Keyed(key, h) = {only}
  BY <1>2, FS_Singleton
<1>4. PICK i \in DOMAIN h : h[i] = Segment(key, value)
  BY DEF ToSet
<1>5. i \in Keyed(key, h) /\ h[i].value = value
  BY <1>4 DEF Keyed, Segment
<1>6. PICK j \in Keyed(key, h) : ValueOf(key, h, absent) = h[j].value
  <2>1. Keyed(key, h) # {}
    BY <1>5
  <2> QED
    BY <1>1, <2>1, ValueOfIsThere
<1> QED
  BY <1>3, <1>5, <1>6

-----------------------------------------------------------------------------
(* VerifyWebhook: the arithmetic.                                          *)

LEMMA WrappedOnce ==
  ASSUME NEW n \in Int
  PROVE  /\ n \in (-Half)..(Half - 1) => Wrapped(n) = n
         /\ n \in Half..(3 * Half - 1) => Wrapped(n) = n - 2 * Half
         /\ IsInt64(n) => n \in (-Half)..(Half - 1)
<1> DEFINE m == 2 * Half
           k == n + Half
<1>1. Half \in Nat /\ Half > 0 /\ m \in Nat \ {0} /\ k \in Int
  BY HalfAssumption
<1>2. k \in 0..(m - 1) => k % m = k
  BY <1>1
<1>3. k \in m..(2 * m - 1) => k % m = k - m
  <2> HIDE DEF m, k
  <2> QED
    BY <1>1
<1>4. k % m \in 0..(m - 1)
  <2> HIDE DEF m, k
  <2> QED
    BY <1>1
<1>5. Wrapped(n) = (k % m) - Half
  BY DEF Wrapped
<1> DEFINE r == k % m
<1> HIDE DEF r
<1>6. /\ k \in 0..(m - 1) => r = k
      /\ k \in m..(2 * m - 1) => r = k - m
      /\ r \in 0..(m - 1) /\ Wrapped(n) = r - Half
  BY <1>2, <1>3, <1>4, <1>5 DEF r
<1> QED
  BY <1>1, <1>6 DEF IsInt64

(* The difference of the clock and a timestamp is in the window only if    *)
(* they are that close.                                                    *)
LEMMA DeltaIsDistance ==
  ASSUME NEW int \in Int, NEW tolerance \in Nat, Now + tolerance < Half, Now \in Nat
  PROVE  /\ IsInt64(int) /\ Wrapped(Now - int) \in (-tolerance)..tolerance
              => int \in (Now - tolerance)..(Now + tolerance)
         /\ int \in (Now - tolerance)..(Now + tolerance)
              => IsInt64(int) /\ Wrapped(Now - int) \in (-tolerance)..tolerance
<1>1. Half \in Nat /\ Half > 0
  BY HalfAssumption
<1>2. ASSUME IsInt64(int), Wrapped(Now - int) \in (-tolerance)..tolerance
      PROVE  int \in (Now - tolerance)..(Now + tolerance)
  <2>0. Now - int \in Int
    OBVIOUS
  <2>1. int \in (-Half)..(Half - 1)
    BY <1>2, WrappedOnce
  <2>2. CASE Now - int < Half
    <3>1. Now - int \in (-Half)..(Half - 1)
      BY <1>1, <2>1, <2>2
    <3>2. Wrapped(Now - int) = Now - int
      BY <2>0, <3>1, WrappedOnce
    <3> QED
      BY <1>2, <2>0, <3>2
  <2>3. CASE Now - int >= Half
    <3>1. Now - int \in Int /\ Now - int \in Half..(3 * Half - 1)
      BY <1>1, <2>1, <2>3
    <3>2. Wrapped(Now - int) = Now - int - 2 * Half
      BY <3>1, WrappedOnce
    <3>3. Now - int - 2 * Half < -tolerance
      BY <1>1, <2>1
    <3> QED
      BY <1>2, <3>1, <3>2, <3>3
  <2> QED
    BY <1>1, <2>0, <2>2, <2>3
<1>3. ASSUME int \in (Now - tolerance)..(Now + tolerance)
      PROVE  IsInt64(int) /\ Wrapped(Now - int) \in (-tolerance)..tolerance
  BY <1>1, <1>3, WrappedOnce DEF IsInt64
<1> QED
  BY <1>2, <1>3

-----------------------------------------------------------------------------
(* VerifyWebhook: the verdict.                                             *)

(* Windows: the tolerance the code computes is the one of the property.    *)
LEMMA WindowOfTolerance ==
  ASSUME NEW seconds \in Tolerances
  PROVE  LET window == IF seconds <= 0 THEN DefaultTolerance ELSE seconds IN
         /\ window \in Nat /\ Now + window < Half /\ Now \in Nat
         /\ window = IF seconds > 0 THEN seconds ELSE 300
BY ClockAssumption DEF DefaultTolerance

LEMMA TimestampsAreRead ==
  ASSUME NEW timestamp \in Timestamps
  PROVE  timestamp.int \in Int /\ timestamp.parses = IsInt64(timestamp.int)
<1>1. Now \in Int /\ Half \in Int /\ \A offset \in Offsets : Now + offset \in Int
  BY ClockAssumption, HalfAssumption
<1> QED
  BY <1>1 DEF Timestamps, Plain, Timestamp

LEMMA SecretIsOurs == Secret \in Secrets /\ Secret # NoSecret
BY SecretsAssumption DEF Secret

Verified(p, h, seconds) == VerifyWebhook(p, h, Secret, seconds, Now)
SignedFreshAt(p, h, seconds, timestamp) ==
  LET window == IF seconds > 0 THEN seconds ELSE 300 IN
  /\ timestamp.int \in (Now - window)..(Now + window)
  /\ Segment("t", timestamp) \in ToSet(h)
  /\ Segment("v1", MAC(Secret, timestamp, p)) \in ToSet(h)

LEMMA AcceptedWasSigned ==
  ASSUME NEW p, NEW h \in Headers, NEW seconds \in Tolerances, Verified(p, h, seconds)
  PROVE  \E timestamp \in Timestamps : SignedFreshAt(p, h, seconds, timestamp)
<1> DEFINE timestamp == ValueOf("t", h, NoTimestamp)
           signature == ValueOf("v1", h, NoSignature)
           window == IF seconds <= 0 THEN DefaultTolerance ELSE seconds
           delta == Wrapped(Now - timestamp.int)
<1>1. /\ timestamp.parses /\ signature # NoSignature
      /\ delta <= window /\ delta >= -window
      /\ signature = MAC(Secret, timestamp, p)
  BY DEF Verified, VerifyWebhook
<1>2. timestamp \in Timestamps /\ Segment("t", timestamp) \in ToSet(h)
  <2>1. \/ timestamp = NoTimestamp
        \/ timestamp \in Timestamps /\ Segment("t", timestamp) \in ToSet(h)
    BY TimestampFound
  <2>2. NoTimestamp.parses = FALSE
    BY DEF NoTimestamp
  <2> HIDE DEF timestamp
  <2> QED
    BY <1>1, <2>1, <2>2
<1>3. Segment("v1", signature) \in ToSet(h)
  BY <1>1, SignatureFound
<1>4. /\ window \in Nat /\ Now + window < Half /\ Now \in Nat
      /\ window = IF seconds > 0 THEN seconds ELSE 300
  BY WindowOfTolerance
<1> HIDE DEF timestamp, signature, window
<1>5. timestamp.int \in Int /\ IsInt64(timestamp.int)
  BY <1>1, <1>2, TimestampsAreRead
<1>6. delta \in (-window)..window
  <2>1. delta \in Int
    BY <1>4, <1>5, HalfAssumption DEF Wrapped
  <2> HIDE DEF delta
  <2> QED
    BY <1>1, <1>4, <2>1
<1>7. timestamp.int \in (Now - window)..(Now + window)
  BY <1>4, <1>5, <1>6, DeltaIsDistance
<1>8. SignedFreshAt(p, h, seconds, timestamp)
  BY <1>1, <1>2, <1>3, <1>4, <1>7 DEF SignedFreshAt
<1> QED
  BY <1>2, <1>8

LEMMA SignedIsAccepted ==
  ASSUME NEW p, NEW h \in Headers, NEW seconds \in Tolerances,
         NEW timestamp \in Timestamps, SignedFreshAt(p, h, seconds, timestamp),
         Cardinality(Keyed("t", h)) = 1, Cardinality(Keyed("v1", h)) = 1
  PROVE  Verified(p, h, seconds)
<1> DEFINE signature == MAC(Secret, timestamp, p)
           window == IF seconds <= 0 THEN DefaultTolerance ELSE seconds
           delta == Wrapped(Now - timestamp.int)
<1>1. ValueOf("t", h, NoTimestamp) = timestamp /\ ValueOf("v1", h, NoSignature) = signature
  BY OnlyValue DEF SignedFreshAt
<1>2. signature # NoSignature
  BY SecretIsOurs DEF MAC, NoSignature
<1>3. /\ window \in Nat /\ Now + window < Half /\ Now \in Nat
      /\ window = IF seconds > 0 THEN seconds ELSE 300
  BY WindowOfTolerance
<1>4. timestamp.int \in (Now - window)..(Now + window)
  BY <1>3 DEF SignedFreshAt
<1> HIDE DEF signature, window
<1>5. IsInt64(timestamp.int) /\ delta \in (-window)..window
  BY <1>3, <1>4, TimestampsAreRead, DeltaIsDistance
<1>6. timestamp.parses /\ delta <= window /\ delta >= -window
  <2> HIDE DEF delta
  <2> QED
    BY <1>3, <1>5, TimestampsAreRead
<1> QED
  BY <1>1, <1>2, <1>6 DEF Verified, VerifyWebhook, signature, window

WebhookInv ==
  /\ payload \in Payloads /\ header \in Headers /\ toleranceSeconds \in Tolerances
  /\ verdict \in {"none", "true", "false"}
  /\ verdict # "none" =>
       (verdict = "true" <=> VerifyWebhook(payload, header, Secret, toleranceSeconds, Now))

(* The verdict is the one of VerifyWebhook on the request as it came.      *)
THEOREM WebhookInvariance == WebhookSpec => []WebhookInv
<1>1. WebhookInit => WebhookInv
  BY DEF WebhookInit, WebhookInv
<1>2. WebhookInv /\ [Verify]_webhookVars => WebhookInv'
  BY DEF WebhookInv, Verify, webhookVars
<1> QED
  BY <1>1, <1>2, PTL DEF WebhookSpec

(* webhook.go 12-15, 43: whatever the header and the clock, what passes    *)
(* the check was signed with the secret together with a timestamp of the   *)
(* header in the window; wrapping arithmetic brings none into it.          *)
THEOREM AcceptedWasSignedAndFresh == WebhookSpec => []AcceptedMeansSignedAndFresh
<1>1. WebhookInv => AcceptedMeansSignedAndFresh
  <2>1. ASSUME WebhookInv, verdict = "true"
        PROVE  \E timestamp \in Timestamps : SignedFresh(timestamp)
    <3>1. Verified(payload, header, toleranceSeconds)
      BY <2>1 DEF WebhookInv, Verified
    <3>2. PICK timestamp \in Timestamps :
                 SignedFreshAt(payload, header, toleranceSeconds, timestamp)
      BY <2>1, <3>1, AcceptedWasSigned DEF WebhookInv
    <3> QED
      BY <3>2 DEF SignedFreshAt, SignedFresh, Fresh, Window
  <2> QED
    BY <2>1 DEF AcceptedMeansSignedAndFresh
<1> QED
  BY <1>1, WebhookInvariance, PTL

(* webhook.go 12-13, 22-33: a header with one t and one v1, whatever else  *)
(* it has and in whatever order, is accepted in the whole window.          *)
THEOREM GenuineWebhooksPass == WebhookSpec => []GenuineIsAccepted
<1>1. WebhookInv => GenuineIsAccepted
  <2>1. ASSUME WebhookInv, verdict # "none", NEW timestamp \in Timestamps, SignedFresh(timestamp),
               Cardinality({i \in DOMAIN header : header[i].key = "t"}) = 1,
               Cardinality({i \in DOMAIN header : header[i].key = "v1"}) = 1
        PROVE  verdict = "true"
    <3>1. SignedFreshAt(payload, header, toleranceSeconds, timestamp)
      BY <2>1 DEF SignedFreshAt, SignedFresh, Fresh, Window
    <3>2. Cardinality(Keyed("t", header)) = 1 /\ Cardinality(Keyed("v1", header)) = 1
      BY <2>1 DEF Keyed
    <3>3. Verified(payload, header, toleranceSeconds)
      BY <2>1, <3>1, <3>2, SignedIsAccepted DEF WebhookInv
    <3> QED
      BY <2>1, <3>3 DEF WebhookInv, Verified
  <2> QED
    BY <2>1 DEF GenuineIsAccepted
<1> QED
  BY <1>1, WebhookInvariance, PTL

-----------------------------------------------------------------------------
(* The claim helpers: the lists.                                           *)

LEMMA ListClaims ==
  ASSUME NEW claim \in Lists, claim \notin Values
  PROVE  /\ DOMAIN claim \subseteq Int
         /\ IsFiniteSet(DOMAIN claim)
<1>1. PICK n \in 0..MaxList : claim \in [1..n -> Names \cup {Empty, Other}]
  BY DEF Lists
<1>2. DOMAIN claim = 1..n /\ n \in Int
  BY <1>1
<1>3. IsFiniteSet(1..n)
  BY <1>2, FS_Interval, 1 \in Int, Zenon
<1> QED
  BY <1>2, <1>3

(* What a claim lists, and what the property says it lists.                *)
LEMMA ListedNames ==
  ASSUME NEW claim \in Lists
  PROVE  {name \in Names : Contains(stringList(claim), name)}
           = IF claim \in Values THEN {} ELSE ToSet(claim) \cap Names
<1>1. CASE claim \in Values
  <2>1. stringList(claim) = <<>>
    BY <1>1 DEF Values, stringList
  <2>2. \A name \in Names : ~ Contains(<<>>, name)
    BY DEF Contains
  <2> QED
    BY <1>1, <2>1, <2>2
<1>2. CASE claim \notin Values
  <2> DEFINE indices == {i \in DOMAIN claim : claim[i] \in Names}
             list == Picked(claim, indices)
  <2>1. stringList(claim) = list
    BY <1>2 DEF Values, stringList
  <2>2. IsFiniteSet(indices) /\ \A i \in indices : i \in Int
    BY <1>2, ListClaims, FS_Subset
  <2>3. {claim[i] : i \in indices} = ToSet(claim) \cap Names
    BY DEF ToSet
  <2> HIDE DEF indices, list
  <2>4. /\ Cardinality(indices) \in Nat
        /\ list \in [1..Cardinality(indices) -> ToSet(claim) \cap Names]
        /\ {list[n] : n \in DOMAIN list} = ToSet(claim) \cap Names
    BY <2>2, <2>3, PickedElements DEF list
  <2>5. DOMAIN list = 1..Len(list)
    BY <2>4
  <2>6. {name \in Names : Contains(list, name)} = ToSet(claim) \cap Names
    BY <2>4, <2>5 DEF Contains
  <2> QED
    BY <1>2, <2>1, <2>6
<1> QED
  BY <1>1, <1>2

-----------------------------------------------------------------------------
(* The claim helpers: the chain of actors.                                 *)

(* The recursion one level down.                                           *)
ActorAt(claim, depth, prior) ==
  IF depth = Len(claim.subjects)
  THEN IF claim.innermost = Null THEN <<>> ELSE <<Empty>>
  ELSE <<text(claim.subjects[depth + 1])>> \o
         (IF depth + 1 < maxActorDepth THEN prior ELSE <<>>)

(* What a call at one depth returns is made of what the call it makes      *)
(* returns.                                                                *)
LEMMA ActorRecursion ==
  ASSUME NEW claim
  PROVE  \E from : /\ actorFrom(claim) = from[0]
                   /\ \A depth \in 0..maxActorDepth :
                        from[depth] = ActorAt(claim, depth, from[depth + 1])
<1> DEFINE from == CHOOSE f : f = [depth \in 0..maxActorDepth |->
                                     ActorAt(claim, depth, f[depth + 1])]
           f8 == ActorAt(claim, 8, <<>>)
           f7 == ActorAt(claim, 7, f8)
           f6 == ActorAt(claim, 6, f7)
           f5 == ActorAt(claim, 5, f6)
           f4 == ActorAt(claim, 4, f5)
           f3 == ActorAt(claim, 3, f4)
           f2 == ActorAt(claim, 2, f3)
           f1 == ActorAt(claim, 1, f2)
           f0 == ActorAt(claim, 0, f1)
           g == <<f1, f2, f3, f4, f5, f6, f7, f8>>
           f == [depth \in 0..maxActorDepth |-> IF depth = 0 THEN f0 ELSE g[depth]]
<1>1. actorFrom(claim) = from[0]
  BY DEF actorFrom, ActorAt
<1>2. \A prior : ActorAt(claim, 8, prior) = f8
  BY DEF ActorAt, maxActorDepth
<1>3. /\ f7 = ActorAt(claim, 7, f8) /\ f6 = ActorAt(claim, 6, f7)
      /\ f5 = ActorAt(claim, 5, f6) /\ f4 = ActorAt(claim, 4, f5)
      /\ f3 = ActorAt(claim, 3, f4) /\ f2 = ActorAt(claim, 2, f3)
      /\ f1 = ActorAt(claim, 1, f2) /\ f0 = ActorAt(claim, 0, f1)
  OBVIOUS
<1> HIDE DEF f0, f1, f2, f3, f4, f5, f6, f7, f8
<1>4. /\ f[0] = f0 /\ f[1] = f1 /\ f[2] = f2 /\ f[3] = f3 /\ f[4] = f4
      /\ f[5] = f5 /\ f[6] = f6 /\ f[7] = f7 /\ f[8] = f8
  BY DEF maxActorDepth
<1>5. f = [depth \in 0..maxActorDepth |-> f[depth]]
  OBVIOUS
<1> HIDE DEF f
<1>6. ASSUME NEW depth \in 0..maxActorDepth
      PROVE  f[depth] = ActorAt(claim, depth, f[depth + 1])
  BY <1>2, <1>3, <1>4 DEF maxActorDepth
<1>7. f = [depth \in 0..maxActorDepth |-> ActorAt(claim, depth, f[depth + 1])]
  BY <1>5, <1>6
<1>8. from = [depth \in 0..maxActorDepth |-> ActorAt(claim, depth, from[depth + 1])]
  BY <1>7
<1> HIDE DEF from
<1>9. \A depth \in 0..maxActorDepth : from[depth] = ActorAt(claim, depth, from[depth + 1])
  BY <1>8
<1> QED
  BY <1>1, <1>9

(* A claim as the property describes it, and its actors from a depth on.   *)
IsChain(claim) ==
  /\ \E T : claim.subjects \in Seq(T)
  /\ Len(claim.subjects) \in Nat /\ DOMAIN claim.subjects = 1..Len(claim.subjects)

Depth(claim) == Len(claim.subjects) + (IF claim.innermost = Null THEN 0 ELSE 1)
Reported(claim) == IF Depth(claim) < 8 THEN Depth(claim) ELSE 8

ActorsFrom(claim, depth, actors) ==
  depth <= Len(claim.subjects) =>
    /\ actors \in Seq(Names \cup {Empty})
    /\ Len(actors) = Reported(claim) - depth
    /\ \A i \in 1..Len(actors) :
         depth + i <= Len(claim.subjects) /\ actors[i] \in Names =>
           actors[i] = claim.subjects[depth + i]

LEMMA ActorsOneUp ==
  ASSUME NEW claim, IsChain(claim), NEW depth \in 0..7, NEW prior,
         depth < 7 => ActorsFrom(claim, depth + 1, prior)
  PROVE  ActorsFrom(claim, depth, ActorAt(claim, depth, prior))
<1> DEFINE subjects == claim.subjects
           subject == text(subjects[depth + 1])
           rest == IF depth + 1 < maxActorDepth THEN prior ELSE <<>>
<1>1. Len(subjects) \in Nat
  BY DEF IsChain
<1>0. /\ Reported(claim) \in Nat
      /\ depth = Len(subjects) =>
           Reported(claim) = IF claim.innermost = Null THEN depth ELSE depth + 1
      /\ depth = 7 /\ depth < Len(subjects) => Reported(claim) = 8
  <2>1. Depth(claim) = IF claim.innermost = Null THEN Len(subjects) ELSE Len(subjects) + 1
    <3>1. claim.innermost = Null => Depth(claim) = Len(claim.subjects) + 0
      BY DEF Depth
    <3>2. claim.innermost # Null => Depth(claim) = Len(claim.subjects) + 1
      BY DEF Depth
    <3> QED
      BY <1>1, <3>1, <3>2
  <2>2. Len(subjects) \in Nat
    BY <1>1
  <2> HIDE DEF subjects
  <2> QED
    BY <2>1, <2>2 DEF Reported
<1>2. CASE depth = Len(subjects)
  <2>1. CASE claim.innermost = Null
    <3>1. ActorAt(claim, depth, prior) = <<>>
      BY <1>2, <2>1 DEF ActorAt
    <3> QED
      BY <1>0, <1>2, <2>1, <3>1 DEF ActorsFrom
  <2>2. CASE claim.innermost # Null
    <3>1. ActorAt(claim, depth, prior) = <<Empty>>
      BY <1>2, <2>2 DEF ActorAt
    <3>2. Reported(claim) = depth + 1
      BY <1>2, <1>0, <2>2
    <3> QED
      BY <1>1, <1>2, <3>1, <3>2 DEF ActorsFrom
  <2> QED
    BY <2>1, <2>2
<1>3. CASE depth < Len(subjects)
  <2>1. ActorAt(claim, depth, prior) = <<subject>> \o rest
    BY <1>1, <1>3 DEF ActorAt
  <2>2. subject \in Names \cup {Empty} /\ (subject \in Names => subject = subjects[depth + 1])
    BY NamesAssumption DEF text
  <2>3. /\ rest \in Seq(Names \cup {Empty})
        /\ Len(rest) = Reported(claim) - (depth + 1)
        /\ \A i \in 1..Len(rest) :
             depth + 1 + i <= Len(subjects) /\ rest[i] \in Names => rest[i] = subjects[depth + 1 + i]
    <3>1. CASE depth = 7
      <4>1. rest = <<>> /\ Len(rest) = 0
        BY <3>1 DEF maxActorDepth
      <4>2. Reported(claim) = 8
        BY <1>3, <1>0, <3>1
      <4> HIDE DEF rest
      <4> QED
        BY <3>1, <4>1, <4>2
    <3>2. CASE depth < 7
      BY <1>1, <1>3, <3>2 DEF maxActorDepth, ActorsFrom
    <3> QED
      BY <3>1, <3>2
  <2> DEFINE actors == <<subject>> \o rest
  <2> HIDE DEF subject, rest
  <2>4. /\ actors \in Seq(Names \cup {Empty})
        /\ Len(actors) = 1 + Len(rest)
        /\ \A i \in 1..(1 + Len(rest)) : actors[i] = IF i = 1 THEN subject ELSE rest[i - 1]
    BY <2>2, <2>3
  <2> HIDE DEF actors
  <2>5. Len(actors) = Reported(claim) - depth
    BY <1>0, <2>3, <2>4
  <2>6. ASSUME NEW i \in 1..Len(actors), depth + i <= Len(subjects), actors[i] \in Names
        PROVE  actors[i] = subjects[depth + i]
    <3>1. CASE i = 1
      BY <2>2, <2>4, <2>6, <3>1
    <3>2. CASE i > 1
      <4>1. i - 1 \in 1..Len(rest) /\ actors[i] = rest[i - 1] /\ depth + 1 + (i - 1) = depth + i
        BY <2>3, <2>4, <2>6, <3>2
      <4> QED
        BY <2>3, <2>6, <4>1
    <3> QED
      BY <2>3, <2>4, <3>1, <3>2
  <2> QED
    BY <2>1, <2>4, <2>5, <2>6 DEF ActorsFrom, actors
<1>4. CASE depth > Len(subjects)
  BY <1>4 DEF ActorsFrom
<1> QED
  BY <1>1, <1>2, <1>3, <1>4

LEMMA ActorsOfChain ==
  ASSUME NEW claim, IsChain(claim)
  PROVE  ActorsFrom(claim, 0, actorFrom(claim))
<1>1. PICK from : /\ actorFrom(claim) = from[0]
                  /\ \A depth \in 0..maxActorDepth :
                       from[depth] = ActorAt(claim, depth, from[depth + 1])
  BY ActorRecursion
<1>2. ASSUME NEW depth \in 0..7, depth < 7 => ActorsFrom(claim, depth + 1, from[depth + 1])
      PROVE  ActorsFrom(claim, depth, from[depth])
  <2>1. from[depth] = ActorAt(claim, depth, from[depth + 1])
    BY <1>1 DEF maxActorDepth
  <2> QED
    BY <1>2, <2>1, ActorsOneUp
<1>3. ActorsFrom(claim, 7, from[7])
  BY <1>2
<1>4. ActorsFrom(claim, 6, from[6])
  BY <1>2, <1>3
<1>5. ActorsFrom(claim, 5, from[5])
  BY <1>2, <1>4
<1>6. ActorsFrom(claim, 4, from[4])
  BY <1>2, <1>5
<1>7. ActorsFrom(claim, 3, from[3])
  BY <1>2, <1>6
<1>8. ActorsFrom(claim, 2, from[2])
  BY <1>2, <1>7
<1>9. ActorsFrom(claim, 1, from[1])
  BY <1>2, <1>8
<1> QED
  BY <1>1, <1>2, <1>9

-----------------------------------------------------------------------------
(* The claim helpers: the answers.                                         *)

AnswersTo(s) == [organization |-> OrganizationOf(s),
                 actor        |-> ActorOf(s),
                 support      |-> IsSupportSession(s),
                 roles        |-> {name \in Names : HasRole(s, name)},
                 permissions  |-> {name \in Names : HasPermission(s, name)}]

HelperInv ==
  /\ source \in [type : {"map", "user", "nil"}, claims : ClaimSets]
  /\ answers = Null \/ answers = AnswersTo(source)

(* The answers are those of the helpers to the source as it came.          *)
THEOREM HelperInvariance == HelperSpec => []HelperInv
<1>1. HelperInit => HelperInv
  BY DEF HelperInit, HelperInv
<1>2. HelperInv /\ [Ask]_helperVars => HelperInv'
  BY DEF HelperInv, Ask, helperVars, AnswersTo
<1> QED
  BY <1>1, <1>2, PTL DEF HelperSpec

LEMMA ClaimsEnumerated ==
  ASSUME NEW claims \in ClaimSets
  PROVE  claims.roles \in Lists /\ claims.permissions \in Lists /\ IsChain(claims.act)
<1>1. Null \in Lists
  BY DEF Lists, Values
<1>2. NoClaims.roles \in Lists /\ NoClaims.permissions \in Lists /\ IsChain(NoClaims.act)
  <2>1. NoClaims.roles = Null /\ NoClaims.permissions = Null /\ NoClaims.act.subjects = <<>>
    BY DEF NoClaims, Act
  <2>2. <<>> \in Seq({}) /\ Len(<<>>) = 0 /\ DOMAIN <<>> = 1..0
    OBVIOUS
  <2> QED
    BY <1>1, <2>1, <2>2 DEF IsChain
<1>3. ASSUME NEW act \in Chains PROVE IsChain(act)
  <2>1. PICK subjects \in SubjectLists, innermost \in {Null, Other} : act = Act(subjects, innermost)
    BY DEF Chains
  <2>2. subjects \in Seq(Values)
    BY SubjectListsAssumption
  <2>3. act.subjects = subjects
    BY <2>1 DEF Act
  <2> HIDE DEF Values
  <2>4. Len(subjects) \in Nat /\ DOMAIN subjects = 1..Len(subjects)
    BY <2>2
  <2> QED
    BY <2>2, <2>3, <2>4 DEF IsChain
<1>4. ASSUME NEW org, NEW name, NEW role, claims = WithOrganization(org, name, role)
      PROVE  /\ claims.roles = NoClaims.roles /\ claims.permissions = NoClaims.permissions
             /\ claims.act = NoClaims.act
  BY <1>4 DEF WithOrganization, NoClaims
<1>5. ASSUME NEW act \in Chains, claims = WithActor(act)
      PROVE  /\ claims.roles = NoClaims.roles /\ claims.permissions = NoClaims.permissions
             /\ claims.act = act
  BY <1>5 DEF WithActor, NoClaims
<1>6. ASSUME NEW roles \in Lists, NEW permissions \in Lists, claims = WithLists(roles, permissions)
      PROVE  /\ claims.roles = roles /\ claims.permissions = permissions
             /\ claims.act = NoClaims.act
  BY <1>6 DEF WithLists, NoClaims
<1>7. \/ \E org, name, role \in Values : claims = WithOrganization(org, name, role)
      \/ \E act \in Chains : claims = WithActor(act)
      \/ \E roles, permissions \in Lists : claims = WithLists(roles, permissions)
  BY DEF ClaimSets
<1> QED
  BY <1>2, <1>3, <1>4, <1>5, <1>6, <1>7

LEMMA AskedOfClaims ==
  ASSUME HelperInv, Asked
  PROVE  /\ answers = AnswersTo(source) /\ claimsOf(source) = source.claims
         /\ source.claims \in ClaimSets
BY DEF HelperInv, Asked, claimsOf

(* claims.go 80-89, 149-172: any act claim that is not null makes a        *)
(* support session, whatever its shape and depth, and the actors reported  *)
(* are the outermost eight of its chain.                                   *)
THEOREM SupportSessionsShow == HelperSpec => []DelegationIsNeverHidden
<1>1. HelperInv => DelegationIsNeverHidden
  <2> SUFFICES ASSUME HelperInv, Asked PROVE DelegationIsNeverHidden
    BY DEF DelegationIsNeverHidden
  <2> DEFINE act == source.claims.act
             actor == actorFrom(act)
  <2>1. answers.actor = actor /\ (answers.support <=> actor # <<>>)
    <3>1. ActorOf(source) = actor
      BY AskedOfClaims DEF ActorOf
    <3>2. answers.actor = ActorOf(source) /\ answers.support = IsSupportSession(source)
      <4>1. answers = AnswersTo(source)
        BY AskedOfClaims
      <4>2. AnswersTo(source).support = IsSupportSession(source)
        BY Zenon DEF AnswersTo
      <4>3. AnswersTo(source).actor = ActorOf(source)
        BY DEF AnswersTo
      <4> QED
        BY <4>1, <4>2, <4>3, Zenon
    <3> HIDE DEF actor
    <3> QED
      BY <3>1, <3>2, Zenon DEF IsSupportSession
  <2>2. IsChain(act)
    BY AskedOfClaims, ClaimsEnumerated
  <2>3. ActorsFrom(act, 0, actor)
    BY <2>2, ActorsOfChain
  <2> DEFINE depth == Len(act.subjects) + (IF act.innermost = Null THEN 0 ELSE 1)
             reported == IF depth < 8 THEN depth ELSE 8
  <2>4. reported = Reported(act)
    BY DEF Reported, Depth
  <2> HIDE DEF act, actor, reported
  <2>5. Len(act.subjects) \in Nat /\ DOMAIN act.subjects = 1..Len(act.subjects)
    BY <2>2 DEF IsChain
  <2>6. /\ actor \in Seq(Names \cup {Empty}) /\ Len(actor) = reported
        /\ \A i \in 1..Len(actor) :
             i <= Len(act.subjects) /\ actor[i] \in Names => actor[i] = act.subjects[i]
    <3>1. Reported(act) - 0 = reported
      BY <2>4, <2>5 DEF Reported, Depth
    <3> QED
      BY <2>3, <2>5, <3>1 DEF ActorsFrom
  <2>7. actor # <<>> <=> (act.subjects # <<>> \/ act.innermost # Null)
    <3>1. actor # <<>> <=> reported # 0
      BY <2>6
    <3>2. act.subjects # <<>> <=> Len(act.subjects) # 0
      BY <2>2 DEF IsChain
    <3>3. reported # 0 <=> (Len(act.subjects) # 0 \/ act.innermost # Null)
      <4>1. act.innermost = Null => depth = Len(act.subjects) + 0
        OBVIOUS
      <4>2. act.innermost # Null => depth = Len(act.subjects) + 1
        OBVIOUS
      <4> HIDE DEF depth
      <4> QED
        BY <2>5, <4>1, <4>2 DEF reported
    <3> QED
      BY <3>1, <3>2, <3>3
  <2>8. \A i \in (DOMAIN actor) \cap (DOMAIN act.subjects) :
          actor[i] \in Names => actor[i] = act.subjects[i]
    BY <2>5, <2>6
  <2> QED
    BY <2>1, <2>6, <2>7, <2>8 DEF DelegationIsNeverHidden, act, reported
<1> QED
  BY <1>1, HelperInvariance, PTL

(* claims.go 20-31, 91-112, 140-147, 174-191: a role or a permission is    *)
(* held only if it is a string in the list of its own claim, and the       *)
(* organization and its tier come of their own claims or are none.         *)
THEOREM GrantsAreListed == HelperSpec => []GrantsAreThoseListed
<1>1. HelperInv => GrantsAreThoseListed
  <2> SUFFICES ASSUME HelperInv, Asked PROVE GrantsAreThoseListed
    BY DEF GrantsAreThoseListed
  <2> DEFINE claims == source.claims
             listed(claim) == IF claim \in Values THEN {} ELSE ToSet(claim) \cap Names
  <2>1. answers = AnswersTo(source) /\ claimsOf(source) = claims /\ claims \in ClaimSets
    BY AskedOfClaims
  <2>2. claims.roles \in Lists /\ claims.permissions \in Lists
    BY <2>1, ClaimsEnumerated
  <2>3. answers.roles = listed(claims.roles)
    <3>1. answers.roles = {name \in Names : Contains(stringList(claims.roles), name)}
      BY <2>1 DEF AnswersTo, HasRole, RolesOf
    <3> QED
      BY <2>2, <3>1, ListedNames
  <2>4. answers.permissions = listed(claims.permissions)
    <3>1. answers.permissions = {name \in Names : Contains(stringList(claims.permissions), name)}
      BY <2>1 DEF AnswersTo, HasPermission, PermissionsOf
    <3> QED
      BY <2>2, <3>1, ListedNames
  <2>5. answers.organization = organizationFrom(claims)
    BY <2>1 DEF AnswersTo, OrganizationOf
  <2>6. IF claims.org \in Names
        THEN /\ answers.organization.id = claims.org
             /\ answers.organization.role \in {Empty, claims.org_role} \cap (Tiers \cup {Empty})
        ELSE answers.organization = Null
    BY <2>5, NamesAssumption DEF organizationFrom, text, parseOrganizationRole
  <2> QED
    BY <2>3, <2>4, <2>6 DEF GrantsAreThoseListed
<1> QED
  BY <1>1, HelperInvariance, PTL

-----------------------------------------------------------------------------
(* Authorization requests: the words of the prompt.                        *)

LEMMA PromptPlaces ==
  ASSUME NEW prompt \in Prompts
  PROVE  /\ IsFiniteSet(WordPlaces(prompt))
         /\ \A p \in WordPlaces(prompt) : /\ p = <<p[1], p[2]>> /\ p[1] \in Int /\ p[2] \in Int
                                          /\ p[1] \in DOMAIN prompt /\ p[2] \in DOMAIN prompt[p[1]]
         /\ \A i \in DOMAIN prompt : \A j \in DOMAIN prompt[i] : <<i, j>> \in WordPlaces(prompt)
<1> DEFINE values == BoundedSeq(Words, MaxWords)
<1>1. PICK m \in 0..MaxValues : prompt \in [1..m -> values]
  BY DEF Prompts, BoundedSeq, SeqOf
<1>2. m \in Nat /\ m <= MaxValues /\ DOMAIN prompt = 1..m /\ \A i \in 1..m : prompt[i] \in values
  BY <1>1
<1>3. ASSUME NEW i \in 1..m
      PROVE  DOMAIN prompt[i] \subseteq 1..MaxWords
  <2>1. PICK n \in 0..MaxWords : prompt[i] \in [1..n -> Words]
    BY <1>2 DEF BoundedSeq, SeqOf
  <2> QED
    BY <2>1, MaxWordsAssumption
<1> HIDE DEF values
<1>4. WordPlaces(prompt) \in SUBSET ((1..m) \X (1..MaxWords))
  BY <1>2, <1>3 DEF WordPlaces
<1>5. IsFiniteSet((1..m) \X (1..MaxWords))
  <2>1. IsFiniteSet(1..m) /\ IsFiniteSet(1..MaxWords)
    BY <1>2, MaxWordsAssumption, FS_Interval, 1 \in Int, m \in Int, MaxWords \in Int, Zenon
  <2> QED
    BY <2>1, FS_Product
<1>6. IsFiniteSet(WordPlaces(prompt))
  BY <1>4, <1>5, FS_Subset
<1>7. \A p \in WordPlaces(prompt) :
        /\ p = <<p[1], p[2]>> /\ p[1] \in DOMAIN prompt /\ p[2] \in DOMAIN prompt[p[1]]
  BY DEF WordPlaces
<1>8. \A i \in DOMAIN prompt : \A j \in DOMAIN prompt[i] : <<i, j>> \in WordPlaces(prompt)
  BY DEF WordPlaces
<1>9. \A p \in WordPlaces(prompt) : p[1] \in Int /\ p[2] \in Int
  BY <1>2, <1>3, <1>7
<1> QED
  BY <1>6, <1>7, <1>8, <1>9

Met(prompt) ==
  {pq \in WordPlaces(prompt) \X WordPlaces(prompt) : MetUpTo(pq[1], pq[2])}

LEMMA PlacesAreOrdered ==
  ASSUME NEW prompt \in Prompts, NEW S \in SUBSET WordPlaces(prompt)
  PROVE  /\ Orders(Met(prompt), S) /\ IsFiniteSet(S)
         /\ \A p, q \in S : <<p, q>> \in Met(prompt) <=> MetUpTo(p, q)
<1>1. \A p, q \in WordPlaces(prompt) : <<p, q>> \in Met(prompt) <=> MetUpTo(p, q)
  BY DEF Met
<1>2. \A p \in S : p = <<p[1], p[2]>> /\ p[1] \in Int /\ p[2] \in Int
  BY PromptPlaces
<1>3. \A p, q \in S : MetUpTo(p, q) \/ MetUpTo(q, p)
  BY <1>2 DEF MetUpTo
<1>4. \A p, q \in S : MetUpTo(p, q) /\ MetUpTo(q, p) => p = q
  <2> SUFFICES ASSUME NEW p \in S, NEW q \in S, MetUpTo(p, q), MetUpTo(q, p) PROVE p = q
    OBVIOUS
  <2>1. p[1] = q[1] /\ p[2] = q[2]
    BY <1>2 DEF MetUpTo
  <2> QED
    BY <1>2, <2>1
<1>5. \A p, q, r \in S : MetUpTo(p, q) /\ MetUpTo(q, r) => MetUpTo(p, r)
  BY <1>2 DEF MetUpTo
<1>6. IsFiniteSet(S)
  BY PromptPlaces, FS_Subset
<1> QED
  BY <1>1, <1>3, <1>4, <1>5, <1>6 DEF Orders

(* Every word has a place where it is met first.                           *)
LEMMA WordsAreMet ==
  ASSUME NEW prompt \in Prompts
  PROVE  {WordAt(prompt, p) : p \in FirstMet(prompt)} = WordsOf(prompt)
<1>1. ASSUME NEW p \in FirstMet(prompt)
      PROVE  WordAt(prompt, p) \in WordsOf(prompt)
  BY PromptPlaces DEF FirstMet, WordAt, WordsOf, ToSet
<1>2. ASSUME NEW word \in WordsOf(prompt)
      PROVE  \E p \in FirstMet(prompt) : WordAt(prompt, p) = word
  <2> DEFINE same == {p \in WordPlaces(prompt) : WordAt(prompt, p) = word}
  <2>1. PICK i \in DOMAIN prompt : word \in ToSet(prompt[i])
    BY DEF WordsOf
  <2>2. PICK j \in DOMAIN prompt[i] : prompt[i][j] = word
    BY <2>1 DEF ToSet
  <2>3. <<i, j>> \in same
    BY <2>2, PromptPlaces DEF WordAt
  <2>4. /\ Orders(Met(prompt), same) /\ IsFiniteSet(same)
        /\ \A p, q \in same : <<p, q>> \in Met(prompt) <=> MetUpTo(p, q)
    BY PlacesAreOrdered
  <2>5. PICK p \in same : \A q \in same : <<p, q>> \in Met(prompt)
    <3> HIDE DEF same
    <3> QED
      BY <2>4, <2>3, FirstAndLast
  <2>6. \A q \in WordPlaces(prompt) : WordAt(prompt, q) = word => MetUpTo(p, q)
    BY <2>4, <2>5
  <2> QED
    BY <2>6 DEF FirstMet
<1> QED
  BY <1>1, <1>2

(* promptValue lists each word of the prompt once.                         *)
LEMMA PromptWords ==
  ASSUME NEW prompt \in Prompts
  PROVE  LET values == promptValue(prompt) IN
         /\ values \in Seq(WordsOf(prompt))
         /\ ToSet(values) = WordsOf(prompt)
         /\ IsInjective(values)
<1> DEFINE first == FirstMet(prompt)
           size == Cardinality(first)
           order == InOrder(first, MetUpTo)
           values == promptValue(prompt)
<1>1. /\ Orders(Met(prompt), first) /\ IsFiniteSet(first)
      /\ \A p, q \in first : <<p, q>> \in Met(prompt) <=> MetUpTo(p, q)
  BY PlacesAreOrdered DEF FirstMet
<1>2. /\ size \in Nat
      /\ \A p \in first : Rank(first, Met(prompt), p) \in 1..size
      /\ \A p, q \in first : Rank(first, Met(prompt), p) = Rank(first, Met(prompt), q) => p = q
      /\ \A n \in 1..size : \E p \in first : Rank(first, Met(prompt), p) = n
  <2> HIDE DEF first
  <2> QED
    BY <1>1, Ranks
<1>3. \A p \in first : Rank(first, Met(prompt), p) = Cardinality({q \in first : MetUpTo(q, p)})
  <2>1. \A p \in first : {q \in first : <<q, p>> \in Met(prompt)} = {q \in first : MetUpTo(q, p)}
    BY <1>1
  <2> QED
    BY <2>1 DEF Rank
<1>4. order = [n \in 1..size |->
                 CHOOSE p \in first : Cardinality({q \in first : MetUpTo(q, p)}) = n]
  BY DEF InOrder
<1>5. values = [n \in DOMAIN order |-> WordAt(prompt, order[n])]
  BY DEF promptValue
<1> HIDE DEF first, size, order, values
<1>6. DOMAIN order = 1..size
  BY <1>4
<1>7. ASSUME NEW n \in 1..size
      PROVE  order[n] \in first /\ Rank(first, Met(prompt), order[n]) = n
  <2>1. \E p \in first : Cardinality({q \in first : MetUpTo(q, p)}) = n
    BY <1>2, <1>3
  <2>2. order[n] = CHOOSE p \in first : Cardinality({q \in first : MetUpTo(q, p)}) = n
    BY <1>4
  <2>3. order[n] \in first /\ Cardinality({q \in first : MetUpTo(q, order[n])}) = n
    BY <2>1, <2>2
  <2> QED
    BY <1>3, <2>3
<1>8. \A p \in first : \E n \in 1..size : order[n] = p
  BY <1>2, <1>7
<1>9. DOMAIN values = 1..size /\ \A n \in 1..size : values[n] = WordAt(prompt, order[n])
  BY <1>5, <1>6
<1>10. {WordAt(prompt, p) : p \in first} = WordsOf(prompt)
  BY WordsAreMet DEF first
<1>11. \A n \in 1..size : values[n] \in WordsOf(prompt)
  BY <1>7, <1>9, <1>10
<1>12. ToSet(values) = WordsOf(prompt)
  <2>1. ASSUME NEW word \in WordsOf(prompt) PROVE \E n \in 1..size : values[n] = word
    BY <1>8, <1>9, <1>10
  <2> QED
    BY <1>9, <1>11, <2>1 DEF ToSet
<1>13. IsInjective(values)
  <2>1. ASSUME NEW m \in 1..size, NEW n \in 1..size, values[m] = values[n]
        PROVE  m = n
    <3>1. order[m] \in first /\ order[n] \in first /\ WordAt(prompt, order[m]) = WordAt(prompt, order[n])
      BY <1>7, <1>9, <2>1
    <3>2. MetUpTo(order[m], order[n]) /\ MetUpTo(order[n], order[m])
      BY <3>1 DEF first, FirstMet
    <3>3. order[m] = order[n]
      BY <1>1, <3>1, <3>2 DEF Orders
    <3> QED
      BY <1>7, <3>3
  <2> QED
    BY <1>9, <2>1 DEF IsInjective
<1>14. values \in Seq(WordsOf(prompt))
  <2>1. values = [n \in 1..size |-> values[n]]
    BY <1>5, <1>9
  <2> QED
    BY <1>2, <1>11, <2>1
<1> QED
  BY <1>12, <1>13, <1>14 DEF values

-----------------------------------------------------------------------------
(* Authorization requests: what is built and what is refused.              *)

(* The words the two checks of a request look for.                         *)
LEMMA ChecksOfWords ==
  ASSUME NEW prompt \in Prompts
  PROVE  LET values == promptValue(prompt) IN
         /\ \A word : Contains(values, word) <=> word \in WordsOf(prompt)
         /\ NoneIsCombined(values) => "none" \in WordsOf(prompt) /\ WordsOf(prompt) # {"none"}
         /\ ~ NoneIsCombined(values) /\ "none" \in WordsOf(prompt) => values = <<"none">>
<1> DEFINE values == promptValue(prompt)
<1>1. /\ values \in Seq(WordsOf(prompt)) /\ ToSet(values) = WordsOf(prompt)
      /\ IsInjective(values)
  BY PromptWords
<1> HIDE DEF values
<1>2. Len(values) \in Nat /\ DOMAIN values = 1..Len(values)
  BY <1>1
<1>3. \A word : Contains(values, word) <=> word \in WordsOf(prompt)
  BY <1>1, <1>2 DEF Contains, ToSet
<1>4. ASSUME NoneIsCombined(values)
      PROVE  "none" \in WordsOf(prompt) /\ WordsOf(prompt) # {"none"}
  <2>1. "none" \in WordsOf(prompt) /\ 1 \in DOMAIN values /\ 2 \in DOMAIN values
    BY <1>2, <1>3, <1>4 DEF NoneIsCombined
  <2>2. values[1] # values[2] /\ values[1] \in WordsOf(prompt) /\ values[2] \in WordsOf(prompt)
    BY <1>1, <2>1 DEF IsInjective, ToSet
  <2> QED
    BY <2>1, <2>2
<1>5. ASSUME ~ NoneIsCombined(values), "none" \in WordsOf(prompt)
      PROVE  values = <<"none">>
  <2>1. PICK i \in 1..Len(values) : values[i] = "none"
    BY <1>3, <1>5 DEF Contains
  <2>2. Len(values) = 1 /\ values[1] = "none"
    BY <1>2, <1>3, <1>5, <2>1 DEF NoneIsCombined
  <2> QED
    BY <1>1, <2>2
<1> QED
  BY <1>3, <1>4, <1>5 DEF values

Choosing == {"select_organization", "create_organization"}

(* What an answer of CreateAuthorizationRequest owes to its parameters.     *)
AnsweredFor(built, uri, p) ==
  /\ built.err = "nil" =>
       /\ built.url.prompt = promptValue(p.prompt)
       /\ built.url.organization = p.organization /\ built.organization = p.organization
       /\ built.url.hint = p.hint
       /\ "none" \in WordsOf(p.prompt) => built.url.prompt = <<"none">>
       /\ p.organization # Empty => WordsOf(p.prompt) \cap Choosing = {}
  /\ built = ErrConfiguration =>
       \/ uri = Empty
       \/ "none" \in WordsOf(p.prompt) /\ WordsOf(p.prompt) # {"none"}
       \/ WordsOf(p.prompt) \cap Choosing # {} /\ p.organization # Empty

LEMMA CreateAnswers ==
  ASSUME NEW uri, NEW p, p.prompt \in Prompts, NEW r
  PROVE  AnsweredFor(CreateAuthorizationRequest(uri, p, r), uri, p)
<1> DEFINE values == promptValue(p.prompt)
           words == WordsOf(p.prompt)
           refused == \/ uri = Empty
                      \/ NoneIsCombined(values)
                      \/ ~ assertOrganizationParams(p, values)
           built == CreateAuthorizationRequest(uri, p, r)
<1>1. /\ \A word : Contains(values, word) <=> word \in words
      /\ NoneIsCombined(values) => "none" \in words /\ words # {"none"}
      /\ ~ NoneIsCombined(values) /\ "none" \in words => values = <<"none">>
  BY ChecksOfWords
<1> HIDE DEF values, words
<1>2. assertOrganizationParams(p, values) <=> (p.organization # Empty => words \cap Choosing = {})
  BY <1>1 DEF assertOrganizationParams, Choosing
<1>3. refused => built = ErrConfiguration
  BY DEF CreateAuthorizationRequest, values
<1>4. ~ refused => /\ built.err = "nil" /\ built.url.prompt = values
                   /\ built.url.organization = p.organization /\ built.organization = p.organization
                   /\ built.url.hint = p.hint
  BY DEF CreateAuthorizationRequest, values
<1>5. ErrConfiguration.err # "nil"
  BY DEF ErrConfiguration
<1> HIDE DEF built
<1> QED
  BY <1>1, <1>2, <1>3, <1>4, <1>5 DEF AnsweredFor, built, values, words

RequestInv ==
  /\ organizationID \in Organizations \cup {Empty}
  /\ params \in ParamSet
  /\ entry \in {"none", "create", "switch"}
  /\ entry = "none" => answer = Pending
  /\ entry = "create" => answer = CreateAuthorizationRequest(redirectURI, params, Random)
  /\ entry = "switch" => answer = SwitchOrganization(redirectURI, organizationID, params, Random)

(* The answer is that of the entry point called with the parameters.       *)
THEOREM RequestInvariance == RequestSpec => []RequestInv
<1>1. RequestInit => RequestInv
  BY DEF RequestInit, RequestInv
<1>2. RequestInv /\ [RequestNext]_requestVars => RequestInv'
  BY DEF RequestInv, RequestNext, Create, Switch, requestVars
<1> QED
  BY <1>1, <1>2, PTL DEF RequestSpec

(* What was built, by either entry point, was built by                     *)
(* CreateAuthorizationRequest: by SwitchOrganization with its argument for *)
(* the organization.                                                       *)
Binding == IF entry = "switch" THEN [params EXCEPT !.organization = organizationID] ELSE params

LEMMA BuiltByCreate ==
  ASSUME RequestInv
  PROVE  /\ Binding.prompt = params.prompt /\ Binding.prompt \in Prompts
         /\ Binding.hint = params.hint
         /\ Binding.organization = IF entry = "switch" THEN organizationID ELSE params.organization
         /\ Built => /\ entry # "none"
                     /\ answer = CreateAuthorizationRequest(redirectURI, Binding, Random)
                     /\ entry = "switch" => organizationID # Empty /\ params.hint = Empty
         /\ answer = ErrConfiguration =>
              /\ entry # "none"
              /\ \/ answer = CreateAuthorizationRequest(redirectURI, Binding, Random)
                 \/ /\ entry = "switch"
                    /\ organizationID = Empty \/ params.organization # Empty \/ params.hint # Empty
<1>1. /\ Binding.prompt = params.prompt /\ Binding.prompt \in Prompts
      /\ Binding.hint = params.hint
      /\ Binding.organization = IF entry = "switch" THEN organizationID ELSE params.organization
  BY DEF RequestInv, ParamSet, Binding
<1>2. Pending.err # "nil" /\ ErrConfiguration.err # "nil" /\ Pending # ErrConfiguration
  BY DEF Pending, ErrConfiguration
<1>3. CASE entry = "none"
  BY <1>1, <1>2, <1>3 DEF RequestInv, Built
<1>4. CASE entry = "create"
  BY <1>1, <1>4 DEF RequestInv, Binding
<1>5. CASE entry = "switch"
  <2> DEFINE contradicts == organizationID = Empty \/ params.organization # Empty \/ params.hint # Empty
  <2>1. CASE contradicts
    <3>1. answer = ErrConfiguration
      BY <1>5, <2>1 DEF RequestInv, SwitchOrganization
    <3> QED
      BY <1>1, <1>2, <1>5, <2>1, <3>1 DEF Built
  <2>2. CASE ~ contradicts
    <3>1. answer = CreateAuthorizationRequest(redirectURI, Binding, Random)
      BY <1>5, <2>2 DEF RequestInv, SwitchOrganization, Binding
    <3> QED
      BY <1>1, <1>5, <2>2, <3>1
  <2> QED
    BY <2>1, <2>2
<1> QED
  BY <1>3, <1>4, <1>5 DEF RequestInv

(* auth.go 41-43, 210-230: a request that was built asks for exactly the   *)
(* words passed, each once, and for none with nothing else.                *)
THEOREM PromptsAreAsPassed == RequestSpec => []PromptIsExactlyWhatWasAsked
<1>1. RequestInv => PromptIsExactlyWhatWasAsked
  <2> SUFFICES ASSUME RequestInv, Built PROVE PromptIsExactlyWhatWasAsked
    BY DEF PromptIsExactlyWhatWasAsked
  <2>1. /\ params.prompt \in Prompts /\ Binding.prompt = params.prompt
        /\ AnsweredFor(answer, redirectURI, Binding)
    BY BuiltByCreate, CreateAnswers
  <2>2. /\ answer.url.prompt = promptValue(params.prompt)
        /\ "none" \in WordsOf(params.prompt) => answer.url.prompt = <<"none">>
    BY <2>1 DEF AnsweredFor, Built
  <2> QED
    BY <2>1, <2>2, PromptWords DEF PromptIsExactlyWhatWasAsked
<1> QED
  BY <1>1, RequestInvariance, PTL

(* auth.go 185-208, 232-254: a request is bound as its entry point says,   *)
(* and a bound one asks nobody to choose or create an organization.        *)
THEOREM RequestsAreBoundAsAsked == RequestSpec => []BoundAsTheEntryPointSays
<1>1. RequestInv => BoundAsTheEntryPointSays
  <2> SUFFICES ASSUME RequestInv, Built PROVE BoundAsTheEntryPointSays
    BY DEF BoundAsTheEntryPointSays
  <2>1. /\ Binding.prompt = params.prompt /\ Binding.hint = params.hint
        /\ Binding.organization = IF entry = "switch" THEN organizationID ELSE params.organization
        /\ entry = "switch" => organizationID # Empty /\ params.hint = Empty
        /\ answer = CreateAuthorizationRequest(redirectURI, Binding, Random)
        /\ Binding.prompt \in Prompts
    BY BuiltByCreate
  <2>2. /\ answer.url.organization = Binding.organization
        /\ answer.organization = Binding.organization
        /\ answer.url.hint = Binding.hint
        /\ Binding.organization # Empty => WordsOf(params.prompt) \cap Choosing = {}
    <3>1. AnsweredFor(answer, redirectURI, Binding)
      BY <2>1, CreateAnswers
    <3> QED
      BY <2>1, <3>1 DEF AnsweredFor, Built
  <2> QED
    BY <2>1, <2>2 DEF BoundAsTheEntryPointSays, Choosing
<1> QED
  BY <1>1, RequestInvariance, PTL

(* auth.go 129-135, 202-204: nothing is refused but what the documentation *)
(* names.                                                                  *)
THEOREM RefusalsAreContradictions == RequestSpec => []RefusedOnlyForAContradiction
<1>1. RequestInv => RefusedOnlyForAContradiction
  <2> SUFFICES ASSUME RequestInv, answer = ErrConfiguration PROVE RefusedOnlyForAContradiction
    BY DEF RefusedOnlyForAContradiction
  <2>1. /\ Binding.prompt = params.prompt /\ Binding.prompt \in Prompts
        /\ Binding.organization = IF entry = "switch" THEN organizationID ELSE params.organization
        /\ \/ answer = CreateAuthorizationRequest(redirectURI, Binding, Random)
           \/ /\ entry = "switch"
              /\ organizationID = Empty \/ params.organization # Empty \/ params.hint # Empty
    BY BuiltByCreate
  <2>2. CASE answer = CreateAuthorizationRequest(redirectURI, Binding, Random)
    <3>1. \/ redirectURI = Empty
          \/ "none" \in WordsOf(params.prompt) /\ WordsOf(params.prompt) # {"none"}
          \/ WordsOf(params.prompt) \cap Choosing # {} /\ Binding.organization # Empty
      <4>1. AnsweredFor(answer, redirectURI, Binding)
        BY <2>1, <2>2, CreateAnswers
      <4> QED
        BY <2>1, <4>1 DEF AnsweredFor
    <3> QED
      BY <2>1, <3>1 DEF RefusedOnlyForAContradiction, Choosing
  <2> QED
    BY <2>1, <2>2 DEF RefusedOnlyForAContradiction
<1> QED
  BY <1>1, RequestInvariance, PTL
=============================================================================
