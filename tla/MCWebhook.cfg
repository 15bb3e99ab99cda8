SPECIFICATION WebhookSpec
CONSTANTS
  Half = 2048
  NoSecret = NoSecret
  Empty = Empty
  Secrets = {ours, theirs}
  Payloads = {p1, p2}
  Now = 900
  Offsets <- MCOffsets
  Tolerances = {0, 5}
  MaxSegments = 2
INVARIANTS
  AcceptedMeansSignedAndFresh
  GenuineIsAccepted
CHECK_DEADLOCK FALSE
