SPECIFICATION FairSpec
CONSTANTS
  k1 = k1
  k2 = k2
  Ignored = Ignored
  Malformed = Malformed
  Unlimited = Unlimited
  FlowKey <- MCOneKey
  Sizes <- MCSizes
  bucket_seconds = 2
  RingSize = 1
  CounterSize = 3
  max_batches = 2
  MaxPackets = 3
  MaxClock = 4
  MaxSteps = 1
INVARIANTS
  TypeOK
  PacketsConserved
  BatchesClosed
  DiagnosticsAddUp
PROPERTIES
  BucketsLeave
CHECK_DEADLOCK FALSE
