SPECIFICATION Spec
CONSTANTS
  node1 = node1
  node2 = node2
  boot1 = boot1
  none = none
  small = small
  twice = twice
  big = big
  huge = huge
  eth0 = eth0
  wg0 = wg0
  Down = Down
  NoReply = NoReply
  Origin <- MCOrigin
  Content <- MCContent
  FlowKey <- MCFlowKey
  CapturePointOf <- MCCapturePointOf
  SizeOf <- MCSizeOf
  BodyLimit = 2
  BucketsOf <- MCBucketsOf
  Times <- MCTimes
  ControlLimits <- MCControlLimits
  Posted <- MCPosted
  BatchCost = 1
  FlowCost = 1
  SqlMax = 10
INVARIANTS
  TypeOK
  StoredOnce
  StoredWhole
  FileWithinLimit
  QueriesAgree
PROPERTIES
  AckMeansStored
  OnlyExpiredLeave
  RetryIsAcknowledged
