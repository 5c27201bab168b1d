SPECIFICATION UploadSpec
CONSTANTS
  w1 = w1
  c1 = c1
  c2 = c2
  c3 = c3
  u1 = u1
  u2 = u2
  k1 = k1
  NoDraft = NoDraft
  Down = Down
  NoReply = NoReply
  Nobody = Nobody
  NoAnswer = NoAnswer
  Writers <- MCWriters
  Content <- MCContent
  Origin <- MCOrigin
  SizeOf <- MCSizeOf
  StartsOf <- MCStartsOf
  Limits <- MCLimits
  Times <- MCTwoTimes
  Overhead = 9
  RowCost = 1
  GapCost = 1
  FixedBootId = FALSE
  MaxSeq = 2
  MaxBoots = 0
  SqlMax = 20
  FlowKey <- MCFlowKey
  CapturePointOf <- MCCapturePointOf
  BodyLimit = 2
  BucketsOf <- MCBucketsOf
  ControlLimits <- MCSmall
  BatchCost = 1
  FlowCost = 1
  Uploaders <- MCTwo
  UploadLimit = 2
  MaxStops = 1
  MaxLosses = 0
INVARIANTS
  TypeOK
  ForgottenOnlyIfDelivered
PROPERTIES
  AcknowledgesItsOwn
  ImplementsDelivery
  UploadTerminates
CHECK_DEADLOCK FALSE
