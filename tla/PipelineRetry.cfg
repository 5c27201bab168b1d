SPECIFICATION RetrySpec
CONSTANTS
  w1 = w1
  c1 = c1
  c2 = c2
  c3 = c3
  u1 = u1
  u2 = u2
  k1 = k1
  NoDraft = NoDraft
  Down = Down
  NoReply = NoReply
  Nobody = Nobody
  NoAnswer = NoAnswer
  Writers <- MCWriters
  Content <- MCThree
  Origin <- MCOrigin
  SizeOf <- MCTwoSizes
  StartsOf <- MCStartsOf
  Limits <- MCWide
  Times <- MCOneTime
  Overhead = 9
  RowCost = 1
  GapCost = 1
  FixedBootId = TRUE
  MaxSeq = 2
  MaxBoots = 1
  SqlMax = 20
  FlowKey <- MCFlowKey
  CapturePointOf <- MCCapturePointOf
  BodyLimit = 1
  BucketsOf <- MCBucketsOf
  ControlLimits <- MCLarge
  BatchCost = 1
  FlowCost = 1
  Uploaders <- MCOne
  UploadLimit = 2
  MaxStops = 1
  MaxLosses = 0
PROPERTIES
  EventuallyLeaves
CHECK_DEADLOCK FALSE
