SPECIFICATION Spec
CONSTANTS
  w1 = w1
  w2 = w2
  small = small
  big = big
  huge = huge
  NoDraft = NoDraft
  Writers <- MCOneWriter
  Content <- MCContent
  Origin <- MCOrigin
  SizeOf <- MCSizeOf
  StartsOf <- MCStartsOf
  Limits <- MCLimits
  Times <- MCTimes
  Overhead = 4
  RowCost = 1
  GapCost = 1
  FixedBootId = FALSE
  SqlMax = 10
  MaxSeq = 3
  MaxBoots = 0
PROPERTIES
  OverflowEvicts
CHECK_DEADLOCK FALSE
