SPECIFICATION Spec
CONSTANTS
  w1 = w1
  w2 = w2
  small = small
  big = big
  huge = huge
  NoDraft = NoDraft
  Writers <- MCWriters
  Content <- MCTwoSizes
  Origin <- MCOrigin
  SizeOf <- MCSizeOf
  StartsOf <- MCStartsOf
  Limits <- MCLimits
  Times <- MCTimes
  Overhead = 4
  RowCost = 1
  GapCost = 1
  FixedBootId = FALSE
  SqlMax = 10
  MaxSeq = 3
  MaxBoots = 1
INVARIANTS
  TypeOK
  EveryBatchAccounted
  GapsFaithful
  PayloadWithinLimit
  LoopIsSurvivors
PROPERTIES
  EnqueueRestoresLimits
  OldestEvictedFirst
CHECK_DEADLOCK FALSE
