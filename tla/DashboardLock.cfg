SPECIFICATION Spec
CONSTANTS
  Item <- MCItem
  Answers <- MCAnswers
  NoItem = NoItem
  Nothing = Nothing
  MaxGen = 3
INVARIANT RefreshLocked
CHECK_DEADLOCK FALSE
