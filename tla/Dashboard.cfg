SPECIFICATION FairSpec
CONSTANTS
  Item <- MCItem
  Answers <- MCAnswers
  NoItem = NoItem
  Nothing = Nothing
  MaxGen = 5
INVARIANTS
  TypeOK
  OnlineShowsSelection
  BusyAwaitsAnswer
  ComparisonShared
PROPERTIES
  SelectionSurvives
  RefreshCompletes
\* The bound on the loads ends every run.
CHECK_DEADLOCK FALSE
