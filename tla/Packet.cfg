SPECIFICATION Spec
CONSTANTS
  Frames <- MCFrames
  Error = Error
  None = None
  SnapLen = 140
INVARIANT FindsTheFlow
PROPERTY CaptureLengthIrrelevant
\* Every behavior ends when the whole snapshot length has been tried.
CHECK_DEADLOCK FALSE
