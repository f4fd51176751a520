SPECIFICATION Spec
CONSTANTS
  Settings <- MCSettings
  Fixed <- MCFixed
  Input = 64
  CreditCap = 72
  Block <- MCBlock
INVARIANTS
  CoversData
  BeatsNoStage
  StalledOnlyByPause
PROPERTY
  SentOrStalled
CHECK_DEADLOCK FALSE
