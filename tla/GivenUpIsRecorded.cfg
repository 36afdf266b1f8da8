SPECIFICATION FairSpec
CONSTANTS
  Notices <- TwoNotices
  Keys <- MCKeys
  Key <- OneKey
  MaxRetries = 3
INVARIANTS
  GivenUpIsRecorded
CHECK_DEADLOCK FALSE
