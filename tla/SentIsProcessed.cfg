SPECIFICATION FairSpec
CONSTANTS
  Notices <- MCNotices
  Keys <- MCKeys
  Key <- MCKey
  MaxRetries = 3
INVARIANTS
  SentIsProcessed
CHECK_DEADLOCK FALSE
