SPECIFICATION FairSpec
CONSTANTS
  Notices <- TwoNotices
  Keys <- MCKeys
  Key <- OneKey
  MaxRetries = 3
INVARIANTS
  TypeOK
  DeliveryBound
  AnsweredIsHandedOver
PROPERTIES
  LetterIsFinal
  Accounted
\* Requests are finite.
CHECK_DEADLOCK FALSE
