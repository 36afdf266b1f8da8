\* A creation and a panel in one process, two attempts for each call.
CONSTANTS
  Creations = {c1}
  Assists = {a1}
  Texts <- SomeTexts
  Customers <- SomeCustomers
  Answers <- SomeAnswers
  MaxAttempts = 2
SPECIFICATION FairSpec
INVARIANTS
  TypeOK
  CreationSurvives
  SentIsSound
  BrokenRuleMeetsPerson
  AssistTellsFailure
  RefusalsAreCalls
PROPERTIES
  RescoringNeverLowers
  RequestsEnd
\* The requests are finite: when all have ended nothing is left to do.
CHECK_DEADLOCK FALSE
