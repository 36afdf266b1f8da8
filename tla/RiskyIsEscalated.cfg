\* A creation and a panel in one process, two attempts for each call.
CONSTANTS
  Creations = {c1}
  Assists = {a1}
  Texts <- SomeTexts
  Customers <- SomeCustomers
  Answers <- SomeAnswers
  MaxAttempts = 2
SPECIFICATION Spec
INVARIANTS
  RiskyIsEscalated
CHECK_DEADLOCK FALSE
