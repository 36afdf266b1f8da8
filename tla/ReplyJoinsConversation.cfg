\* One replica, an e-mail and the customer's reply to it.
CONSTANTS
  None = None
  Deliveries <- Mails
  Messages <- Normalized
  Replicas = {p1}
  MaxRows = 3
SPECIFICATION Spec
PROPERTY ReplyJoinsConversation
CHECK_DEADLOCK FALSE
