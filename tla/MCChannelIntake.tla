---------------------------- MODULE MCChannelIntake ----------------------------
(***************************************************************************)
(* ChannelIntake with a few deliveries: a message and a reply of one       *)
(* customer in a chat, numbered by two versions of the widget, a message   *)
(* of another customer that names the same session, and an e-mail without  *)
(* a number.                                                               *)
(***************************************************************************)
EXTENDS IntakeAdapters, TLC

Delivery(id, channel, number, conversation, body) ==
  [id |-> id, channel |-> channel, number |-> number,
   conversation |-> conversation, body |-> body]

Question ==
  Delivery("question", "chat", "m1", "talk",
           [visitor_id |-> "alice", message |-> "words", message_id |-> "m1",
            session_id |-> "talk"])
FollowUp ==
  Delivery("follow-up", "chat", "m2", "talk",
           [user_id |-> "alice", text |-> "words", id |-> "m2",
            conversation_id |-> "talk"])
Stranger ==
  Delivery("stranger", "chat", "m3", "talk",
           [visitor_id |-> "bob", message |-> "words", message_id |-> "m3",
            session_id |-> "talk"])
Anonymous ==
  Delivery("anonymous", "email", None, "mail",
           [from_email |-> "alice", body |-> "words", references |-> "talk"])

\* An e-mail and the answer to it.
Mail ==
  Delivery("mail", "email", "e1", "mail",
           [from_email |-> "alice", text |-> "words", message_id |-> "e1"])
Answer ==
  Delivery("answer", "email", "e2", "mail",
           [from_email |-> "alice", text |-> "words", message_id |-> "e2",
            in_reply_to |-> "e1"])

\* The status report of a message: there is no text in it.
Report ==
  Delivery("report", "whatsapp", None, "phone", [id |-> "w1"])

AllDeliveries == {Question, FollowUp, Stranger, Anonymous, Report}
Repeated      == {Question}
Shared        == {Question, FollowUp, Stranger}
Mails         == {Mail, Answer}
=============================================================================
