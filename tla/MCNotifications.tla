---------------------------- MODULE MCNotifications ----------------------------
(* A ticket and two replies in its thread, without a message id and with   *)
(* the same text: their payloads, and so their keys, are equal.            *)
EXTENDS Notifications

MCNotices == {"created", "reply1", "reply2"}
MCKeys == {"created", "reply"}
MCKey == [n \in MCNotices |-> IF n = "created" THEN "created" ELSE "reply"]

TwoNotices == {"created", "reply1"}
OneKey == [n \in TwoNotices |-> IF n = "created" THEN "created" ELSE "reply"]
=============================================================================
