----------------------------- MODULE MCLLMGateway -----------------------------
(***************************************************************************)
(* LLMGateway with a few messages - one that is harmless, one whose "sue"  *)
(* comes from "issue", one that names a sum to refund, an angry technical  *)
(* one with an e-mail address in it, the same with an address that is too  *)
(* long for the rules, and one the database refuses - of a new customer    *)
(* and of an administrator with five open tickets; and four opinions of a  *)
(* model, one with the name of a team that no column holds.                *)
(***************************************************************************)
EXTENDS LLMGateway

Says(words, personal, large) ==
  [words |-> words, personal |-> personal, large_sum |-> large, blocked |-> FALSE,
   long |-> {}, storable |-> TRUE]

Harmless  == Says({}, {}, FALSE)
Issue     == Says({"sue", "error"}, {}, FALSE)
BigRefund == Says({"refund"}, {}, TRUE)
Angry     == Says({"broken", "unacceptable"}, {"email_address"}, FALSE)

LongAddress == [Angry EXCEPT !.long = {"email_address"}]
WithNul     == [Harmless EXCEPT !.storable = FALSE]

SomeTexts == {Harmless, Issue, BigRefund, Angry, LongAddress, WithNul}

SomeCustomers ==
  {[role |-> "customer", tickets |-> 0, open |-> 0],
   [role |-> "admin", tickets |-> 60, open |-> 5]}

Opinion(intent, priority, sentiment, team, review) ==
  [intent |-> intent, priority |-> priority, sentiment |-> sentiment,
   team |-> team, requires_human_review |-> review, storable |-> TRUE]

SomeAnswers ==
  {Opinion("general_support", "normal", "neutral", "", FALSE),
   Opinion("fraud", "urgent", "angry", "another", FALSE),
   Opinion("billing", "high", "frustrated", "billing", TRUE),
   [Opinion("general_support", "normal", "neutral", "another", FALSE)
      EXCEPT !.storable = FALSE]}
=============================================================================
