---------------------------- MODULE IntakeAdapters ----------------------------
(***************************************************************************)
(* What the adapters of intake.py make of the bodies that vendors post,    *)
(* and what the webhook of ChannelIntake then owes to the vendors.         *)
(*                                                                         *)
(* A body is a function from the names of its fields to their values; an   *)
(* empty value is None, and the fields of nested objects stand beside the  *)
(* others.  Attachments and channel metadata are kept as they come and no  *)
(* decision looks at them; they are left out.                              *)
(***************************************************************************)
EXTENDS ChannelIntake, FiniteSets

CONSTANT
  Deliveries  \* records [id, channel, body, number, conversation]: `number` is
              \* the vendor's own id of the message and `conversation` where the
              \* vendor shows it, whatever fields of the body tell so

-----------------------------------------------------------------------------
(* Mutated forms of the definitions below; no specification uses them.     *)

ChatFieldsNewNamesOnly ==
  [sender |-> <<"visitor_id", "user_id">>, text |-> <<"message", "text">>,
   id |-> <<"message_id">>, thread |-> <<"session_id", "conversation_id">>]

-----------------------------------------------------------------------------
(* The adapters: for each part of a message the fields that may hold it,   *)
(* in the order of preference                                              *)

EmailFields ==
  [sender |-> <<"from_email", "sender">>, text |-> <<"text", "body", "html">>,
   id |-> <<"message_id", "id">>, thread |-> <<"in_reply_to", "references">>]

SlackFields ==
  [sender |-> <<"user", "user_id">>, text |-> <<"text">>,
   id |-> <<"ts", "event_ts">>, thread |-> <<"thread_ts", "parent_ts">>]

\* Of the first message of the first change of the first entry; "media" is its
\* type when that is not "text", from which a text in brackets is made.
WhatsAppFields ==
  [sender |-> <<"from">>, text |-> <<"text", "media">>,
   id |-> <<"id">>, thread |-> <<"conversation">>]

ChatFields ==
  [sender |-> <<"visitor_id", "user_id">>, text |-> <<"message", "text">>,
   id |-> <<"message_id", "id">>, thread |-> <<"session_id", "conversation_id">>]

CRMFields ==
  [sender |-> <<"contact_id", "customer_id">>,
   text |-> <<"description", "notes", "message">>,
   id |-> <<"ticket_id", "case_id", "id">>,
   thread |-> <<"thread_id", "conversation_id">>]

\* The flat shape that every adapter also takes.
LegacyFields ==
  [sender |-> <<"customer_id">>, text |-> <<"message">>,
   id |-> <<"external_id">>, thread |-> <<"thread_id">>]

ADAPTERS == [email |-> EmailFields, slack |-> SlackFields,
             whatsapp |-> WhatsAppFields, chat |-> ChatFields, crm |-> CRMFields]

\* The keys decide, not their values.
IsLegacy(body) == {"customer_id", "message"} \subseteq DOMAIN body

FieldsOf(d) == IF IsLegacy(d.body) THEN LegacyFields ELSE ADAPTERS[d.channel]

\* body.get(a) or body.get(b) or ...
FirstOf(body, names) ==
  LET filled == {i \in DOMAIN names :
                   names[i] \in DOMAIN body /\ body[names[i]] # None}
  IN  IF filled = {} THEN None
      ELSE body[names[CHOOSE i \in filled : \A j \in filled : i <= j]]

\* NormalizedMessage asks for a text; the webhook answers 400 without one, 404 for
\* a channel without an adapter, and in both cases nothing is recorded.
Readable(d) ==
  d.channel \in DOMAIN ADAPTERS /\ FirstOf(d.body, FieldsOf(d).text) # None

\* A sender that the body does not name is "unknown".
Sender(d) ==
  LET sender == FirstOf(d.body, FieldsOf(d).sender)
  IN  IF sender = None THEN "unknown" ELSE sender

normalize_message(d) ==
  [id          |-> d.id,
   channel     |-> d.channel,
   external_id |-> FirstOf(d.body, FieldsOf(d).id),
   thread      |-> FirstOf(d.body, FieldsOf(d).thread),
   customer    |-> Sender(d)]

\* The messages of ChannelIntake, when vendors post Deliveries.
Normalized == {normalize_message(d) : d \in {e \in Deliveries : Readable(e)}}

-----------------------------------------------------------------------------
(* Properties *)

Conversation(m) == (CHOOSE d \in Deliveries : d.id = m.id).conversation

RowsOf(d) == {x \in tickets \cup comments : x.message.id = d.id}

\* What a vendor has numbered, whichever field its version of the format puts the
\* number in, and has had an answer for is recorded once: neither lost, because it
\* was taken for another message, nor repeated, because the number was not found.
NumberedOnce ==
  \A d \in Deliveries : Readable(d) /\ d.number # None =>
    /\ Cardinality(RowsOf(d)) <= 1
    /\ normalize_message(d) \in answered => RowsOf(d) # {}

-----------------------------------------------------------------------------
(* What tests say and the code does not do *)

\* "Thread reply joins existing ticket" (tests/test_main.py): a customer whose
\* ticket is unfinished does not get a second one for what the vendor shows in the
\* same conversation.  E-mail and Slack name the first message of a conversation
\* in the replies to it, and that message itself names none.
ReplyJoinsConversation ==
  [][\A t \in tickets, u \in tickets' \ tickets :
       /\ t.status # "finished" /\ u.message # t.message
       /\ u.id \notin {x.id : x \in tickets}
       => \/ Conversation(u.message) # Conversation(t.message)
          \/ u.message.customer # t.message.customer]_vars
=============================================================================
