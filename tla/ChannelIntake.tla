----------------------------- MODULE ChannelIntake -----------------------------
(***************************************************************************)
(* POST /webhooks/{channel}: messages of customers, delivered by vendors   *)
(* at least once, become tickets or comments on the open ticket of their   *)
(* thread.                                                                 *)
(*                                                                         *)
(* The handler never awaits once it has read the body, so one replica of   *)
(* the application handles one message at a time.  Its steps here are its  *)
(* database statements: the handlers of the staff, which run in threads,   *)
(* and other replicas commit between any two of them.  A replica may die   *)
(* anywhere; whatever it had committed stays.                              *)
(*                                                                         *)
(* Left out: refused deliveries (rate limit, secret, unreadable payload),  *)
(* which touch none of these tables; what the triage makes of the text;    *)
(* audit rows; ticket deletion, which would make two deliveries of one     *)
(* message two tickets (see the README).  The order of commits stands for  *)
(* the order of created_at, which is taken just before.                    *)
(***************************************************************************)
EXTENDS Integers

CONSTANTS
  Messages,   \* records [id, channel, external_id, thread, customer]
  Replicas,   \* processes of the application
  None,       \* external_id or thread is NULL
  MaxRows     \* rows the two tables hold together: the bound of the model

ASSUME IntakeAssumption == MaxRows \in Nat

VARIABLES
  tickets,    \* committed rows of `tickets`
  comments,   \* committed rows of `ticket_comments`
  serial,     \* the id of the next row, in the order of creation
  replica,    \* what each replica is doing
  answered    \* the messages a vendor has had a 2xx answer to

vars == <<tickets, comments, serial, replica, answered>>

-----------------------------------------------------------------------------

\* "open" stands for in_progress too, "finished" for resolved and closed.
TicketStatus == {"open", "pending", "finished"}

\* A ticket keeps channel, thread, customer and external id of the message
\* that opened it; a comment keeps only the external id.
Ticket  == [id : Nat, message : Messages, status : TicketStatus]
Comment == [id : Nat, ticket : Nat, message : Messages]

\* phase: "unticketed" no ticket carries the message's external id, "new" no
\* comment does either, "replying" and "creating" the transaction that records
\* it is being prepared, "recorded" it is committed but not answered yet.
Phase == {"idle", "unticketed", "new", "replying", "creating", "recorded"}

\* ticket is the row that the reply is for, as it was loaded.
Replica ==
  {x \in [phase : Phase, message : Messages \cup {None},
          ticket : Ticket \cup {None}] :
     /\ x.phase # "idle" => x.message \in Messages
     /\ x.phase = "replying" => x.ticket \in Ticket}

Idle == [phase |-> "idle", message |-> None, ticket |-> None]

-----------------------------------------------------------------------------
(* Mutated forms of the definitions below; no specification uses them.     *)

SameMessageUnfinished(t, m) ==
  /\ t.message.channel = m.channel
  /\ t.message.external_id = m.external_id
  /\ t.status # "finished"

MayJoinAnyone(t, m) == TRUE

RepliedStatusUnknown(t) == IF t.status = "pending" THEN "reopened" ELSE t.status

-----------------------------------------------------------------------------
(* The queries *)

\* find_ticket_by_external_id
SameMessage(t, m) ==
  /\ t.message.channel = m.channel
  /\ t.message.external_id = m.external_id

\* find_comment_by_external_id looks at no channel: comments have none.
SameComment(c, m) == c.message.external_id = m.external_id

\* db.get(TicketRecord, existing_comment.ticket_id) finds a row.
HasTicket(c) == \E t \in tickets : t.id = c.ticket

\* find_open_thread_ticket: the newest unfinished ticket of the thread.
OnThread(t, m) ==
  /\ t.message.channel = m.channel
  /\ t.message.thread = m.thread
  /\ t.status # "finished"

IsNewestOnThread(t, m) ==
  /\ OnThread(t, m)
  /\ \A u \in tickets : OnThread(u, m) => u.id <= t.id

\* receive_channel_message: only the customer whose ticket it is may join it.
MayJoin(t, m) == t.message.customer = m.customer

\* handle_thread_reply: what the reply makes of the status it has loaded.
RepliedStatus(t) == IF t.status = "pending" THEN "open" ELSE t.status

-----------------------------------------------------------------------------
(* The handler *)

Goes(p, from, phase, m, t) ==
  /\ replica[p].phase = from
  /\ replica' = [replica EXCEPT
                   ![p] = [phase |-> phase, message |-> m, ticket |-> t]]

Answers(p, from, m) ==
  /\ replica[p].phase = from
  /\ replica' = [replica EXCEPT ![p] = Idle]
  /\ answered' = answered \cup {m}

\* The message arrives, for the first time or again, and carries no id or one
\* that no ticket has.
NoSuchTicket(p, m) ==
  /\ m.external_id = None \/ \A t \in tickets : ~SameMessage(t, m)
  /\ Goes(p, "idle", IF m.external_id = None THEN "new" ELSE "unticketed",
          m, None)
  /\ UNCHANGED <<tickets, comments, serial, answered>>

\* It arrives and opened a ticket already, which is the answer.
DuplicateOfTicket(p, m) ==
  /\ m.external_id # None
  /\ \E t \in tickets : SameMessage(t, m)
  /\ Answers(p, "idle", m)
  /\ UNCHANGED <<tickets, comments, serial>>

\* No comment carries its id, or the one that is found has lost its ticket.
NoSuchComment(p) ==
  LET m == replica[p].message
  IN  /\ Goes(p, "unticketed", "new", m, None)
      /\ \/ \A c \in comments : ~SameComment(c, m)
         \/ \E c \in comments : SameComment(c, m) /\ ~HasTicket(c)
      /\ UNCHANGED <<tickets, comments, serial, answered>>

\* It was added to a ticket already, and that ticket is the answer.
DuplicateOfComment(p) ==
  LET m == replica[p].message
  IN  /\ Answers(p, "unticketed", m)
      /\ \E c \in comments : SameComment(c, m) /\ HasTicket(c)
      /\ UNCHANGED <<tickets, comments, serial>>

\* The thread has an unfinished ticket and it is this customer's.
JoinThread(p) ==
  LET m == replica[p].message
  IN  \E t \in tickets :
        /\ Goes(p, "new", "replying", m, t)
        /\ m.thread # None
        /\ IsNewestOnThread(t, m)
        /\ MayJoin(t, m)
        /\ UNCHANGED <<tickets, comments, serial, answered>>

\* The message names no thread, the thread has no unfinished ticket, or the
\* newest is another customer's (that is audited, and committed at once).
OpenOwnTicket(p) ==
  LET m == replica[p].message
  IN  /\ Goes(p, "new", "creating", m, None)
      /\ m.thread # None =>
           \A t \in tickets : IsNewestOnThread(t, m) => ~MayJoin(t, m)
      /\ UNCHANGED <<tickets, comments, serial, answered>>

\* handle_thread_reply commits: the comment, and the status if it changed with
\* respect to the loaded row.
CommitReply(p) ==
  LET m == replica[p].message
      loaded == replica[p].ticket
      Replied(t) == IF t.id = loaded.id /\ RepliedStatus(loaded) # loaded.status
                    THEN [t EXCEPT !.status = RepliedStatus(loaded)]
                    ELSE t
  IN  /\ Goes(p, "replying", "recorded", m, None)
      /\ serial <= MaxRows
      /\ comments' = comments \cup
           {[id |-> serial, ticket |-> loaded.id, message |-> m]}
      /\ tickets' = {Replied(t) : t \in tickets}
      /\ serial' = serial + 1
      /\ UNCHANGED answered

CommitTicket(p) ==
  LET m == replica[p].message
  IN  /\ Goes(p, "creating", "recorded", m, None)
      /\ serial <= MaxRows
      /\ tickets' = tickets \cup
           {[id |-> serial, message |-> m, status |-> "open"]}
      /\ serial' = serial + 1
      /\ UNCHANGED <<comments, answered>>

\* The notification is queued, the auto-responder and the integrations have
\* run; the vendor gets its answer.
Respond(p) ==
  /\ Answers(p, "recorded", replica[p].message)
  /\ UNCHANGED <<tickets, comments, serial>>

\* The request fails or the process dies: no answer, and no more rows.
Fail(p) ==
  /\ replica[p].phase # "idle"
  /\ replica' = [replica EXCEPT ![p] = Idle]
  /\ UNCHANGED <<tickets, comments, serial, answered>>

\* Staff, or the auto-responder, move a ticket to another status.
UpdateTicket(t, status) ==
  /\ status # t.status
  /\ tickets' = (tickets \ {t}) \cup {[t EXCEPT !.status = status]}
  /\ UNCHANGED <<comments, serial, replica, answered>>

-----------------------------------------------------------------------------

Init ==
  /\ tickets = {}
  /\ comments = {}
  /\ serial = 1
  /\ replica = [p \in Replicas |-> Idle]
  /\ answered = {}

Next ==
  \/ \E p \in Replicas :
       \/ \E m \in Messages : NoSuchTicket(p, m) \/ DuplicateOfTicket(p, m)
       \/ NoSuchComment(p)
       \/ DuplicateOfComment(p)
       \/ JoinThread(p)
       \/ OpenOwnTicket(p)
       \/ CommitReply(p)
       \/ CommitTicket(p)
       \/ Respond(p)
       \/ Fail(p)
  \/ \E t \in tickets, status \in TicketStatus : UpdateTicket(t, status)

Spec == Init /\ [][Next]_vars

-----------------------------------------------------------------------------
(* Properties *)

\* Rows and requests have their shape, and row ids are below the next one.
TypeOK ==
  /\ tickets \subseteq Ticket
  /\ comments \subseteq Comment
  /\ serial \in 1..(MaxRows + 1)
  /\ \A x \in tickets \cup comments : x.id \in 1..(serial - 1)
  /\ replica \in [Replicas -> Replica]
  /\ answered \subseteq Messages

\* A customer's message is never added to the conversation of another
\* customer, nor to one of another channel or thread, although the ticket was
\* looked up several statements before the comment is committed.
ThreadsStaySeparate ==
  \A c \in comments :
    \E t \in tickets :
      /\ t.id = c.ticket
      /\ t.message.customer = c.message.customer
      /\ t.message.channel = c.message.channel
      /\ t.message.thread = c.message.thread

\* The rows of both tables, as entries of the ledger.
Identified == {m \in Messages : m.external_id # None}
Entries == {[row |-> x.id, message |-> x.message] : x \in tickets \cup comments}

Ledger == INSTANCE MessageLedger WITH Rows <- 1..MaxRows, entries <- Entries

\* The webhook keeps the promise of MessageLedger, through failures and
\* repeated deliveries: a message with an external id is in one row at most,
\* and only recorded messages are answered.
KeepsLedger == Ledger!Spec

-----------------------------------------------------------------------------
(* What the tests and comments say and the code does not do *)

\* "Webhook dedups same external id" (tests/test_main.py): two tickets never
\* carry one message.
OneTicketPerMessage ==
  \A t, u \in tickets :
    t.message = u.message /\ t.message \in Identified => t = u

\* "Webhook thread reply from same customer joins the ticket"
\* (tests/test_authorization.py): a customer with an unfinished ticket on the
\* thread does not get another one.
OwnThreadIsJoined ==
  [][\A p \in Replicas :
       /\ replica[p].phase = "new" /\ replica'[p].phase = "creating"
       /\ replica[p].message.thread # None
       => \A t \in tickets : OnThread(t, replica[p].message)
            => ~MayJoin(t, replica[p].message)]_vars
=============================================================================
