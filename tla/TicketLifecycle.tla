--------------------------- MODULE TicketLifecycle ---------------------------
(***************************************************************************)
(* One row of the `tickets` table and the HTTP handlers that work on it.   *)
(*                                                                         *)
(* Every handler loads the row into its own SQLAlchemy session, computes,  *)
(* and commits later.  No handler locks the row, and no column carries a   *)
(* version, so any number of other commits may fall between the load and   *)
(* the commit - for the auto-responder a whole LLM call fits in between.   *)
(* A commit writes only the columns whose value the handler changed with   *)
(* respect to what it had loaded (Flush); the other columns keep whatever  *)
(* the row holds by then.                                                  *)
(*                                                                         *)
(* A deletion is one of these handlers: it erases the comments its DELETE  *)
(* statement sees, then the row.  There is no foreign key, so a handler    *)
(* that has loaded the row may still insert a comment or a rating; only an *)
(* UPDATE of the row that is gone is refused (StaleDataError).             *)
(*                                                                         *)
(* A time stamp column is modelled by whether it is set.  Columns that are *)
(* text for people to read (reason, summary, risk fields) are left out, as *)
(* are the attachments of the ticket (Attachments).                        *)
(***************************************************************************)

CONSTANTS
  Requests,   \* the HTTP requests handled, each of them at most once
  Staff,      \* ids of agents and administrators
  Nobody      \* a ticket without an assignee (assignee_id is NULL)

ASSUME StaffAssumption == Nobody \notin Staff

VARIABLES
  ticket,     \* the committed row; as it was last, once it is deleted
  exists,     \* the row is there
  comments,   \* the committed rows of ticket_comments for this ticket
  feedback,   \* the requests whose feedback row is committed
  request     \* per request: where it is and what its session holds

vars == <<ticket, exists, comments, feedback, request>>

-----------------------------------------------------------------------------
(* Rows *)

TicketStatus == {"open", "in_progress", "pending", "resolved", "closed"}
Finished     == {"resolved", "closed"}
EscalationStatus == {"none", "pending", "approved", "rejected"}
Decided      == {"approved", "rejected"}

Ticket ==
  [status                : TicketStatus,
   requires_human_review : BOOLEAN,
   escalation_status     : EscalationStatus,
   escalated_at          : BOOLEAN,
   reviewed_by           : BOOLEAN,
   first_response_at     : BOOLEAN,
   resolved_at           : BOOLEAN,
   assignee_id           : Staff \cup {Nobody}]

\* kind tells where a row comes from: "public" and "internal" are written by
\* add_comment (the AI's own answer is "public" too), "reply" is a message on
\* the ticket's thread, "approved_draft" an AI draft a person has approved and
\* "rejected_draft" the internal note left by rejecting one.
Kind == {"public", "internal", "reply", "approved_draft", "rejected_draft"}

Comment ==
  [request : Requests,
   author  : {"customer", "staff", "ai"},
   kind    : Kind]

\* Comments by which somebody (or the AI) worked on the customer's question.
IsAnswer(c) == c.author # "customer" /\ c.kind # "rejected_draft"

\* What create_ticket and receive_channel_message leave behind.
NewTicket(review) ==
  [status                |-> "open",
   requires_human_review |-> review,
   escalation_status     |-> IF review THEN "pending" ELSE "none",
   escalated_at          |-> review,
   reviewed_by           |-> FALSE,
   first_response_at     |-> FALSE,
   resolved_at           |-> FALSE,
   assignee_id           |-> Nobody]

-----------------------------------------------------------------------------
(* Mutated forms of the definitions below, each a plausible slip in the    *)
(* code it stands for.  No specification uses them.                        *)

FlushWholeRow(row, loaded, assigned) == assigned

RepliedRowNoStamp(row, risky) ==
  [row EXCEPT
     !.status = IF row.status = "pending" THEN "open" ELSE @,
     !.requires_human_review = @ \/ risky,
     !.escalation_status = IF risky /\ @ = "none" THEN "pending" ELSE @]

RepliedRowUnknownStatus(row, risky) ==
  [row EXCEPT !.status = IF row.status = "pending" THEN "reopened" ELSE @]

AcceptsFeedbackAlways(row) == TRUE

\* Only the columns that have changed, as if no handler set updated_at.
UpdatesIfChanged(loaded, assigned, touches) == assigned # loaded

-----------------------------------------------------------------------------
(* What each handler assigns to the row it loaded *)

\* update_ticket.  A field that is missing from the body is the case where
\* the argument equals what was loaded: SQLAlchemy then writes nothing.
PatchedRow(row, status, assignee) ==
  [row EXCEPT !.status = status,
              !.assignee_id = assignee,
              !.resolved_at = @ \/ status \in Finished]

\* update_escalation; the body may say any of the four statuses, "none" too.
ReviewedRow(row, status) ==
  [row EXCEPT !.escalation_status = status, !.reviewed_by = TRUE]

\* add_comment: the first comment of a staff member, even an internal one,
\* is the first response.
AnsweredRow(row, author, internal) ==
  [row EXCEPT !.first_response_at = @ \/ author = "staff"]

\* run_auto_response, the branch that hands the ticket to a person.
EscalatedRow(row) ==
  [row EXCEPT !.status = "pending",
              !.requires_human_review = TRUE,
              !.escalation_status = "pending",
              !.escalated_at = TRUE]

\* run_auto_response, the branch that sends the AI's answer.
SentRow(row) ==
  [row EXCEPT !.status = "resolved",
              !.requires_human_review = FALSE,
              !.escalation_status = "none",
              !.first_response_at = TRUE,
              !.resolved_at = TRUE]

\* decide_draft, approving; the ticket is resolved unless the body says not to.
ApprovedRow(row, resolve) ==
  IF resolve
  THEN [row EXCEPT !.status = "resolved",
                   !.requires_human_review = FALSE,
                   !.escalation_status = "none",
                   !.first_response_at = TRUE,
                   !.resolved_at = TRUE]
  ELSE [row EXCEPT !.first_response_at = TRUE]

\* handle_thread_reply: a customer's answer on a pending ticket reopens it,
\* and a risky one asks for human review.
RepliedRow(row, risky) ==
  [row EXCEPT
     !.status = IF row.status = "pending" THEN "open" ELSE @,
     !.requires_human_review = @ \/ risky,
     !.escalated_at = @ \/ (risky /\ row.escalation_status = "none"),
     !.escalation_status = IF risky /\ @ = "none" THEN "pending" ELSE @]

\* submit_feedback refuses a ticket that is not finished.
AcceptsFeedback(row) == row.status \in Finished

-----------------------------------------------------------------------------
(* The session of a request *)

\* A column goes into the UPDATE only when its value differs from the loaded
\* one; `current` is what the row holds when the UPDATE runs.
Column(current, loaded, assigned) ==
  IF assigned = loaded THEN current ELSE assigned

Flush(row, loaded, assigned) ==
  [status |-> Column(row.status, loaded.status, assigned.status),
   requires_human_review |->
     Column(row.requires_human_review, loaded.requires_human_review,
            assigned.requires_human_review),
   escalation_status |->
     Column(row.escalation_status, loaded.escalation_status,
            assigned.escalation_status),
   escalated_at |->
     Column(row.escalated_at, loaded.escalated_at, assigned.escalated_at),
   reviewed_by |->
     Column(row.reviewed_by, loaded.reviewed_by, assigned.reviewed_by),
   first_response_at |->
     Column(row.first_response_at, loaded.first_response_at,
            assigned.first_response_at),
   resolved_at |->
     Column(row.resolved_at, loaded.resolved_at, assigned.resolved_at),
   assignee_id |->
     Column(row.assignee_id, loaded.assignee_id, assigned.assignee_id)]

\* The UPDATE of a row that is gone is refused, the INSERT of a comment is not.
MayCommit(q, there) == there \/ ~q.update

\* phase: "ready" not started, "asking" waiting for the LLM, "checking" between
\* the two reads of submit_feedback, "writing" everything computed and the
\* commit still to come, "deleting" and "erasing" before and after the DELETE
\* of the comments, "done" answered.
Phase ==
  {"ready", "asking", "checking", "writing", "deleting", "erasing", "done"}

Request ==
  [phase    : Phase,
   loaded   : Ticket,             \* the row as this session read it
   assigned : Ticket,             \* the row as the handler has it now
   update   : BOOLEAN,            \* the UPDATE writes some column of the row
   insert   : SUBSET Comment,     \* comment rows added to the session
   erase    : SUBSET Comment,     \* comment rows its DELETE has seen
   rating   : BOOLEAN]            \* a feedback row is added to the session

Blank(phase) ==
  [phase |-> phase, loaded |-> NewTicket(FALSE), assigned |-> NewTicket(FALSE),
   update |-> FALSE, insert |-> {}, erase |-> {}, rating |-> FALSE]

\* Most handlers set updated_at, so that they UPDATE the row in any case; the
\* others do when a column has changed.
Updates(loaded, assigned, touches) == touches \/ assigned # loaded

\* Request r has read the row and goes on to the given phase with these
\* changes pending in its session.
Holds(r, phase, loaded, assigned, touches, insert) ==
  request' = [request EXCEPT ![r] =
    [phase |-> phase, loaded |-> loaded, assigned |-> assigned,
     update |-> Updates(loaded, assigned, touches),
     insert |-> insert, erase |-> {}, rating |-> FALSE]]

\* A ticket that is not there is a 404.
Load(r, assigned, touches, insert) ==
  /\ request[r].phase = "ready"
  /\ exists
  /\ Holds(r, "writing", ticket, assigned, touches, insert)
  /\ UNCHANGED <<ticket, exists, comments, feedback>>

Says(r, author, kind) == {[request |-> r, author |-> author, kind |-> kind]}

-----------------------------------------------------------------------------
(* The handlers, up to their commit *)

\* PATCH /tickets/{id}.  The assignee has passed _validated_assignee_id; a
\* refused one ends the request without touching anything.
UpdateTicket(r, status, assignee) ==
  Load(r, PatchedRow(ticket, status, assignee), TRUE, {})

\* PATCH /tickets/{id}/escalation
UpdateEscalation(r, status) ==
  /\ ticket.requires_human_review
  /\ Load(r, ReviewedRow(ticket, status), FALSE, {})

\* POST /tickets/{id}/comments.  A customer cannot make an internal note: the
\* flag is dropped.
AddComment(r, author, internal) ==
  Load(r, AnsweredRow(ticket, author, internal), FALSE,
       Says(r, author,
            IF internal /\ author = "staff" THEN "internal" ELSE "public"))

\* A message on the ticket's thread, POST /webhooks/{channel}; the thread is
\* found only while its ticket is not finished.
HandleThreadReply(r, risky) ==
  /\ ticket.status \notin Finished
  /\ Load(r, RepliedRow(ticket, risky), TRUE,
          Says(r, "customer", "reply"))

\* POST /tickets/{id}/draft-decision with decision "approve": no guard on the
\* ticket's state.
ApproveDraft(r, resolve) ==
  Load(r, ApprovedRow(ticket, resolve), TRUE,
       Says(r, "staff", "approved_draft"))

\* The same with decision "reject"; without a note it only writes an audit
\* row, so only the form with a note is a step here.
RejectDraft(r) ==
  Load(r, ticket, TRUE, Says(r, "staff", "rejected_draft"))

\* POST /tickets/{id}/auto-respond, and the tail of create_ticket and of the
\* webhook: the guards are evaluated once, then the LLM is called.
AutoRespond(r) ==
  /\ request[r].phase = "ready"
  /\ exists
  /\ ticket.status = "open"
  /\ ~ticket.requires_human_review
  /\ Holds(r, "asking", ticket, ticket, FALSE, {})
  /\ UNCHANGED <<ticket, exists, comments, feedback>>

\* The LLM has answered: the draft needs a person, or it is good enough to
\* send.  The ticket is not read again.
DraftNeedsReview(r) ==
  /\ request[r].phase = "asking"
  /\ Holds(r, "writing", request[r].loaded, EscalatedRow(request[r].loaded),
           TRUE, {})
  /\ UNCHANGED <<ticket, exists, comments, feedback>>

DraftIsGood(r) ==
  /\ request[r].phase = "asking"
  /\ Holds(r, "writing", request[r].loaded, SentRow(request[r].loaded),
           TRUE, Says(r, "ai", "public"))
  /\ UNCHANGED <<ticket, exists, comments, feedback>>

\* POST /tickets/{id}/feedback reads the ticket, then looks for an earlier
\* feedback row, then inserts its own.
SubmitFeedback(r) ==
  /\ request[r].phase = "ready"
  /\ exists
  /\ AcceptsFeedback(ticket)
  /\ Holds(r, "checking", ticket, ticket, FALSE, {})
  /\ UNCHANGED <<ticket, exists, comments, feedback>>

NoFeedbackYet(r) ==
  /\ request[r].phase = "checking"
  /\ feedback = {}
  /\ request' = [request EXCEPT ![r].phase = "writing", ![r].rating = TRUE]
  /\ UNCHANGED <<ticket, exists, comments, feedback>>

\* DELETE /tickets/{id} loads the row, then its DELETE of the comments sees
\* those that are committed by now.  Feedback is not deleted at all.
DeleteTicket(r) ==
  /\ request[r].phase = "ready"
  /\ exists
  /\ request' = [request EXCEPT ![r] = Blank("deleting")]
  /\ UNCHANGED <<ticket, exists, comments, feedback>>

DeleteComments(r) ==
  /\ request[r].phase = "deleting"
  /\ request' = [request EXCEPT ![r].phase = "erasing", ![r].erase = comments]
  /\ UNCHANGED <<ticket, exists, comments, feedback>>

\* db.commit() of request r, whatever its handler was.  An UPDATE that finds
\* no row fails the transaction as a whole (GiveUp).
Commit(r) ==
  /\ request[r].phase = "writing"
  /\ MayCommit(request[r], exists)
  /\ ticket' = Flush(ticket, request[r].loaded, request[r].assigned)
  /\ comments' = comments \cup request[r].insert
  /\ feedback' = IF request[r].rating THEN feedback \cup {r} ELSE feedback
  /\ request' = [request EXCEPT ![r] = Blank("done")]
  /\ UNCHANGED exists

\* The commit of a deletion; deleting a row twice is no error.
CommitDeletion(r) ==
  /\ request[r].phase = "erasing"
  /\ exists' = FALSE
  /\ comments' = comments \ request[r].erase
  /\ request' = [request EXCEPT ![r] = Blank("done")]
  /\ UNCHANGED <<ticket, feedback>>

\* The request ends with nothing written to these tables: feedback exists
\* already (409), the LLM failed, the database refused, the row is gone, the
\* process died.
GiveUp(r) ==
  /\ request[r].phase \notin {"ready", "done"}
  /\ request' = [request EXCEPT ![r] = Blank("done")]
  /\ UNCHANGED <<ticket, exists, comments, feedback>>

-----------------------------------------------------------------------------

Init ==
  /\ ticket \in {NewTicket(review) : review \in BOOLEAN}
  /\ exists = TRUE
  /\ comments = {}
  /\ feedback = {}
  /\ request = [r \in Requests |-> Blank("ready")]

Next ==
  \E r \in Requests :
    \/ \E status \in TicketStatus, assignee \in Staff \cup {Nobody} :
         UpdateTicket(r, status, assignee)
    \/ \E status \in EscalationStatus : UpdateEscalation(r, status)
    \/ \E author \in {"customer", "staff"}, internal \in BOOLEAN :
         AddComment(r, author, internal)
    \/ \E risky \in BOOLEAN : HandleThreadReply(r, risky)
    \/ \E resolve \in BOOLEAN : ApproveDraft(r, resolve)
    \/ RejectDraft(r)
    \/ AutoRespond(r)
    \/ DraftNeedsReview(r)
    \/ DraftIsGood(r)
    \/ SubmitFeedback(r)
    \/ NoFeedbackYet(r)
    \/ DeleteTicket(r)
    \/ DeleteComments(r)
    \/ CommitDeletion(r)
    \/ Commit(r)
    \/ GiveUp(r)

Spec == Init /\ [][Next]_vars

-----------------------------------------------------------------------------
(* Properties *)

\* Every variable has the shape declared for its rows: no handler writes a
\* status outside the enums of schemas.py, in whatever order they commit.
TypeOK ==
  /\ ticket \in Ticket
  /\ exists \in BOOLEAN
  /\ comments \subseteq Comment
  /\ feedback \subseteq Requests
  /\ request \in [Requests -> Request]

\* A ticket that is flagged for review, or whose escalation is not "none", has
\* an escalation time: the escalation queue and its ageing rely on it.  The
\* three columns are written by different handlers from different snapshots.
EscalationStamped ==
  ticket.requires_human_review \/ ticket.escalation_status # "none"
    => ticket.escalated_at

\* An escalation is never approved or rejected without a reviewer on record.
DecisionHasReviewer ==
  ticket.escalation_status \in Decided => ticket.reviewed_by

\* A resolved or closed ticket has a resolution time (sla_metrics and the
\* dashboard count on resolved_at), whoever finished it and whatever was
\* committed in between.
ResolutionStamped == ticket.status \in Finished => ticket.resolved_at

\* first_response_at is set exactly when somebody has answered: no answer is
\* committed without it (the SLA would look breached), and it is never set by
\* a request whose answer was lost.
AnswerStamped ==
  exists => (ticket.first_response_at <=> \E c \in comments : IsAnswer(c))

\* The stamps that queues, SLA and reports rely on agree with what they stand
\* for, although every one of these columns is written by several handlers
\* from snapshots of different age.
StampsAgree ==
  /\ EscalationStamped
  /\ DecisionHasReviewer
  /\ ResolutionStamped
  /\ AnswerStamped

\* A rating exists only for a ticket that was resolved at some time, although
\* the ticket may have been reopened between the check and the insert.
FeedbackAfterResolution == feedback # {} => ticket.resolved_at

\* The review flag is taken away only by the commit of a draft that a staff
\* member has approved: the auto-responder, which assigns
\* requires_human_review = False from a snapshot that may be minutes old,
\* never erases a flag raised while it waited for the LLM.
FlagClearedByStaffOnly ==
  [][ticket.requires_human_review /\ ~ticket'.requires_human_review
       => \E c \in comments' \ comments :
            c.author = "staff" /\ c.kind = "approved_draft"]_vars

\* Nothing that works on the ticket reaches it once it is deleted: an answer
\* of the AI (whose call to the LLM is long enough for a deletion), an approved
\* draft, a rejection's note, a message on the thread or the first answer of
\* the staff is lost with its transaction, whatever the row looked like.  For
\* want of a foreign key a comment made with add_comment may still come, of the
\* customer or a later one of the staff, and so may a rating.
DeletedStaysUnanswered ==
  [][~exists => \A c \in comments' \ comments :
       /\ c.kind \in {"public", "internal"}
       /\ c.author = "customer"
            \/ (c.author = "staff" /\ ticket.first_response_at)]_vars

-----------------------------------------------------------------------------
(* What the tests say and concurrent handlers break *)

\* "Auto respond skips tickets already flagged" (tests/test_main.py): the AI's
\* answer is not committed on a ticket that is flagged for human review.
AutoResponseSkipsFlagged ==
  [][(\E c \in comments' \ comments : c.author = "ai")
       => ~ticket.requires_human_review]_vars

\* "Feedback for this ticket already exists" (submit_feedback answers 409).
OneFeedbackPerTicket == \A r, s \in feedback : r = s
=============================================================================
