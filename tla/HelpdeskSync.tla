----------------------------- MODULE HelpdeskSync -----------------------------
(***************************************************************************)
(* The outbound synchronisation of one ticket with a helpdesk: a request   *)
(* commits its change, reads the ticket again, posts it or a comment to    *)
(* the provider, and commits the outcome: an audit row and, in             *)
(* intake_metadata, the remote ticket that later comments go to.           *)
(*                                                                         *)
(* Requests interleave at their commits and at both ends of the HTTP call. *)
(* Between reading the ticket and committing the outcome a request keeps   *)
(* the row as it read it, and writes the whole of intake_metadata back.    *)
(* The content of a ticket is abstracted to a version, counted by commit.  *)
(***************************************************************************)
EXTENDS Naturals

CONSTANTS
  Requests,   \* HTTP requests on the ticket, each handled once
  Kind,       \* what each of them does
  None        \* no remote ticket

ASSUME HelpdeskAssumption ==
  /\ Kind \in [Requests -> {"create", "update", "comment", "approve"}]
  /\ None \notin Requests \cup {"mock"}

VARIABLES
  provider,   \* SUPPORT_TOOL_PROVIDER
  ticket,     \* the committed version, 0 before the ticket exists
  link,       \* intake_metadata["integration"]["remote_id"]
  posted,     \* what the helpdesk has taken: versions of the ticket ...
  notes,      \* ... and comments
  request,    \* what each request is doing
  audit       \* the audit row integration.synced of each request

vars == <<provider, ticket, link, posted, notes, request, audit>>

-----------------------------------------------------------------------------

Remote == Requests \cup {"mock"}

\* Zendesk and HubSpot answer every POST with a ticket of its own, named here
\* by the request; the mock derives the id from that of the ticket.
NewId(r) == IF provider = "mock" THEN "mock" ELSE r

\* "committed": the change is; "calling": the ticket is read and the call
\* begun; "taken": the helpdesk has acted on it; "gone": the process died.
Phase == {"ready", "committed", "calling", "taken", "done", "gone"}

\* own: the version that the request has committed; sent: the one it has read,
\* 0 for no payload; link: the remote ticket it has read.
Request == [phase : Phase, own : Nat, sent : Nat, link : Remote \cup {None}]

At(r, phase) == request[r].phase = phase

Enters(r, phase) == request' = [request EXCEPT ![r].phase = phase]

-----------------------------------------------------------------------------
(* Mutated forms of the definitions below; no specification uses them.     *)

PayloadUnchanged(r) == IF Kind[r] \in {"create", "update"} THEN ticket - 1 ELSE 0

RecordsReason(r, status) ==
  /\ audit' = [audit EXCEPT ![r] = IF status = "skipped" THEN "no_remote_ticket_id"
                                   ELSE status]
  /\ Enters(r, "done")

CallFailsLinked(r) ==
  /\ At(r, "calling") \/ At(r, "taken")
  /\ link' = NewId(r)
  /\ audit' = [audit EXCEPT ![r] = "failed"]
  /\ Enters(r, "done")
  /\ UNCHANGED <<provider, ticket, posted, notes>>

-----------------------------------------------------------------------------
(* The handlers up to their commit *)

CommitChange(r) ==
  /\ At(r, "ready")
  /\ IF Kind[r] = "create" THEN ticket = 0 ELSE ticket > 0
  /\ ticket' = IF Kind[r] = "comment" THEN ticket ELSE ticket + 1
  /\ request' = [request EXCEPT ![r].phase = "committed", ![r].own = ticket']
  /\ UNCHANGED <<provider, link, posted, notes, audit>>

\* Internal notes stay here.
AddInternalNote(r) ==
  /\ At(r, "ready") /\ Kind[r] = "comment" /\ ticket > 0
  /\ Enters(r, "done")
  /\ UNCHANGED <<provider, ticket, link, posted, notes, audit>>

-----------------------------------------------------------------------------
(* sync_ticket_outbound and _record_integration_sync *)

Records(r, status) ==
  /\ audit' = [audit EXCEPT ![r] = status]
  /\ Enters(r, "done")

\* An approved draft passes a comment, and no ticket, to create_or_update_ticket.
Payload(r) == IF Kind[r] \in {"create", "update"} THEN ticket ELSE 0

\* The mock and Zendesk look up ticket["id"], HubSpot does without.
Refused(r) == Kind[r] = "approve" /\ provider # "hubspot"

Unlinked(r) == Kind[r] = "comment" /\ link = None

Skip(r) ==
  /\ At(r, "committed") /\ Unlinked(r)
  /\ Records(r, "skipped")
  /\ UNCHANGED <<provider, ticket, link, posted, notes>>

NoTicketId(r) ==
  /\ At(r, "committed") /\ Refused(r)
  /\ Records(r, "failed")
  /\ UNCHANGED <<provider, ticket, link, posted, notes>>

Call(r) ==
  /\ At(r, "committed") /\ ~Unlinked(r) /\ ~Refused(r)
  /\ request' = [request EXCEPT ![r].phase = "calling", ![r].sent = Payload(r),
                                ![r].link = link]
  /\ UNCHANGED <<provider, ticket, link, posted, notes, audit>>

\* The helpdesk does what it is asked to.
Take(r) ==
  /\ At(r, "calling")
  /\ IF Kind[r] = "comment"
     THEN notes' = notes \cup {[id |-> request[r].link, comment |-> r]} /\ UNCHANGED posted
     ELSE posted' = posted \cup {[id |-> NewId(r), version |-> request[r].sent]}
          /\ UNCHANGED notes
  /\ Enters(r, "taken")
  /\ UNCHANGED <<provider, ticket, link, audit>>

\* push_comment answers with the remote ticket it was given.
LinkAfter(r) == IF Kind[r] = "comment" THEN request[r].link ELSE NewId(r)

\* The new integration state and the audit row, in one commit.
Finish(r) ==
  /\ At(r, "taken")
  /\ link' = LinkAfter(r)
  /\ Records(r, "synced")
  /\ UNCHANGED <<provider, ticket, posted, notes>>

\* An HTTP error, or no answer within 15 seconds, whether or not the helpdesk
\* has done its part: the integration state stays as it is.
CallFails(r) ==
  /\ At(r, "calling") \/ At(r, "taken")
  /\ Records(r, "failed")
  /\ UNCHANGED <<provider, ticket, link, posted, notes>>

Die(r) ==
  /\ request[r].phase \in {"committed", "calling", "taken"}
  /\ Enters(r, "gone")
  /\ UNCHANGED <<provider, ticket, link, posted, notes, audit>>

-----------------------------------------------------------------------------

Init ==
  /\ provider \in {"mock", "zendesk", "hubspot"}
  /\ ticket = 0
  /\ link = None
  /\ posted = {}
  /\ notes = {}
  /\ request = [r \in Requests |->
                  [phase |-> "ready", own |-> 0, sent |-> 0, link |-> None]]
  /\ audit = [r \in Requests |-> "none"]

Next ==
  \E r \in Requests :
    \/ CommitChange(r) \/ AddInternalNote(r)
    \/ Skip(r) \/ NoTicketId(r) \/ Call(r)
    \/ Take(r) \/ Finish(r) \/ CallFails(r)
    \/ Die(r)

Spec == Init /\ [][Next]_vars

-----------------------------------------------------------------------------
(* Properties *)

TypeOK ==
  /\ provider \in {"mock", "zendesk", "hubspot"}
  /\ ticket \in Nat
  /\ link \in Remote \cup {None}
  /\ posted \subseteq [id : Remote, version : Nat]
  /\ notes \subseteq [id : Remote, comment : Requests]
  /\ request \in [Requests -> Request]
  /\ audit \in [Requests -> {"none", "synced", "failed", "skipped"}]

\* Comments are sent to a ticket that the helpdesk has: the remote id that the
\* row keeps, through failed calls and write-backs of stale metadata, is always
\* one that the helpdesk has given.
LinkExists == link # None => \E t \in posted : t.id = link

\* What an audit row "synced" is worth.  Of a change of the ticket: the helpdesk
\* has what the request committed, or something newer; of a comment: it has the
\* comment, on a ticket that it has.  Of an approved draft it is worth nothing:
\* there is such a row with HubSpot only, which has then taken a ticket without
\* content, and not the reply.
SyncedMeansTaken ==
  \A r \in Requests : audit[r] = "synced" =>
    /\ Kind[r] \in {"create", "update"} =>
         \E t \in posted : t.id = NewId(r) /\ t.version >= request[r].own
    /\ Kind[r] = "comment" =>
         \E n \in notes : n.comment = r /\ \E t \in posted : t.id = n.id
    /\ Kind[r] = "approve" =>
         /\ provider = "hubspot" /\ [id |-> NewId(r), version |-> 0] \in posted
         /\ ~ \E n \in notes : n.comment = r

\* Once the ticket is linked it stays so, and no later comment is skipped for
\* want of a remote ticket, although every sync replaces the whole state.
LinkKept == [][link # None => link' # None]_vars

-----------------------------------------------------------------------------
(* What docstrings and names say and the code does not do *)

\* "Push a ticket event to the configured helpdesk provider": when a draft is
\* approved for a linked ticket and nothing fails, the helpdesk gets the reply.
ApprovedReplyIsPushed ==
  [][\A r \in Requests : Kind[r] = "approve" /\ link # None =>
       ~NoTicketId(r) /\ ~(Finish(r) /\ ~\E n \in notes : n.comment = r)]_vars

\* create_or_update_ticket: a ticket has one counterpart in the helpdesk.
OneRemoteTicket == \A t, u \in posted : t.id = u.id
=============================================================================
