---------------------------- MODULE TicketReports ----------------------------
(***************************************************************************)
(* The reports of the administrator over the rows of TicketLifecycle:      *)
(* sla_metrics, feedback_analytics and analytics_dashboard.                *)
(*                                                                         *)
(* A report is made of several queries, tickets first, then feedback, then *)
(* the comments of the resolved tickets; at READ COMMITTED every query     *)
(* sees what is committed by then, and the handlers go on in between.  A   *)
(* report adds up what each ticket contributes, so one ticket is enough:   *)
(* every number is the set of rows that count for it.  Times and ratings   *)
(* themselves (averages, overdue tickets) are left out, as are the         *)
(* counters of channels, intents and confidence, which read columns no     *)
(* handler of TicketLifecycle writes.                                      *)
(***************************************************************************)
EXTENDS TicketLifecycle

VARIABLE report   \* one request for a report

reportVars == <<vars, report>>

\* rows, rated and replies are what the three queries returned.
Report ==
  [phase   : {"none", "tickets", "feedback", "answered"},
   rows    : SUBSET Ticket,
   rated   : SUBSET Requests,
   replies : SUBSET Comment,
   aided   : BOOLEAN]      \* staff had worked on the ticket at the first query

NoReport ==
  [phase |-> "none", rows |-> {}, rated |-> {}, replies |-> {},
   aided |-> FALSE]

-----------------------------------------------------------------------------
(* What a row counts for *)

Open(rows)     == {row \in rows : row.status \notin Finished}
Resolved(rows) == {row \in rows : row.resolved_at}

StaffReplied(replies) == \E c \in replies : c.author = "staff"

HumanReviewed(row) == row.reviewed_by \/ row.escalation_status \in Decided

\* Mutated form: the earlier definition the docstring of
\* _classify_resolutions tells of.
DeflectedUnlessAnswered(rows, replies) ==
  {row \in Resolved(rows) : ~row.first_response_at}

\* _classify_resolutions: resolved without staff effort.
Deflected(rows, replies) ==
  IF StaffReplied(replies)
  THEN {} ELSE {row \in Resolved(rows) : ~HumanReviewed(row)}

\* The two numbers of a WorkloadItem.
Workload(rows, assignee) ==
  LET assigned == {row \in rows : row.assignee_id = assignee}
  IN  [assigned |-> assigned,
       resolved |-> {row \in assigned : row.status \in Finished}]

-----------------------------------------------------------------------------
(* The queries *)

\* is_internal is false
PublicReplies ==
  {c \in comments : c.kind \notin {"internal", "rejected_draft"}}

StaffWorked == StaffReplied(PublicReplies) \/ HumanReviewed(ticket)

ReadTickets ==
  /\ report.phase = "none"
  /\ report' = [report EXCEPT !.phase = "tickets",
                              !.rows = IF exists THEN {ticket} ELSE {},
                              !.aided = StaffWorked]
  /\ UNCHANGED vars

ReadFeedback ==
  /\ report.phase = "tickets"
  /\ report' = [report EXCEPT !.phase = "feedback", !.rated = feedback]
  /\ UNCHANGED vars

\* Without a resolved ticket the comments are not asked for.
ReadComments ==
  /\ report.phase = "feedback"
  /\ report' = [report EXCEPT
       !.phase = "answered",
       !.replies = IF Resolved(report.rows) = {} THEN {} ELSE PublicReplies]
  /\ UNCHANGED vars

ReportInit == Init /\ report = NoReport

ReportNext ==
  \/ Next /\ UNCHANGED report
  \/ ReadTickets
  \/ ReadFeedback
  \/ ReadComments

ReportSpec == ReportInit /\ [][ReportNext]_reportVars

-----------------------------------------------------------------------------
(* Properties *)

\* A report that was overtaken by handlers between its queries is still fair
\* to the staff and to the AI: a ticket it calls deflected had seen no work of
\* the staff when the tickets were read, and a resolved ticket it does not
\* call deflected has seen some by now.  (Of a ticket deleted between the
\* queries nothing can be said: its replies are gone.)
DeflectionIsFair ==
  report.phase = "answered" /\ exists =>
    \A row \in Resolved(report.rows) :
      IF row \in Deflected(report.rows, report.replies)
      THEN ~report.aided
      ELSE StaffWorked

\* The numbers of one report agree with each other: the SLA block, which takes
\* the open tickets by status and the resolved ones by resolution time, leaves
\* no ticket out, and the workload, which goes by the status alone, shows no
\* finished ticket the SLA block does not.
NumbersAgree ==
  /\ Open(report.rows) \cup Resolved(report.rows) = report.rows
  /\ \A assignee \in Staff \cup {Nobody} :
       Workload(report.rows, assignee).resolved \subseteq Resolved(report.rows)

\* What a report says is fair and of one piece, whatever commits between its
\* queries.
ReportIsSound == DeflectionIsFair /\ NumbersAgree
=============================================================================
