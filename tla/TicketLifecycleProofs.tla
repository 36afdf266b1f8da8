----------------------- MODULE TicketLifecycleProofs -----------------------
(***************************************************************************)
(* Proofs about TicketLifecycle and TicketReports, for any set of requests *)
(* and staff.                                                              *)
(*                                                                         *)
(* The four time stamps are never taken back, so a snapshot is never ahead *)
(* of the row in them.  That, and what each handler guarantees between the *)
(* row it loaded and the row it assigned, is the inductive invariant: it   *)
(* makes Flush keep the invariants although it merges columns of different *)
(* handlers.                                                               *)
(***************************************************************************)
EXTENDS TicketReports, TLAPS

\* The invariants that speak of one row, for any row.
SoundRow(row) ==
  /\ row.requires_human_review \/ row.escalation_status # "none"
       => row.escalated_at
  /\ row.escalation_status \in Decided => row.reviewed_by
  /\ row.status \in Finished => row.resolved_at

\* The stamps set in `old` are set in `new`.
StampsKept(old, new) ==
  /\ old.escalated_at => new.escalated_at
  /\ old.reviewed_by => new.reviewed_by
  /\ old.first_response_at => new.first_response_at
  /\ old.resolved_at => new.resolved_at

\* What holds of the session of a request at any time between its load and
\* its commit, whatever the others do.
SoundSession(q, row) ==
  /\ SoundRow(q.loaded)
  /\ SoundRow(q.assigned)
  /\ StampsKept(q.loaded, row)
  /\ StampsKept(q.loaded, q.assigned)
  /\ (\E c \in q.insert : IsAnswer(c)) => q.assigned.first_response_at
  /\ q.assigned.first_response_at /\ ~q.loaded.first_response_at
       => \E c \in q.insert : IsAnswer(c)
  /\ q.phase = "checking" \/ q.rating => q.loaded.resolved_at

Sound ==
  /\ SoundRow(ticket)
  /\ AnswerStamped
  /\ FeedbackAfterResolution
  /\ \A r \in Requests : SoundSession(request[r], ticket)

IInv == TypeOK /\ Sound

-----------------------------------------------------------------------------
(* Lemmas about rows *)

LEMMA NewTicketSound ==
  ASSUME NEW review \in BOOLEAN
  PROVE  NewTicket(review) \in Ticket /\ SoundRow(NewTicket(review))
BY DEF NewTicket, Ticket, TicketStatus, EscalationStatus, SoundRow, Decided,
       Finished

\* Flush returns a row when given rows.
LEMMA FlushType ==
  ASSUME NEW row \in Ticket, NEW loaded \in Ticket, NEW assigned \in Ticket
  PROVE  Flush(row, loaded, assigned) \in Ticket
BY DEF Flush, Column, Ticket

\* The stamps of the row and those the handler set are in the merged row.
LEMMA FlushStamps ==
  ASSUME NEW row \in Ticket, NEW loaded \in Ticket, NEW assigned \in Ticket,
         StampsKept(loaded, row), StampsKept(loaded, assigned)
  PROVE  /\ StampsKept(row, Flush(row, loaded, assigned))
         /\ StampsKept(assigned, Flush(row, loaded, assigned))
         /\ Flush(row, loaded, assigned).first_response_at
              => \/ row.first_response_at
                 \/ assigned.first_response_at /\ ~loaded.first_response_at
BY DEF Flush, Column, Ticket, StampsKept

\* Merging sound rows column by column gives a sound row, because the columns
\* that demand a stamp carry it along.
LEMMA FlushSound ==
  ASSUME NEW row \in Ticket, NEW loaded \in Ticket, NEW assigned \in Ticket,
         StampsKept(loaded, row), StampsKept(loaded, assigned),
         SoundRow(row), SoundRow(assigned)
  PROVE  SoundRow(Flush(row, loaded, assigned))
<1>1. StampsKept(row, Flush(row, loaded, assigned))
  BY FlushStamps
<1>2. StampsKept(assigned, Flush(row, loaded, assigned))
  BY FlushStamps
<1> QED
  BY <1>1, <1>2 DEF Flush, Column, Ticket, StampsKept, SoundRow

-----------------------------------------------------------------------------
(* Lemmas about steps *)

LEMMA BlankSound ==
  ASSUME NEW phase \in Phase \ {"checking"}, NEW row
  PROVE  Blank(phase) \in Request /\ SoundSession(Blank(phase), row)
<1>1. NewTicket(FALSE) \in Ticket /\ SoundRow(NewTicket(FALSE))
  BY NewTicketSound
<1> QED
  BY <1>1 DEF Blank, Request, SoundSession, StampsKept, NewTicket

\* What a handler must guarantee about the row it assigns and the comments it
\* adds; everything the invariant needs to know of a handler is here.
GoodChange(loaded, assigned, insert) ==
  /\ assigned \in Ticket
  /\ insert \subseteq Comment
  /\ SoundRow(assigned)
  /\ StampsKept(loaded, assigned)
  /\ (\E c \in insert : IsAnswer(c)) => assigned.first_response_at
  /\ assigned.first_response_at /\ ~loaded.first_response_at
       => \E c \in insert : IsAnswer(c)

\* A request that has just read the row, or has read it before, moves on with
\* a good change.
LEMMA HoldsKeepsIInv ==
  ASSUME IInv, NEW r \in Requests, NEW phase \in Phase,
         NEW loaded \in Ticket, NEW assigned, NEW touches \in BOOLEAN,
         NEW insert, GoodChange(loaded, assigned, insert),
         SoundRow(loaded), StampsKept(loaded, ticket),
         phase = "checking" => loaded.resolved_at,
         Holds(r, phase, loaded, assigned, touches, insert),
         UNCHANGED <<ticket, exists, comments, feedback>>
  PROVE  IInv'
<1> DEFINE q == [phase |-> phase, loaded |-> loaded, assigned |-> assigned,
                 update |-> Updates(loaded, assigned, touches),
                 insert |-> insert, erase |-> {}, rating |-> FALSE]
<1>1. q \in Request
  BY DEF Request, GoodChange, Updates
<1>2. request' = [request EXCEPT ![r] = q]
  BY DEF Holds
<1>3. TypeOK'
  BY <1>1, <1>2 DEF IInv, TypeOK
<1>4. SoundSession(q, ticket)
  BY DEF SoundSession, GoodChange
<1>5. \A s \in Requests : SoundSession(request'[s], ticket')
  BY <1>2, <1>4 DEF IInv, Sound, TypeOK
<1>6. Sound'
  BY <1>5 DEF IInv, Sound, AnswerStamped, FeedbackAfterResolution
<1> QED
  BY <1>3, <1>6 DEF IInv

-----------------------------------------------------------------------------
(* The handlers make good changes *)

LEMMA PatchIsGood ==
  ASSUME NEW row \in Ticket, SoundRow(row),
         NEW status \in TicketStatus, NEW assignee \in Staff \cup {Nobody}
  PROVE  GoodChange(row, PatchedRow(row, status, assignee), {})
BY DEF GoodChange, PatchedRow, Ticket, SoundRow, StampsKept, TicketStatus

LEMMA ReviewIsGood ==
  ASSUME NEW row \in Ticket, SoundRow(row), row.requires_human_review,
         NEW status \in EscalationStatus
  PROVE  GoodChange(row, ReviewedRow(row, status), {})
BY DEF GoodChange, ReviewedRow, Ticket, SoundRow, StampsKept, Decided

LEMMA SaysIsComment ==
  ASSUME NEW r \in Requests,
         NEW author \in {"customer", "staff", "ai"},
         NEW kind \in Kind
  PROVE  /\ Says(r, author, kind) \subseteq Comment
         /\ (\E c \in Says(r, author, kind) : IsAnswer(c))
              <=> author # "customer" /\ kind # "rejected_draft"
<1> DEFINE said == [request |-> r, author |-> author, kind |-> kind]
<1>1. said \in Comment
  BY DEF Comment
<1>2. IsAnswer(said) <=> author # "customer" /\ kind # "rejected_draft"
  BY DEF IsAnswer
<1> HIDE DEF said
<1>3. Says(r, author, kind) = {said}
  BY DEF Says, said
<1> QED
  BY <1>1, <1>2, <1>3

LEMMA AnswerIsGood ==
  ASSUME NEW row \in Ticket, SoundRow(row), NEW r \in Requests,
         NEW author \in {"customer", "staff"}, NEW internal \in BOOLEAN
  PROVE  GoodChange(row, AnsweredRow(row, author, internal),
           Says(r, author,
                IF internal /\ author = "staff" THEN "internal" ELSE "public"))
BY SaysIsComment DEF Kind, GoodChange, AnsweredRow, Ticket, SoundRow,
       StampsKept

LEMMA ReplyIsGood ==
  ASSUME NEW row \in Ticket, SoundRow(row), NEW r \in Requests,
         NEW risky \in BOOLEAN
  PROVE  GoodChange(row, RepliedRow(row, risky),
           Says(r, "customer", "reply"))
<1>1. /\ Says(r, "customer", "reply") \subseteq Comment
      /\ ~\E c \in Says(r, "customer", "reply") : IsAnswer(c)
  BY SaysIsComment DEF Kind
<1>2. GoodChange(row, RepliedRow(row, risky), {})
  BY DEF GoodChange, RepliedRow, Ticket, SoundRow,
         StampsKept, TicketStatus, EscalationStatus, Decided, Finished
<1> QED
  BY <1>1, <1>2 DEF GoodChange

LEMMA ApprovalIsGood ==
  ASSUME NEW row \in Ticket, SoundRow(row), NEW r \in Requests,
         NEW resolve \in BOOLEAN
  PROVE  GoodChange(row, ApprovedRow(row, resolve),
           Says(r, "staff", "approved_draft"))
BY SaysIsComment DEF Kind, GoodChange, ApprovedRow, Ticket, SoundRow,
       StampsKept, TicketStatus, EscalationStatus, Decided, Finished

LEMMA RejectionIsGood ==
  ASSUME NEW row \in Ticket, SoundRow(row), NEW r \in Requests
  PROVE  GoodChange(row, row, Says(r, "staff", "rejected_draft"))
BY SaysIsComment DEF Kind, GoodChange, StampsKept

LEMMA EscalatingIsGood ==
  ASSUME NEW row \in Ticket, SoundRow(row)
  PROVE  GoodChange(row, EscalatedRow(row), {})
BY DEF GoodChange, EscalatedRow, Ticket, SoundRow, StampsKept, TicketStatus,
       EscalationStatus, Decided, Finished

LEMMA SendingIsGood ==
  ASSUME NEW row \in Ticket, SoundRow(row), NEW r \in Requests
  PROVE  GoodChange(row, SentRow(row), Says(r, "ai", "public"))
BY SaysIsComment DEF Kind, GoodChange, SentRow, Ticket, SoundRow,
       StampsKept, TicketStatus, EscalationStatus, Decided, Finished

LEMMA NothingIsGood ==
  ASSUME NEW row \in Ticket, SoundRow(row)
  PROVE  GoodChange(row, row, {})
BY DEF GoodChange, StampsKept

-----------------------------------------------------------------------------
(* Every step keeps the inductive invariant *)

LEMMA InitIInv == Init => IInv
<1> SUFFICES ASSUME Init PROVE IInv
  OBVIOUS
<1>1. PICK review \in BOOLEAN : ticket = NewTicket(review)
  BY DEF Init
<1>2. ticket \in Ticket /\ SoundRow(ticket)
  BY <1>1, NewTicketSound
<1>3. \A r \in Requests :
        request[r] \in Request /\ SoundSession(request[r], ticket)
  BY BlankSound DEF Init, Phase
<1>4. TypeOK
  BY <1>2, <1>3 DEF Init, TypeOK
<1>5. AnswerStamped /\ FeedbackAfterResolution
  BY <1>1 DEF Init, AnswerStamped, FeedbackAfterResolution, NewTicket
<1> QED
  BY <1>2, <1>3, <1>4, <1>5 DEF IInv, Sound

\* A handler that reads the row and assigns a good change keeps the invariant.
LEMMA LoadKeepsIInv ==
  ASSUME IInv, NEW r \in Requests, NEW assigned, NEW touches \in BOOLEAN,
         NEW insert, GoodChange(ticket, assigned, insert),
         Load(r, assigned, touches, insert)
  PROVE  IInv'
<1>1. Holds(r, "writing", ticket, assigned, touches, insert)
      /\ UNCHANGED <<ticket, exists, comments, feedback>>
  BY DEF Load
<1>2. ticket \in Ticket /\ SoundRow(ticket) /\ StampsKept(ticket, ticket)
  BY DEF IInv, TypeOK, Sound, StampsKept
<1>3. "writing" \in Phase
  BY DEF Phase
<1> QED
  BY <1>1, <1>2, <1>3, HoldsKeepsIInv

\* The commit: the merged row is sound, has the stamps of both the row and the
\* handler, and so no other session gets ahead of it.
LEMMA CommitKeepsIInv ==
  ASSUME IInv, NEW r \in Requests, Commit(r)
  PROVE  IInv'
<1> DEFINE q == request[r]
<1>1. /\ ticket' = Flush(ticket, q.loaded, q.assigned)
      /\ comments' = comments \cup q.insert
      /\ feedback' = IF q.rating THEN feedback \cup {r} ELSE feedback
      /\ request' = [request EXCEPT ![r] = Blank("done")]
      /\ exists' = exists
  BY DEF Commit
<1>2. /\ ticket \in Ticket /\ q.loaded \in Ticket /\ q.assigned \in Ticket
      /\ q.insert \subseteq Comment /\ q.rating \in BOOLEAN
      /\ SoundRow(ticket) /\ SoundRow(q.assigned)
      /\ StampsKept(q.loaded, ticket) /\ StampsKept(q.loaded, q.assigned)
  BY DEF IInv, TypeOK, Sound, SoundSession, Request
<1>3. /\ StampsKept(ticket, ticket')
      /\ StampsKept(q.assigned, ticket')
      /\ ticket'.first_response_at
           => \/ ticket.first_response_at
              \/ q.assigned.first_response_at /\ ~q.loaded.first_response_at
  BY <1>1, <1>2, FlushStamps
<1>4. SoundRow(ticket')
  BY <1>1, <1>2, FlushSound
<1>5. Blank("done") \in Request /\ SoundSession(Blank("done"), ticket')
  BY BlankSound DEF Phase
<1>6. TypeOK'
  <2>1. ticket' \in Ticket
    BY <1>1, <1>2, FlushType
  <2>2. comments' \subseteq Comment /\ feedback' \subseteq Requests
    BY <1>1, <1>2 DEF IInv, TypeOK
  <2> QED
    BY <1>1, <1>5, <2>1, <2>2 DEF IInv, TypeOK
<1>7. AnswerStamped'
  <2>1. exists =>
          (ticket'.first_response_at <=> \E c \in comments' : IsAnswer(c))
    BY <1>1, <1>3 DEF IInv, Sound, SoundSession, AnswerStamped, StampsKept
  <2> QED
    BY <1>1, <2>1 DEF AnswerStamped
<1>8. FeedbackAfterResolution'
  <2>1. q.rating => ticket'.resolved_at
    BY <1>2, <1>3 DEF IInv, Sound, SoundSession, StampsKept
  <2> QED
    BY <1>1, <1>3, <2>1
    DEF IInv, Sound, FeedbackAfterResolution, StampsKept
<1>9. \A s \in Requests : SoundSession(request'[s], ticket')
  <2> SUFFICES ASSUME NEW s \in Requests
               PROVE  SoundSession(request'[s], ticket')
    OBVIOUS
  <2>1. CASE s = r
    BY <1>1, <1>5, <2>1 DEF IInv, TypeOK
  <2>2. CASE s # r
    <3>1. request'[s] = request[s]
      BY <1>1, <2>2 DEF IInv, TypeOK
    <3> QED
      BY <1>3, <3>1 DEF IInv, Sound, SoundSession, StampsKept
  <2> QED
    BY <2>1, <2>2
<1> QED
  BY <1>4, <1>6, <1>7, <1>8, <1>9 DEF IInv, Sound

\* A deletion takes the comments and the row together, and nothing else.
LEMMA DeletionKeepsIInv ==
  ASSUME IInv, NEW r \in Requests,
         DeleteTicket(r) \/ DeleteComments(r) \/ CommitDeletion(r)
  PROVE  IInv'
<1>1. ASSUME NEW q \in Request, SoundSession(q, ticket),
             request' = [request EXCEPT ![r] = q],
             UNCHANGED <<ticket, feedback>>,
             \/ UNCHANGED <<exists, comments>>
             \/ exists' = FALSE /\ comments' \subseteq comments
      PROVE  IInv'
  <2>1. TypeOK'
    BY <1>1 DEF IInv, TypeOK
  <2>2. Sound'
    BY <1>1
    DEF IInv, TypeOK, Sound, AnswerStamped, FeedbackAfterResolution
  <2> QED
    BY <2>1, <2>2 DEF IInv
<1>2. ASSUME NEW phase \in {"deleting", "done"}
      PROVE  Blank(phase) \in Request /\ SoundSession(Blank(phase), ticket)
  BY BlankSound DEF Phase
<1>3. CASE DeleteTicket(r)
  BY <1>1, <1>2, <1>3 DEF DeleteTicket
<1>4. CASE DeleteComments(r)
  <2> DEFINE q == [request[r] EXCEPT !.phase = "erasing", !.erase = comments]
  <2>1. request' = [request EXCEPT ![r] = q]
        /\ UNCHANGED <<ticket, exists, comments, feedback>>
    BY <1>4 DEF DeleteComments, IInv, TypeOK
  <2>2. q \in Request
    BY DEF IInv, TypeOK, Request, Phase
  <2>3. SoundSession(q, ticket)
    BY DEF IInv, TypeOK, Request, Sound, SoundSession
  <2> QED
    BY <1>1, <2>1, <2>2, <2>3
<1>5. CASE CommitDeletion(r)
  BY <1>1, <1>2, <1>5 DEF CommitDeletion
<1> QED
  BY <1>3, <1>4, <1>5

LEMMA NextKeepsIInv == IInv /\ [Next]_vars => IInv'
<1> SUFFICES ASSUME IInv, [Next]_vars PROVE IInv'
  OBVIOUS
<1>1. ticket \in Ticket /\ SoundRow(ticket) /\ StampsKept(ticket, ticket)
  BY DEF IInv, TypeOK, Sound, StampsKept
<1>2. CASE UNCHANGED vars
  <2>1. Sound'
    BY <1>2 DEF vars, IInv, Sound, AnswerStamped, FeedbackAfterResolution
  <2>2. TypeOK'
    BY <1>2 DEF vars, IInv, TypeOK
  <2> QED
    BY <2>1, <2>2 DEF IInv
<1>3. ASSUME NEW r \in Requests,
             NEW status \in TicketStatus, NEW assignee \in Staff \cup {Nobody},
             UpdateTicket(r, status, assignee)
      PROVE  IInv'
  BY <1>1, <1>3, PatchIsGood, LoadKeepsIInv DEF UpdateTicket
<1>4. ASSUME NEW r \in Requests, NEW status \in EscalationStatus,
             UpdateEscalation(r, status)
      PROVE  IInv'
  BY <1>1, <1>4, ReviewIsGood, LoadKeepsIInv DEF UpdateEscalation
<1>5. ASSUME NEW r \in Requests, NEW author \in {"customer", "staff"},
             NEW internal \in BOOLEAN, AddComment(r, author, internal)
      PROVE  IInv'
  BY <1>1, <1>5, AnswerIsGood, LoadKeepsIInv DEF AddComment
<1>6. ASSUME NEW r \in Requests, NEW risky \in BOOLEAN,
             HandleThreadReply(r, risky)
      PROVE  IInv'
  BY <1>1, <1>6, ReplyIsGood, LoadKeepsIInv DEF HandleThreadReply
<1>7. ASSUME NEW r \in Requests, NEW resolve \in BOOLEAN,
             ApproveDraft(r, resolve)
      PROVE  IInv'
  BY <1>1, <1>7, ApprovalIsGood, LoadKeepsIInv DEF ApproveDraft
<1>8. ASSUME NEW r \in Requests, RejectDraft(r)
      PROVE  IInv'
  BY <1>1, <1>8, RejectionIsGood, LoadKeepsIInv DEF RejectDraft
<1>9. ASSUME NEW r \in Requests, AutoRespond(r)
      PROVE  IInv'
  <2>1. Holds(r, "asking", ticket, ticket, FALSE, {})
        /\ UNCHANGED <<ticket, exists, comments, feedback>>
    BY <1>9 DEF AutoRespond
  <2>2. GoodChange(ticket, ticket, {}) /\ "asking" \in Phase
    BY <1>1, NothingIsGood DEF Phase
  <2> QED
    BY <1>1, <2>1, <2>2, HoldsKeepsIInv
<1>10. ASSUME NEW r \in Requests, DraftNeedsReview(r) \/ DraftIsGood(r)
       PROVE  IInv'
  <2> DEFINE loaded == request[r].loaded
  <2>1. loaded \in Ticket /\ SoundRow(loaded) /\ StampsKept(loaded, ticket)
    BY DEF IInv, TypeOK, Sound, SoundSession, Request
  <2>2. GoodChange(loaded, EscalatedRow(loaded), {})
    BY <2>1, EscalatingIsGood
  <2>3. GoodChange(loaded, SentRow(loaded), Says(r, "ai", "public"))
    BY <2>1, SendingIsGood
  <2>4. "writing" \in Phase
    BY DEF Phase
  <2>5. UNCHANGED <<ticket, exists, comments, feedback>>
    BY <1>10 DEF DraftNeedsReview, DraftIsGood
  <2>6. CASE DraftNeedsReview(r)
    BY <2>1, <2>2, <2>4, <2>5, <2>6, HoldsKeepsIInv DEF DraftNeedsReview
  <2>7. CASE DraftIsGood(r)
    BY <2>1, <2>3, <2>4, <2>5, <2>7, HoldsKeepsIInv DEF DraftIsGood
  <2> QED
    BY <1>10, <2>6, <2>7
<1>11. ASSUME NEW r \in Requests, SubmitFeedback(r)
       PROVE  IInv'
  <2>1. Holds(r, "checking", ticket, ticket, FALSE, {})
        /\ UNCHANGED <<ticket, exists, comments, feedback>>
    BY <1>11 DEF SubmitFeedback
  <2>2. GoodChange(ticket, ticket, {}) /\ "checking" \in Phase
    BY <1>1, NothingIsGood DEF Phase
  <2>3. ticket.resolved_at
    BY <1>1, <1>11 DEF SubmitFeedback, AcceptsFeedback, SoundRow
  <2> QED
    BY <1>1, <2>1, <2>2, <2>3, HoldsKeepsIInv
<1>12. ASSUME NEW r \in Requests, NoFeedbackYet(r)
       PROVE  IInv'
  <2> DEFINE q == [request[r] EXCEPT !.phase = "writing", !.rating = TRUE]
  <2>1. request' = [request EXCEPT ![r] = q]
        /\ UNCHANGED <<ticket, exists, comments, feedback>>
    BY <1>12 DEF NoFeedbackYet, IInv, TypeOK
  <2>2. q \in Request
    BY DEF IInv, TypeOK, Request, Phase
  <2>3. SoundSession(q, ticket)
    BY <1>12 DEF NoFeedbackYet, IInv, TypeOK, Request, Sound, SoundSession
  <2>4. TypeOK'
    BY <2>1, <2>2 DEF IInv, TypeOK
  <2>5. Sound'
    BY <2>1, <2>3
    DEF IInv, TypeOK, Sound, AnswerStamped, FeedbackAfterResolution
  <2> QED
    BY <2>4, <2>5 DEF IInv
<1>13. ASSUME NEW r \in Requests, Commit(r)
       PROVE  IInv'
  BY <1>13, CommitKeepsIInv
<1>14. ASSUME NEW r \in Requests, GiveUp(r)
       PROVE  IInv'
  <2>1. request' = [request EXCEPT ![r] = Blank("done")]
        /\ UNCHANGED <<ticket, exists, comments, feedback>>
    BY <1>14 DEF GiveUp
  <2>2. Blank("done") \in Request /\ SoundSession(Blank("done"), ticket)
    BY BlankSound DEF Phase
  <2>3. TypeOK'
    BY <2>1, <2>2 DEF IInv, TypeOK
  <2>4. Sound'
    BY <2>1, <2>2
    DEF IInv, TypeOK, Sound, AnswerStamped, FeedbackAfterResolution
  <2> QED
    BY <2>3, <2>4 DEF IInv
<1>15. ASSUME NEW r \in Requests,
              DeleteTicket(r) \/ DeleteComments(r) \/ CommitDeletion(r)
       PROVE  IInv'
  BY <1>15, DeletionKeepsIInv
<1> QED
  BY <1>2, <1>3, <1>4, <1>5, <1>6, <1>7, <1>8, <1>9, <1>10, <1>11, <1>12,
     <1>13, <1>14, <1>15 DEF Next

LEMMA Invariance == Spec => []IInv
BY InitIInv, NextKeepsIInv, PTL DEF Spec

-----------------------------------------------------------------------------
(* The theorems *)

\* Rows keep their shape whatever the handlers' interleaving.
THEOREM TypeCorrect == Spec => []TypeOK
BY Invariance, PTL DEF IInv

\* Escalation time, reviewer, resolution time and first response are on record
\* whenever the rest of the row, or a committed answer, calls for them.
THEOREM StampsAlwaysAgree == Spec => []StampsAgree
<1>1. IInv => StampsAgree
  BY DEF IInv, Sound, SoundRow, StampsAgree, EscalationStamped,
         DecisionHasReviewer, ResolutionStamped
<1> QED
  BY <1>1, Invariance, PTL

\* A rating exists only for a ticket that was resolved at some time.
THEOREM FeedbackAlwaysAfterResolution == Spec => []FeedbackAfterResolution
<1>1. IInv => FeedbackAfterResolution
  BY DEF IInv, Sound
<1> QED
  BY <1>1, Invariance, PTL

-----------------------------------------------------------------------------
(* The review flag *)

StaffAnswers(cs) ==
  \E c \in cs : c.author = "staff" /\ c.kind = "approved_draft"

\* What a session may do to the flag: only a staff answer takes it away, and
\* the auto-responder waits for the LLM only with a ticket it read unflagged.
FlagSession(r, q, rows) ==
  /\ q.loaded.requires_human_review /\ ~q.assigned.requires_human_review
       => StaffAnswers(q.insert)
  /\ q.phase = "asking" => ~q.loaded.requires_human_review
  /\ \A c \in q.insert : c.request = r
  /\ q.phase # "done" => \A c \in rows : c.request # r

FlagInv == \A r \in Requests : FlagSession(r, request[r], comments)

\* A step of request r that leaves the comments alone keeps FlagInv when the
\* new session of r is in order.
LEMMA SessionKeepsFlagInv ==
  ASSUME TypeOK, FlagInv, NEW r \in Requests, NEW q,
         request' = [request EXCEPT ![r] = q], comments' = comments,
         FlagSession(r, q, comments)
  PROVE  FlagInv'
BY DEF FlagInv, TypeOK

\* A handler that reads the row, whether or not it sets updated_at.
Loads(r, assigned, insert) ==
  Load(r, assigned, TRUE, insert) \/ Load(r, assigned, FALSE, insert)

LEMMA LoadKeepsFlagInv ==
  ASSUME TypeOK, FlagInv, NEW r \in Requests, NEW assigned, NEW insert,
         Loads(r, assigned, insert),
         ticket.requires_human_review /\ ~assigned.requires_human_review
           => StaffAnswers(insert),
         \A c \in insert : c.request = r
  PROVE  FlagInv'
<1> DEFINE q(touches) ==
      [phase |-> "writing", loaded |-> ticket, assigned |-> assigned,
       update |-> Updates(ticket, assigned, touches),
       insert |-> insert, erase |-> {}, rating |-> FALSE]
<1>1. request[r].phase = "ready" /\ comments' = comments
  BY DEF Loads, Load
<1>2. FlagSession(r, q(TRUE), comments) /\ FlagSession(r, q(FALSE), comments)
  BY <1>1 DEF FlagSession, FlagInv
<1>3. CASE Load(r, assigned, TRUE, insert)
  <2>1. request' = [request EXCEPT ![r] = q(TRUE)]
    BY <1>3 DEF Load, Holds
  <2> QED
    BY <1>1, <1>2, <2>1, SessionKeepsFlagInv
<1>4. CASE Load(r, assigned, FALSE, insert)
  <2>1. request' = [request EXCEPT ![r] = q(FALSE)]
    BY <1>4 DEF Load, Holds
  <2> QED
    BY <1>1, <1>2, <2>1, SessionKeepsFlagInv
<1> QED
  BY <1>3, <1>4 DEF Loads

LEMMA DoneIsInOrder ==
  ASSUME NEW r \in Requests, NEW rows
  PROVE  /\ FlagSession(r, Blank("done"), rows)
         /\ (\A c \in rows : c.request # r)
              => FlagSession(r, Blank("deleting"), rows)
BY DEF FlagSession, Blank, NewTicket

LEMMA SaysItself ==
  ASSUME NEW r, NEW author, NEW kind
  PROVE  /\ \A c \in Says(r, author, kind) : c.request = r
         /\ author = "staff" /\ kind = "approved_draft"
              => StaffAnswers(Says(r, author, kind))
BY DEF Says, StaffAnswers

LEMMA NextKeepsFlagInv == TypeOK /\ FlagInv /\ [Next]_vars => FlagInv'
<1> SUFFICES ASSUME TypeOK, FlagInv, [Next]_vars PROVE FlagInv'
  OBVIOUS
<1>1. CASE UNCHANGED vars
  BY <1>1 DEF vars, FlagInv
<1>2. ASSUME NEW r \in Requests,
             NEW status \in TicketStatus, NEW assignee \in Staff \cup {Nobody},
             UpdateTicket(r, status, assignee)
      PROVE  FlagInv'
  <2>1. PatchedRow(ticket, status, assignee).requires_human_review
          = ticket.requires_human_review
    BY DEF PatchedRow, TypeOK, Ticket
  <2>2. Loads(r, PatchedRow(ticket, status, assignee), {})
    BY <1>2 DEF UpdateTicket, Loads
  <2> QED
    BY <2>1, <2>2, LoadKeepsFlagInv
<1>3. ASSUME NEW r \in Requests, NEW status \in EscalationStatus,
             UpdateEscalation(r, status)
      PROVE  FlagInv'
  <2>1. ReviewedRow(ticket, status).requires_human_review
          = ticket.requires_human_review
    BY DEF ReviewedRow, TypeOK, Ticket
  <2>2. Loads(r, ReviewedRow(ticket, status), {})
    BY <1>3 DEF UpdateEscalation, Loads
  <2> QED
    BY <2>1, <2>2, LoadKeepsFlagInv
<1>4. ASSUME NEW r \in Requests, NEW author \in {"customer", "staff"},
             NEW internal \in BOOLEAN, AddComment(r, author, internal)
      PROVE  FlagInv'
  <2>1. AnsweredRow(ticket, author, internal).requires_human_review
          = ticket.requires_human_review
    BY DEF AnsweredRow, TypeOK, Ticket
  <2> DEFINE kind == IF internal /\ author = "staff"
                     THEN "internal" ELSE "public"
  <2>2. Loads(r, AnsweredRow(ticket, author, internal), Says(r, author, kind))
    BY <1>4 DEF AddComment, Loads
  <2> QED
    BY <2>1, <2>2, SaysItself, LoadKeepsFlagInv
<1>5. ASSUME NEW r \in Requests, NEW risky \in BOOLEAN,
             HandleThreadReply(r, risky)
      PROVE  FlagInv'
  <2>1. ticket.requires_human_review
          => RepliedRow(ticket, risky).requires_human_review
    BY DEF RepliedRow, TypeOK, Ticket
  <2>2. Loads(r, RepliedRow(ticket, risky), Says(r, "customer", "reply"))
    BY <1>5 DEF HandleThreadReply, Loads
  <2> QED
    BY <2>1, <2>2, SaysItself, LoadKeepsFlagInv
<1>6. ASSUME NEW r \in Requests, NEW resolve \in BOOLEAN,
             ApproveDraft(r, resolve)
      PROVE  FlagInv'
  <2>1. Loads(r, ApprovedRow(ticket, resolve),
              Says(r, "staff", "approved_draft"))
    BY <1>6 DEF ApproveDraft, Loads
  <2> QED
    BY <2>1, SaysItself, LoadKeepsFlagInv
<1>7. ASSUME NEW r \in Requests, RejectDraft(r)
      PROVE  FlagInv'
  <2>1. Loads(r, ticket, Says(r, "staff", "rejected_draft"))
    BY <1>7 DEF RejectDraft, Loads
  <2> QED
    BY <2>1, SaysItself, LoadKeepsFlagInv
<1>8. ASSUME NEW r \in Requests, AutoRespond(r) \/ SubmitFeedback(r)
      PROVE  FlagInv'
  <2> DEFINE q(phase) ==
        [phase |-> phase, loaded |-> ticket, assigned |-> ticket,
         update |-> Updates(ticket, ticket, FALSE), insert |-> {},
         erase |-> {}, rating |-> FALSE]
  <2>1. request[r].phase = "ready" /\ comments' = comments
    BY <1>8 DEF AutoRespond, SubmitFeedback
  <2>2. CASE AutoRespond(r)
    <3>1. request' = [request EXCEPT ![r] = q("asking")]
          /\ ~ticket.requires_human_review
      BY <2>2 DEF AutoRespond, Holds
    <3>2. FlagSession(r, q("asking"), comments)
      BY <2>1, <3>1 DEF FlagSession, FlagInv
    <3> QED
      BY <2>1, <3>1, <3>2, SessionKeepsFlagInv
  <2>3. CASE SubmitFeedback(r)
    <3>1. request' = [request EXCEPT ![r] = q("checking")]
      BY <2>3 DEF SubmitFeedback, Holds
    <3>2. FlagSession(r, q("checking"), comments)
      BY <2>1, <3>1 DEF FlagSession, FlagInv
    <3> QED
      BY <2>1, <3>1, <3>2, SessionKeepsFlagInv
  <2> QED
    BY <1>8, <2>2, <2>3
<1>9. ASSUME NEW r \in Requests, DraftNeedsReview(r) \/ DraftIsGood(r)
      PROVE  FlagInv'
  <2> DEFINE q(assigned, insert) ==
        [phase |-> "writing", loaded |-> request[r].loaded,
         assigned |-> assigned,
         update |-> Updates(request[r].loaded, assigned, TRUE),
         insert |-> insert, erase |-> {}, rating |-> FALSE]
  <2>1. /\ request[r].phase = "asking" /\ comments' = comments
        /\ ~request[r].loaded.requires_human_review
        /\ \A c \in comments : c.request # r
    BY <1>9 DEF DraftNeedsReview, DraftIsGood, FlagInv, FlagSession
  <2>2. CASE DraftNeedsReview(r)
    <3>1. request' = [request EXCEPT
                        ![r] = q(EscalatedRow(request[r].loaded), {})]
      BY <2>2 DEF DraftNeedsReview, Holds
    <3>2. FlagSession(r, q(EscalatedRow(request[r].loaded), {}), comments)
      BY <2>1 DEF FlagSession
    <3> QED
      BY <2>1, <3>1, <3>2, SessionKeepsFlagInv
  <2>3. CASE DraftIsGood(r)
    <3> DEFINE said == Says(r, "ai", "public")
    <3>1. request' = [request EXCEPT
                        ![r] = q(SentRow(request[r].loaded), said)]
      BY <2>3 DEF DraftIsGood, Holds
    <3>2. FlagSession(r, q(SentRow(request[r].loaded), said), comments)
      BY <2>1, SaysItself DEF FlagSession
    <3> QED
      BY <2>1, <3>1, <3>2, SessionKeepsFlagInv
  <2> QED
    BY <1>9, <2>2, <2>3
<1>10. ASSUME NEW r \in Requests, NoFeedbackYet(r)
       PROVE  FlagInv'
  <2> DEFINE q == [request[r] EXCEPT !.phase = "writing", !.rating = TRUE]
  <2>1. request' = [request EXCEPT ![r] = q] /\ comments' = comments
    BY <1>10 DEF NoFeedbackYet, TypeOK
  <2>2. FlagSession(r, q, comments)
    BY <1>10 DEF NoFeedbackYet, TypeOK, Request, FlagInv, FlagSession
  <2> QED
    BY <2>1, <2>2, SessionKeepsFlagInv
<1>11. ASSUME NEW r \in Requests, Commit(r)
       PROVE  FlagInv'
  <2>1. /\ request' = [request EXCEPT ![r] = Blank("done")]
        /\ comments' = comments \cup request[r].insert
        /\ \A c \in request[r].insert : c.request = r
    BY <1>11 DEF Commit, FlagInv, FlagSession
  <2>2. ASSUME NEW s \in Requests
        PROVE  FlagSession(s, request'[s], comments')
    <3>1. CASE s = r
      BY <2>1, <3>1, DoneIsInOrder DEF TypeOK
    <3>2. CASE s # r
      BY <2>1, <3>2 DEF TypeOK, FlagInv, FlagSession
    <3> QED
      BY <3>1, <3>2
  <2> QED
    BY <2>2 DEF FlagInv
<1>12. ASSUME NEW r \in Requests, GiveUp(r)
       PROVE  FlagInv'
  BY <1>12, DoneIsInOrder, SessionKeepsFlagInv DEF GiveUp
<1>13. ASSUME NEW r \in Requests,
              DeleteTicket(r) \/ DeleteComments(r) \/ CommitDeletion(r)
       PROVE  FlagInv'
  <2>1. CASE DeleteTicket(r)
    <3>1. \A c \in comments : c.request # r
      BY <2>1 DEF DeleteTicket, FlagInv, FlagSession
    <3> QED
      BY <2>1, <3>1, DoneIsInOrder, SessionKeepsFlagInv DEF DeleteTicket
  <2>2. CASE DeleteComments(r)
    <3> DEFINE q == [request[r] EXCEPT !.phase = "erasing", !.erase = comments]
    <3>1. request' = [request EXCEPT ![r] = q] /\ comments' = comments
      BY <2>2 DEF DeleteComments, TypeOK
    <3>2. FlagSession(r, q, comments)
      BY <2>2 DEF DeleteComments, TypeOK, Request, FlagInv, FlagSession
    <3> QED
      BY <3>1, <3>2, SessionKeepsFlagInv
  <2>3. CASE CommitDeletion(r)
    <3>1. comments' \subseteq comments
          /\ request' = [request EXCEPT ![r] = Blank("done")]
      BY <2>3 DEF CommitDeletion
    <3> QED
      BY <3>1, DoneIsInOrder DEF TypeOK, FlagInv, FlagSession
  <2> QED
    BY <1>13, <2>1, <2>2, <2>3
<1> QED
  BY <1>1, <1>2, <1>3, <1>4, <1>5, <1>6, <1>7, <1>8, <1>9, <1>10, <1>11,
     <1>12, <1>13 DEF Next

LEMMA FlagInvariance == Spec => []FlagInv
<1>1. Init => FlagInv
  <2>1. ASSUME NEW r \in Requests
        PROVE  FlagSession(r, Blank("ready"), {})
    BY DEF FlagSession, Blank, NewTicket
  <2> QED
    BY <2>1 DEF Init, FlagInv
<1> QED
  BY <1>1, NextKeepsFlagInv, TypeCorrect, PTL DEF Spec

\* Only Commit changes the row, so only a commit can drop the flag.
LEMMA OnlyCommitWrites ==
  ASSUME [Next]_vars, ticket' # ticket
  PROVE  \E r \in Requests : Commit(r)
BY DEF Next, vars, UpdateTicket, UpdateEscalation, AddComment,
       HandleThreadReply, ApproveDraft, RejectDraft, Load, AutoRespond,
       DraftNeedsReview, DraftIsGood, SubmitFeedback, NoFeedbackYet, GiveUp,
       DeleteTicket, DeleteComments, CommitDeletion

\* The auto-responder, however stale its snapshot, never takes a review flag
\* off a ticket: every step that does commits a draft a staff member approved.
THEOREM FlagOnlyClearedByStaff == Spec => FlagClearedByStaffOnly
<1> DEFINE Drops == ticket.requires_human_review
                    /\ ~ticket'.requires_human_review
           Answered == \E c \in comments' \ comments :
                         c.author = "staff" /\ c.kind = "approved_draft"
<1>1. TypeOK /\ FlagInv /\ [Next]_vars => [Drops => Answered]_vars
  <2> SUFFICES ASSUME TypeOK, FlagInv, [Next]_vars, Drops
               PROVE  Answered
    BY DEF vars
  <2>1. PICK r \in Requests : Commit(r)
    BY OnlyCommitWrites
  <2>2. /\ ticket' = Flush(ticket, request[r].loaded, request[r].assigned)
        /\ comments' = comments \cup request[r].insert
        /\ request[r].phase = "writing"
    BY <2>1 DEF Commit
  <2>3. /\ request[r].loaded.requires_human_review
        /\ ~request[r].assigned.requires_human_review
    BY <2>2 DEF Flush, Column, TypeOK, Request, Ticket
  <2>4. /\ StaffAnswers(request[r].insert)
        /\ \A c \in request[r].insert : c.request = r
        /\ \A c \in comments : c.request # r
    BY <2>2, <2>3 DEF FlagInv, FlagSession
  <2> QED
    BY <2>2, <2>4 DEF StaffAnswers
<1> QED
  BY <1>1, TypeCorrect, FlagInvariance, PTL DEF Spec, FlagClearedByStaffOnly

-----------------------------------------------------------------------------
(* The deleted ticket *)

\* The comments a session may add without an UPDATE of the row.
Harmless(c, row) ==
  /\ c.kind \in {"public", "internal"}
  /\ c.author = "customer" \/ (c.author = "staff" /\ row.first_response_at)

QuietSession(q) ==
  ~q.update => \A c \in q.insert : Harmless(c, q.loaded)

QuietInv == \A r \in Requests : QuietSession(request[r])

LEMMA SessionKeepsQuietInv ==
  ASSUME TypeOK, QuietInv, NEW r \in Requests, NEW q,
         request' = [request EXCEPT ![r] = q], QuietSession(q)
  PROVE  QuietInv'
BY DEF QuietInv, TypeOK

\* A session that UPDATEs the row, or adds harmless comments only, is quiet.
HoldsQuietly(r, phase, loaded, assigned, insert) ==
  \/ Holds(r, phase, loaded, assigned, TRUE, insert)
  \/ /\ Holds(r, phase, loaded, assigned, FALSE, insert)
     /\ assigned = loaded => \A c \in insert : Harmless(c, loaded)

LEMMA HoldsKeepsQuietInv ==
  ASSUME TypeOK, QuietInv, NEW r \in Requests, NEW phase, NEW loaded,
         NEW assigned, NEW insert,
         HoldsQuietly(r, phase, loaded, assigned, insert)
  PROVE  QuietInv'
<1> DEFINE q(touches) ==
      [phase |-> phase, loaded |-> loaded, assigned |-> assigned,
       update |-> Updates(loaded, assigned, touches),
       insert |-> insert, erase |-> {}, rating |-> FALSE]
<1>1. CASE Holds(r, phase, loaded, assigned, TRUE, insert)
  <2>1. request' = [request EXCEPT ![r] = q(TRUE)]
    BY <1>1 DEF Holds
  <2>2. QuietSession(q(TRUE))
    BY DEF QuietSession, Updates
  <2> QED
    BY <2>1, <2>2, SessionKeepsQuietInv
<1>2. CASE /\ Holds(r, phase, loaded, assigned, FALSE, insert)
           /\ assigned = loaded => \A c \in insert : Harmless(c, loaded)
  <2>1. request' = [request EXCEPT ![r] = q(FALSE)]
    BY <1>2 DEF Holds
  <2>2. QuietSession(q(FALSE))
    BY <1>2 DEF QuietSession, Updates
  <2> QED
    BY <2>1, <2>2, SessionKeepsQuietInv
<1> QED
  BY <1>1, <1>2 DEF HoldsQuietly

LEMMA BlankIsQuiet == \A phase : QuietSession(Blank(phase))
BY DEF QuietSession, Blank

\* What the one handler that may leave the row alone adds: a first answer of
\* the staff is not among it.
LEMMA AnswerIsHarmless ==
  ASSUME NEW row \in Ticket, NEW r, NEW author \in {"customer", "staff"},
         NEW internal \in BOOLEAN, NEW kind \in {"public", "internal"},
         AnsweredRow(row, author, internal) = row
  PROVE  \A c \in Says(r, author, kind) : Harmless(c, row)
<1>1. author = "staff" => row.first_response_at
  BY DEF AnsweredRow, Ticket
<1> QED
  BY <1>1 DEF Says, Harmless

LEMMA NextKeepsQuietInv == TypeOK /\ QuietInv /\ [Next]_vars => QuietInv'
<1> SUFFICES ASSUME TypeOK, QuietInv, [Next]_vars PROVE QuietInv'
  OBVIOUS
<1>1. CASE UNCHANGED vars
  BY <1>1 DEF vars, QuietInv
<1>2. ASSUME NEW r \in Requests, NEW assigned, NEW insert,
             Load(r, assigned, TRUE, insert)
      PROVE  QuietInv'
  <2>1. HoldsQuietly(r, "writing", ticket, assigned, insert)
    BY <1>2 DEF Load, HoldsQuietly
  <2> QED
    BY <2>1, HoldsKeepsQuietInv
<1>3. ASSUME NEW r \in Requests, NEW assigned, NEW insert,
             Load(r, assigned, FALSE, insert),
             assigned = ticket => \A c \in insert : Harmless(c, ticket)
      PROVE  QuietInv'
  <2>1. HoldsQuietly(r, "writing", ticket, assigned, insert)
    BY <1>3 DEF Load, HoldsQuietly
  <2> QED
    BY <2>1, HoldsKeepsQuietInv
<1>4. ASSUME NEW r \in Requests,
             NEW status \in TicketStatus, NEW assignee \in Staff \cup {Nobody},
             UpdateTicket(r, status, assignee)
      PROVE  QuietInv'
  BY <1>2, <1>4 DEF UpdateTicket
<1>5. ASSUME NEW r \in Requests, NEW status \in EscalationStatus,
             UpdateEscalation(r, status)
      PROVE  QuietInv'
  BY <1>3, <1>5 DEF UpdateEscalation
<1>6. ASSUME NEW r \in Requests, NEW author \in {"customer", "staff"},
             NEW internal \in BOOLEAN, AddComment(r, author, internal)
      PROVE  QuietInv'
  <2> DEFINE kind == IF internal /\ author = "staff"
                     THEN "internal" ELSE "public"
             assigned == AnsweredRow(ticket, author, internal)
             insert == Says(r, author, kind)
  <2>1. Load(r, assigned, FALSE, insert)
    BY <1>6 DEF AddComment
  <2>2. assigned = ticket => \A c \in insert : Harmless(c, ticket)
    BY AnswerIsHarmless DEF TypeOK
  <2> HIDE DEF assigned, insert
  <2> QED
    BY <1>3, <2>1, <2>2
<1>7. ASSUME NEW r \in Requests, NEW risky \in BOOLEAN,
             HandleThreadReply(r, risky)
      PROVE  QuietInv'
  BY <1>2, <1>7 DEF HandleThreadReply
<1>8. ASSUME NEW r \in Requests, NEW resolve \in BOOLEAN,
             ApproveDraft(r, resolve)
      PROVE  QuietInv'
  BY <1>2, <1>8 DEF ApproveDraft
<1>9. ASSUME NEW r \in Requests, RejectDraft(r)
      PROVE  QuietInv'
  BY <1>2, <1>9 DEF RejectDraft
<1>10. ASSUME NEW r \in Requests, AutoRespond(r) \/ SubmitFeedback(r)
       PROVE  QuietInv'
  <2>1. \E phase : HoldsQuietly(r, phase, ticket, ticket, {})
    BY <1>10 DEF AutoRespond, SubmitFeedback, HoldsQuietly
  <2> QED
    BY <2>1, HoldsKeepsQuietInv
<1>11. ASSUME NEW r \in Requests, DraftNeedsReview(r) \/ DraftIsGood(r)
       PROVE  QuietInv'
  <2>1. \E assigned, insert :
          HoldsQuietly(r, "writing", request[r].loaded, assigned, insert)
    BY <1>11 DEF DraftNeedsReview, DraftIsGood, HoldsQuietly
  <2> QED
    BY <2>1, HoldsKeepsQuietInv
<1>12. ASSUME NEW r \in Requests, NoFeedbackYet(r) \/ DeleteComments(r)
       PROVE  QuietInv'
  BY <1>12
  DEF NoFeedbackYet, DeleteComments, TypeOK, Request, QuietInv, QuietSession
<1>13. ASSUME NEW r \in Requests,
              \/ Commit(r) \/ CommitDeletion(r) \/ DeleteTicket(r) \/ GiveUp(r)
       PROVE  QuietInv'
  BY <1>13, BlankIsQuiet, SessionKeepsQuietInv
  DEF Commit, CommitDeletion, DeleteTicket, GiveUp
<1> QED
  BY <1>1, <1>4, <1>5, <1>6, <1>7, <1>8, <1>9, <1>10, <1>11, <1>12, <1>13
  DEF Next

LEMMA QuietInvariance == Spec => []QuietInv
<1>1. Init => QuietInv
  BY BlankIsQuiet DEF Init, QuietInv
<1> QED
  BY <1>1, NextKeepsQuietInv, TypeCorrect, PTL DEF Spec

\* Only Commit adds comments.
LEMMA OnlyCommitSpeaks ==
  ASSUME [Next]_vars, NEW c \in comments' \ comments
  PROVE  \E r \in Requests : Commit(r)
BY DEF Next, vars, UpdateTicket, UpdateEscalation, AddComment,
       HandleThreadReply, ApproveDraft, RejectDraft, Load, AutoRespond,
       DraftNeedsReview, DraftIsGood, SubmitFeedback, NoFeedbackYet, GiveUp,
       DeleteTicket, DeleteComments, CommitDeletion

\* What is committed on a deleted ticket is a comment made with add_comment, of
\* the customer or a later one of the staff: no answer of the AI, no approved or
\* rejected draft, no message of the thread and no first answer.
THEOREM DeletedAlwaysStaysUnanswered == Spec => DeletedStaysUnanswered
<1> DEFINE Quiet == ~exists => \A c \in comments' \ comments :
             /\ c.kind \in {"public", "internal"}
             /\ c.author = "customer"
                  \/ (c.author = "staff" /\ ticket.first_response_at)
<1>1. IInv /\ QuietInv /\ [Next]_vars => [Quiet]_vars
  <2> SUFFICES ASSUME IInv, QuietInv, [Next]_vars, ~exists,
                      NEW c \in comments' \ comments
               PROVE  Harmless(c, ticket)
    BY DEF vars, Harmless
  <2>1. PICK r \in Requests : Commit(r)
    BY OnlyCommitSpeaks
  <2>2. c \in request[r].insert /\ ~request[r].update
    BY <2>1 DEF Commit, MayCommit
  <2>3. Harmless(c, request[r].loaded)
    BY <2>2 DEF QuietInv, QuietSession
  <2>4. StampsKept(request[r].loaded, ticket)
    BY DEF IInv, Sound, SoundSession
  <2> QED
    BY <2>3, <2>4 DEF Harmless, StampsKept
<1> QED
  BY <1>1, Invariance, QuietInvariance, PTL DEF Spec, DeletedStaysUnanswered

-----------------------------------------------------------------------------
(* Submissions of feedback, one after the other *)

Submits(r) == request[r].phase = "checking" \/ request[r].rating

\* No two submissions are between their lookup and their commit.
OneSubmission == \A r, s \in Requests : Submits(r) /\ Submits(s) => r = s

\* Whoever is about to insert feedback has found none, and there still is none.
RatingInv ==
  /\ OneFeedbackPerTicket
  /\ \A r \in Requests : request[r].rating => feedback = {}

\* A step of a request that inserts no feedback and is not going to.
LEMMA OthersRate ==
  ASSUME TypeOK, RatingInv, NEW r \in Requests, feedback' = feedback,
         ~request'[r].rating, \A s \in Requests \ {r} : request'[s] = request[s]
  PROVE  RatingInv'
BY DEF RatingInv, OneFeedbackPerTicket

LEMMA HoldsNoRating ==
  ASSUME TypeOK, NEW r \in Requests, NEW phase, NEW loaded, NEW assigned,
         NEW touches, NEW insert, Holds(r, phase, loaded, assigned, touches, insert)
  PROVE  ~request'[r].rating /\ \A s \in Requests \ {r} : request'[s] = request[s]
BY DEF Holds, TypeOK

LEMMA NextKeepsRatingInv ==
  TypeOK /\ RatingInv /\ OneSubmission /\ [Next]_vars => RatingInv'
<1> SUFFICES ASSUME TypeOK, RatingInv, OneSubmission, [Next]_vars
             PROVE  RatingInv'
  OBVIOUS
<1>1. CASE UNCHANGED vars
  BY <1>1 DEF vars, RatingInv, OneFeedbackPerTicket
<1>2. ASSUME NEW r \in Requests, NEW assigned, NEW touches, NEW insert,
             Load(r, assigned, touches, insert)
      PROVE  RatingInv'
  BY <1>2, HoldsNoRating, OthersRate DEF Load
<1>3. ASSUME NEW r \in Requests,
             \/ AutoRespond(r) \/ DraftNeedsReview(r) \/ DraftIsGood(r)
             \/ SubmitFeedback(r)
      PROVE  RatingInv'
  BY <1>3, HoldsNoRating, OthersRate
     DEF AutoRespond, DraftNeedsReview, DraftIsGood, SubmitFeedback
<1>4. ASSUME NEW r \in Requests, NoFeedbackYet(r)
      PROVE  RatingInv'
  BY <1>4 DEF NoFeedbackYet, RatingInv, OneFeedbackPerTicket
<1>5. ASSUME NEW r \in Requests, Commit(r)
      PROVE  RatingInv'
  <2>1. /\ ~request'[r].rating
        /\ \A s \in Requests \ {r} : request'[s] = request[s]
    BY <1>5 DEF Commit, Blank, TypeOK
  <2>2. CASE request[r].rating
    <3>1. feedback' = {r}
      BY <1>5, <2>2 DEF Commit, RatingInv
    <3>2. \A s \in Requests \ {r} : ~request[s].rating
      BY <2>2 DEF OneSubmission, Submits
    <3> QED
      BY <2>1, <3>1, <3>2 DEF RatingInv, OneFeedbackPerTicket
  <2>3. CASE ~request[r].rating
    BY <1>5, <2>1, <2>3, OthersRate DEF Commit
  <2> QED
    BY <2>2, <2>3
<1>6. ASSUME NEW r \in Requests,
             DeleteTicket(r) \/ DeleteComments(r) \/ CommitDeletion(r) \/ GiveUp(r)
      PROVE  RatingInv'
  <2>1. /\ request'[r].rating => request[r].rating
        /\ \A s \in Requests \ {r} : request'[s] = request[s]
        /\ feedback' = feedback
    <3>1. CASE DeleteComments(r)
      BY <3>1 DEF DeleteComments, TypeOK, Request
    <3>2. CASE DeleteTicket(r) \/ CommitDeletion(r) \/ GiveUp(r)
      <4>1. \E phase : request' = [request EXCEPT ![r] = Blank(phase)]
        BY <3>2 DEF DeleteTicket, CommitDeletion, GiveUp
      <4>2. ~request'[r].rating /\ \A s \in Requests \ {r} : request'[s] = request[s]
        BY <4>1 DEF Blank, TypeOK
      <4> QED
        BY <3>2, <4>2 DEF DeleteTicket, CommitDeletion, GiveUp
    <3> QED
      BY <1>6, <3>1, <3>2
  <2> QED
    BY <2>1 DEF RatingInv, OneFeedbackPerTicket
<1> QED
  BY <1>1, <1>2, <1>3, <1>4, <1>5, <1>6
     DEF Next, UpdateTicket, UpdateEscalation, AddComment, HandleThreadReply,
         ApproveDraft, RejectDraft

\* Only two submissions that overlap leave a ticket with two ratings: one after
\* the other the lookup keeps them apart, whatever the other handlers commit.
THEOREM OneFeedbackOneByOne == Spec /\ []OneSubmission => []OneFeedbackPerTicket
<1>1. Init => RatingInv
  BY DEF Init, Blank, RatingInv, OneFeedbackPerTicket
<1>2. RatingInv => OneFeedbackPerTicket
  BY DEF RatingInv
<1> QED
  BY <1>1, <1>2, NextKeepsRatingInv, TypeCorrect, PTL DEF Spec

-----------------------------------------------------------------------------
(***************************************************************************)
(* The reports.  A report only reads, so its specification implements the  *)
(* one of TicketLifecycle and everything proved above holds while reports  *)
(* are made.  What a report says stays sound because a stamp is never      *)
(* taken back and a comment goes only with its ticket: the later query     *)
(* sees at least what the earlier one could have seen.                     *)
(***************************************************************************)

\* Of a row the first query has read.
SoundReading(row) ==
  /\ row \in Ticket
  /\ SoundRow(row)
  /\ StampsKept(row, ticket)
  /\ exists /\ report.aided => StaffReplied(PublicReplies) \/ HumanReviewed(row)

ReportInv ==
  /\ report \in Report
  /\ report.phase # "answered" => report.replies = {}
  /\ \A row \in report.rows : SoundReading(row)
  /\ exists /\ StaffReplied(report.replies) => StaffReplied(PublicReplies)
  /\ exists /\ report.phase = "answered" /\ report.aided =>
       \A row \in Resolved(report.rows) :
         StaffReplied(report.replies) \/ HumanReviewed(row)

-----------------------------------------------------------------------------
(* What a step of the handlers leaves alone *)

LEMMA StampsAreKept ==
  ASSUME IInv, [Next]_vars
  PROVE  StampsKept(ticket, ticket')
<1>1. CASE ticket' = ticket
  BY <1>1 DEF StampsKept
<1>2. CASE ticket' # ticket
  <2>1. PICK r \in Requests : Commit(r)
    BY <1>2, OnlyCommitWrites
  <2>2. /\ ticket \in Ticket
        /\ request[r].loaded \in Ticket /\ request[r].assigned \in Ticket
        /\ StampsKept(request[r].loaded, ticket)
        /\ StampsKept(request[r].loaded, request[r].assigned)
    BY DEF IInv, TypeOK, Request, Sound, SoundSession
  <2> QED
    BY <2>1, <2>2, FlushStamps DEF Commit
<1> QED
  BY <1>1, <1>2

LEMMA CommentsStay ==
  ASSUME [Next]_vars, exists'
  PROVE  exists /\ comments \subseteq comments'
BY DEF Next, vars, UpdateTicket, UpdateEscalation, AddComment,
       HandleThreadReply, ApproveDraft, RejectDraft, Load, AutoRespond,
       DraftNeedsReview, DraftIsGood, SubmitFeedback, NoFeedbackYet, GiveUp,
       DeleteTicket, DeleteComments, CommitDeletion, Commit

\* A row that counts as reviewed names its reviewer, and so does the ticket
\* from then on.
LEMMA ReviewedHasReviewer ==
  ASSUME NEW row \in Ticket, SoundRow(row)
  PROVE  HumanReviewed(row) <=> row.reviewed_by
BY DEF HumanReviewed, SoundRow, Ticket

-----------------------------------------------------------------------------

LEMMA InitReportInv == ReportInit => ReportInv
BY DEF ReportInit, ReportInv, NoReport, Report, StaffReplied

LEMMA HandlersKeepReportInv ==
  ASSUME IInv, ReportInv, [Next]_vars, report' = report
  PROVE  ReportInv'
<1>1. StampsKept(ticket, ticket')
  BY StampsAreKept
<1>2. exists' => /\ exists
                 /\ StaffReplied(PublicReplies) => StaffReplied(PublicReplies')
  <2> SUFFICES ASSUME exists'
               PROVE  exists /\ PublicReplies \subseteq PublicReplies'
    BY DEF StaffReplied
  <2> QED
    BY CommentsStay DEF PublicReplies
<1>3. ASSUME NEW row \in report.rows
      PROVE  SoundReading(row)'
  <2>1. SoundReading(row)
    BY DEF ReportInv
  <2> QED
    BY <1>1, <1>2, <2>1 DEF SoundReading, StampsKept
<1> QED
  BY <1>2, <1>3 DEF ReportInv

LEMMA QueriesKeepReportInv ==
  ASSUME IInv, ReportInv, ReadTickets \/ ReadFeedback \/ ReadComments
  PROVE  ReportInv'
<1>1. UNCHANGED vars
  BY DEF ReadTickets, ReadFeedback, ReadComments
<1>2. UNCHANGED <<ticket, exists, comments, PublicReplies>>
  BY <1>1 DEF vars, PublicReplies
<1>3. ~StaffReplied({}) /\ PublicReplies \subseteq Comment
  BY DEF StaffReplied, PublicReplies, IInv, TypeOK
<1>4. CASE ReadTickets
  <2>1. /\ report.phase = "none"
        /\ report' = [report EXCEPT !.phase = "tickets",
                                    !.rows = IF exists THEN {ticket} ELSE {},
                                    !.aided = StaffWorked]
    BY <1>4 DEF ReadTickets
  <2>2. StaffWorked \in BOOLEAN
    BY <1>3 DEF StaffWorked, StaffReplied, HumanReviewed, IInv, TypeOK, Ticket
  <2>3. /\ report' \in Report
        /\ report'.phase = "tickets"
        /\ report'.rows = IF exists THEN {ticket} ELSE {}
        /\ report'.aided = StaffWorked
        /\ report'.replies = {}
    BY <2>1, <2>2 DEF ReportInv, Report, IInv, TypeOK
  <2>4. SoundReading(ticket)'
    BY <1>2, <2>3
    DEF SoundReading, IInv, TypeOK, Sound, StampsKept, StaffWorked
  <2>5. ASSUME NEW row \in report'.rows
        PROVE  SoundReading(row)'
    <3>1. row = ticket /\ ticket' = ticket
      BY <1>2, <2>3
    <3> QED
      BY <2>4, <3>1 DEF SoundReading
  <2>6. ~StaffReplied(report'.replies) /\ report'.phase # "answered"
    BY <1>3, <2>3
  <2> QED
    BY <2>3, <2>5, <2>6 DEF ReportInv
<1>5. CASE ReadFeedback
  <2>1. /\ report' \in Report
        /\ report'.phase = "feedback"
        /\ report'.rows = report.rows
        /\ report'.aided = report.aided
        /\ report'.replies = {}
    BY <1>5 DEF ReadFeedback, ReportInv, Report, IInv, TypeOK
  <2>2. ASSUME NEW row \in report.rows
        PROVE  SoundReading(row)'
    BY <1>2, <2>1 DEF ReportInv, SoundReading
  <2> QED
    BY <1>3, <2>1, <2>2 DEF ReportInv
<1>6. CASE ReadComments
  <2> DEFINE asked == Resolved(report.rows) # {}
  <2>1. report'.replies = IF asked THEN PublicReplies ELSE {}
    BY <1>6 DEF ReadComments, ReportInv, Report
  <2>2. /\ report' \in Report
        /\ report'.phase = "answered"
        /\ report'.rows = report.rows
        /\ report'.aided = report.aided
    BY <1>3, <1>6 DEF ReadComments, ReportInv, Report
  <2>3. ASSUME NEW row \in report.rows
        PROVE  SoundReading(row)'
    BY <1>2, <2>2 DEF ReportInv, SoundReading
  <2>4. exists /\ report.aided =>
          \A row \in Resolved(report.rows) :
            StaffReplied(PublicReplies) \/ HumanReviewed(row)
    BY DEF ReportInv, SoundReading, Resolved
  <2>5. StaffReplied(report'.replies) => StaffReplied(PublicReplies)
    BY <1>3, <2>1
  <2> QED
    BY <1>2, <2>1, <2>2, <2>3, <2>4, <2>5 DEF ReportInv
<1> QED
  BY <1>4, <1>5, <1>6

\* The reports add nothing to what the handlers do.
LEMMA ReportStepIsTicketStep == [ReportNext]_reportVars => [Next]_vars
BY DEF ReportNext, reportVars, ReadTickets, ReadFeedback, ReadComments

\* So every theorem above holds while reports are made.
LEMMA ReportSpecIsSpec == ReportSpec => Spec
<1>1. ReportInit => Init
  BY DEF ReportInit
<1> QED
  BY <1>1, ReportStepIsTicketStep, PTL DEF ReportSpec, Spec

LEMMA ReportInvariance == ReportSpec => []ReportInv
<1>1. IInv /\ ReportInv /\ [ReportNext]_reportVars => ReportInv'
  <2> SUFFICES ASSUME IInv, ReportInv, [ReportNext]_reportVars
               PROVE  ReportInv'
    OBVIOUS
  <2>1. CASE ReadTickets \/ ReadFeedback \/ ReadComments
    BY <2>1, QueriesKeepReportInv
  <2>2. CASE [Next]_vars /\ report' = report
    BY <2>2, HandlersKeepReportInv
  <2> QED
    BY <2>1, <2>2 DEF ReportNext, reportVars
<1> QED
  BY <1>1, InitReportInv, ReportSpecIsSpec, Invariance, PTL DEF ReportSpec

\* A report calls a ticket deflected, or not, as it deserves, and its numbers
\* agree, although its queries see different moments.
THEOREM ReportAlwaysSound == ReportSpec => []ReportIsSound
<1>1. IInv /\ ReportInv => ReportIsSound
  <2> SUFFICES ASSUME IInv, ReportInv PROVE ReportIsSound
    OBVIOUS
  <2>1. ASSUME report.phase = "answered", exists,
               NEW row \in Resolved(report.rows)
        PROVE  IF row \in Deflected(report.rows, report.replies)
               THEN ~report.aided
               ELSE StaffWorked
    <3>1. row \in report.rows /\ SoundReading(row)
      BY DEF Resolved, ReportInv
    <3>2. CASE row \in Deflected(report.rows, report.replies)
      BY <2>1, <3>2 DEF Deflected, ReportInv
    <3>3. CASE row \notin Deflected(report.rows, report.replies)
      <4>1. StaffReplied(report.replies) \/ HumanReviewed(row)
        BY <3>3 DEF Deflected
      <4>2. HumanReviewed(row) => HumanReviewed(ticket)
        BY <3>1, ReviewedHasReviewer
        DEF SoundReading, StampsKept, IInv, TypeOK, Sound
      <4> QED
        BY <2>1, <3>3, <4>1, <4>2 DEF ReportInv, StaffWorked
    <3> QED
      BY <3>2, <3>3
  <2>2. \A row \in report.rows : row.status \in Finished => row.resolved_at
    BY DEF ReportInv, SoundReading, SoundRow
  <2>3. NumbersAgree
    BY <2>2 DEF NumbersAgree, Open, Resolved, Workload
  <2> QED
    BY <2>1, <2>3 DEF ReportIsSound, DeflectionIsFair
<1> QED
  BY <1>1, ReportInvariance, ReportSpecIsSpec, Invariance, PTL
=============================================================================
