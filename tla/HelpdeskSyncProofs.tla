-------------------------- MODULE HelpdeskSyncProofs --------------------------
(***************************************************************************)
(* Proofs about HelpdeskSync, for any requests of any kinds.  The          *)
(* invariant says of each call in progress what it will write when it is   *)
(* answered: a remote ticket that the helpdesk has, and of a version that  *)
(* is not older than the commit the call stands for; or, of an approved    *)
(* draft, one without content.                                             *)
(***************************************************************************)
EXTENDS HelpdeskSync, TLAPS

\* The commit that a request stands for is in the row it will read.
OwnCommitted == \A r \in Requests : request[r].own <= ticket

InCall(r) == At(r, "calling") \/ At(r, "taken")

HasTicket(id) == \E t \in posted : t.id = id

\* A comment on its way goes to a ticket that the helpdesk has.
CommentsAddressed ==
  \A r \in Requests :
    InCall(r) /\ Kind[r] = "comment" =>
      request[r].link # None /\ HasTicket(request[r].link)

\* A version on its way is the one committed, or a newer one.
VersionsCurrent ==
  \A r \in Requests :
    InCall(r) /\ Kind[r] \in {"create", "update"} =>
      request[r].sent >= request[r].own

\* An approved draft on its way is a ticket without content, for HubSpot.
ApprovalsEmpty ==
  \A r \in Requests :
    InCall(r) /\ Kind[r] = "approve" =>
      provider = "hubspot" /\ request[r].sent = 0

NotesAreComments == \A n \in notes : Kind[n.comment] = "comment"

\* What the helpdesk has done, and the request does not know yet.
CallsTaken ==
  \A r \in Requests : At(r, "taken") =>
    IF Kind[r] = "comment"
    THEN [id |-> request[r].link, comment |-> r] \in notes
    ELSE [id |-> NewId(r), version |-> request[r].sent] \in posted

\* The outcome of a request is its last step.
AuditedLast == \A r \in Requests : audit[r] # "none" => At(r, "done")

IInv ==
  /\ TypeOK
  /\ LinkExists
  /\ OwnCommitted
  /\ CommentsAddressed
  /\ VersionsCurrent
  /\ ApprovalsEmpty
  /\ NotesAreComments
  /\ CallsTaken
  /\ AuditedLast
  /\ SyncedMeansTaken

LEMMA InitIInv == Init => IInv
BY HelpdeskAssumption
   DEF Init, IInv, TypeOK, Request, Phase, LinkExists, OwnCommitted,
       CommentsAddressed, VersionsCurrent, ApprovalsEmpty, NotesAreComments,
       CallsTaken, AuditedLast, SyncedMeansTaken, InCall, At

-----------------------------------------------------------------------------

\* What a request is after a step that moves it to another phase.
LEMMA EntersPhase ==
  ASSUME TypeOK, NEW r \in Requests, NEW phase \in Phase, Enters(r, phase)
  PROVE  /\ request' \in [Requests -> Request]
         /\ request'[r] = [request[r] EXCEPT !.phase = phase]
         /\ \A q \in Requests \ {r} : request'[q] = request[q]
<1>1. request[r] \in Request
  BY DEF TypeOK
<1>2. [request[r] EXCEPT !.phase = phase] \in Request
  BY <1>1 DEF Request
<1> QED
  BY <1>1, <1>2 DEF TypeOK, Enters

\* A request that ends without a result, or with one other than "synced",
\* disturbs nothing.
LEMMA EndStep ==
  ASSUME IInv, NEW r \in Requests, NEW phase \in {"done", "gone"},
         Enters(r, phase), ~At(r, "done"),
         \/ UNCHANGED audit
         \/ \E status \in {"failed", "skipped"} :
              phase = "done" /\ audit' = [audit EXCEPT ![r] = status],
         UNCHANGED <<provider, ticket, link, posted, notes>>
  PROVE  IInv'
<1>1. phase \in Phase
  BY DEF Phase
<1>2. /\ request' \in [Requests -> Request]
      /\ request'[r] = [request[r] EXCEPT !.phase = phase]
      /\ \A q \in Requests \ {r} : request'[q] = request[q]
  BY <1>1, EntersPhase DEF IInv
<1>3. request[r] \in Request
  BY DEF IInv, TypeOK
<1>4. /\ audit' \in [Requests -> {"none", "synced", "failed", "skipped"}]
      /\ \A q \in Requests : audit'[q] = "synced" => audit[q] = "synced"
  BY DEF IInv, TypeOK
<1>5. \A q \in Requests :
        /\ request'[q].own = request[q].own /\ request'[q].sent = request[q].sent
        /\ request'[q].link = request[q].link
  BY <1>2, <1>3 DEF Request
<1>6. ~At(r, "calling")' /\ ~At(r, "taken")'
  BY <1>2, <1>3 DEF At, Request
<1>7. \A q \in Requests \ {r} : \A p \in Phase : At(q, p)' <=> At(q, p)
  BY <1>2 DEF At
<1>8. TypeOK' /\ LinkExists' /\ OwnCommitted'
  BY <1>2, <1>4, <1>5 DEF IInv, TypeOK, LinkExists, OwnCommitted
<1>9. CommentsAddressed' /\ VersionsCurrent' /\ CallsTaken' /\ ApprovalsEmpty'
  BY <1>5, <1>6, <1>7
     DEF IInv, CommentsAddressed, VersionsCurrent, CallsTaken, ApprovalsEmpty,
         InCall, HasTicket, NewId, Phase
<1>10. SyncedMeansTaken' /\ NotesAreComments'
  BY <1>4, <1>5 DEF IInv, SyncedMeansTaken, NotesAreComments, NewId
<1>11. AuditedLast'
  BY <1>1, <1>2, <1>3, <1>7 DEF IInv, TypeOK, AuditedLast, At, Request, Phase
<1> QED
  BY <1>8, <1>9, <1>10, <1>11 DEF IInv

-----------------------------------------------------------------------------

LEMMA CommitChangeStep ==
  ASSUME IInv, NEW r \in Requests, CommitChange(r)
  PROVE  IInv'
<1>1. request[r] \in Request /\ ticket \in Nat
  BY DEF IInv, TypeOK
<1>2. ticket' \in Nat /\ ticket' >= ticket
  BY <1>1 DEF CommitChange
<1>3. [request[r] EXCEPT !.phase = "committed", !.own = ticket'] \in Request
  BY <1>1, <1>2 DEF Request, Phase
<1>4. /\ request' \in [Requests -> Request]
      /\ request'[r] = [request[r] EXCEPT !.phase = "committed", !.own = ticket']
      /\ \A q \in Requests \ {r} : request'[q] = request[q]
  BY <1>3 DEF IInv, TypeOK, CommitChange
<1>5. ~InCall(r)' /\ audit[r] = audit'[r]
  BY <1>1, <1>4 DEF InCall, At, Request, CommitChange
<1>6. TypeOK' /\ LinkExists'
  BY <1>2, <1>4 DEF IInv, TypeOK, LinkExists, CommitChange
<1>7. OwnCommitted'
  <2>1. request'[r].own = ticket'
    BY <1>1, <1>4 DEF Request
  <2>2. ASSUME NEW q \in Requests \ {r}
        PROVE  request'[q].own <= ticket'
    BY <1>1, <1>2, <1>4, <2>2 DEF IInv, OwnCommitted, TypeOK, Request
  <2> QED
    BY <1>2, <2>1, <2>2 DEF OwnCommitted
<1>8. CommentsAddressed' /\ VersionsCurrent' /\ CallsTaken' /\ ApprovalsEmpty'
  BY <1>4, <1>5
     DEF IInv, CommentsAddressed, VersionsCurrent, CallsTaken, ApprovalsEmpty,
         InCall, HasTicket, At, NewId, CommitChange
<1>9. audit[r] = "none"
  BY DEF IInv, AuditedLast, At, CommitChange
<1>10. SyncedMeansTaken' /\ NotesAreComments'
  BY <1>4, <1>9 DEF IInv, SyncedMeansTaken, NotesAreComments, NewId, CommitChange
<1>11. AuditedLast'
  BY <1>4, <1>9 DEF IInv, AuditedLast, At, CommitChange
<1> QED
  BY <1>6, <1>7, <1>8, <1>10, <1>11 DEF IInv

LEMMA CallStep ==
  ASSUME IInv, NEW r \in Requests, Call(r)
  PROVE  IInv'
<1>1. request[r] \in Request /\ ticket \in Nat
  BY DEF IInv, TypeOK
<1>2. Payload(r) \in Nat /\ (Kind[r] \in {"create", "update"} => Payload(r) = ticket)
  BY <1>1 DEF Payload
<1>3. [request[r] EXCEPT !.phase = "calling", !.sent = Payload(r), !.link = link]
        \in Request
  BY <1>1, <1>2 DEF IInv, TypeOK, Request, Phase
<1>4. /\ request' \in [Requests -> Request]
      /\ request'[r] = [request[r] EXCEPT !.phase = "calling",
                                         !.sent = Payload(r), !.link = link]
      /\ \A q \in Requests \ {r} : request'[q] = request[q]
  BY <1>3 DEF IInv, TypeOK, Call
<1>5. /\ request'[r].phase = "calling" /\ request'[r].sent = Payload(r)
      /\ request'[r].link = link /\ request'[r].own = request[r].own
  BY <1>1, <1>4 DEF Request
<1>6. TypeOK' /\ LinkExists' /\ OwnCommitted'
  BY <1>4, <1>5 DEF IInv, TypeOK, LinkExists, OwnCommitted, Call
<1>7. CommentsAddressed'
  BY <1>4, <1>5
     DEF IInv, CommentsAddressed, LinkExists, InCall, HasTicket, At, Unlinked, Call
<1>8. VersionsCurrent'
  <2>1. Kind[r] \in {"create", "update"} => request'[r].sent >= request'[r].own
    BY <1>1, <1>2, <1>5 DEF IInv, OwnCommitted, Request
  <2> QED
    BY <1>4, <2>1 DEF IInv, VersionsCurrent, InCall, At
<1>9. CallsTaken' /\ NotesAreComments'
  BY <1>4, <1>5 DEF IInv, CallsTaken, NotesAreComments, At, NewId, Call
<1>10. ApprovalsEmpty'
  <2>1. Kind[r] = "approve" => provider = "hubspot" /\ request'[r].sent = 0
    BY <1>5 DEF Call, Refused, Payload
  <2> QED
    BY <1>4, <2>1 DEF IInv, ApprovalsEmpty, InCall, At, Call
<1>11. audit[r] = "none"
  BY DEF IInv, AuditedLast, At, Call
<1>12. AuditedLast' /\ SyncedMeansTaken'
  BY <1>4, <1>11 DEF IInv, AuditedLast, SyncedMeansTaken, At, NewId, Call
<1> QED
  BY <1>6, <1>7, <1>8, <1>9, <1>10, <1>12 DEF IInv

LEMMA TakeStep ==
  ASSUME IInv, NEW r \in Requests, Take(r)
  PROVE  IInv'
<1>1. request[r] \in Request /\ "taken" \in Phase
  BY DEF IInv, TypeOK, Phase
<1>2. /\ request' \in [Requests -> Request]
      /\ request'[r] = [request[r] EXCEPT !.phase = "taken"]
      /\ \A q \in Requests \ {r} : request'[q] = request[q]
  BY <1>1, EntersPhase DEF IInv, Take
<1>3. \A q \in Requests :
        /\ request'[q].own = request[q].own /\ request'[q].sent = request[q].sent
        /\ request'[q].link = request[q].link
        /\ InCall(q)' => InCall(q)
  BY <1>1, <1>2 DEF Request, InCall, At, Take
<1>4. /\ Kind[r] = "comment" => request[r].link \in Remote
      /\ NewId(r) \in Remote /\ request[r].sent \in Nat
  BY <1>1 DEF IInv, CommentsAddressed, InCall, Take, NewId, Remote, Request
<1>5. /\ posted \subseteq posted' /\ notes \subseteq notes'
      /\ posted' \subseteq [id : Remote, version : Nat]
      /\ notes' \subseteq [id : Remote, comment : Requests]
  BY <1>4 DEF IInv, TypeOK, Take
<1>6. TypeOK'
  BY <1>2, <1>5 DEF IInv, TypeOK, Take
<1>7. LinkExists' /\ OwnCommitted'
  BY <1>3, <1>5 DEF IInv, LinkExists, OwnCommitted, Take
<1>8. CommentsAddressed' /\ VersionsCurrent' /\ ApprovalsEmpty'
  BY <1>3, <1>5
     DEF IInv, CommentsAddressed, VersionsCurrent, ApprovalsEmpty, HasTicket, Take
<1>9. CallsTaken'
  BY <1>2, <1>3, <1>5 DEF IInv, CallsTaken, At, NewId, Take
<1>10. audit[r] = "none"
  BY DEF IInv, AuditedLast, At, Take
<1>11. AuditedLast'
  BY <1>2, <1>10 DEF IInv, AuditedLast, At, Take
<1>12. SyncedMeansTaken'
  <2>1. audit' = audit /\ provider' = provider
    BY DEF Take
  <2>2. \A n \in notes' \ notes : n.comment = r
    BY DEF Take
  <2> QED
    BY <1>3, <1>5, <1>10, <2>1, <2>2 DEF IInv, SyncedMeansTaken, NewId
<1>13. NotesAreComments'
  BY DEF IInv, NotesAreComments, Take
<1> QED
  BY <1>6, <1>7, <1>8, <1>9, <1>11, <1>12, <1>13 DEF IInv

\* The request learns what the helpdesk has done, and the row keeps it.
LEMMA FinishStep ==
  ASSUME IInv, NEW r \in Requests, Finish(r)
  PROVE  IInv' /\ link' # None
<1>1. request[r] \in Request /\ "done" \in Phase
  BY DEF IInv, TypeOK, Phase
<1>2. /\ request' \in [Requests -> Request]
      /\ request'[r] = [request[r] EXCEPT !.phase = "done"]
      /\ \A q \in Requests \ {r} : request'[q] = request[q]
  BY <1>1, EntersPhase DEF IInv, Finish, Records
<1>3. \A q \in Requests :
        /\ request'[q].own = request[q].own /\ request'[q].sent = request[q].sent
        /\ request'[q].link = request[q].link
  BY <1>1, <1>2 DEF Request
<1>4. link' \in Remote /\ HasTicket(link')
  <2>1. CASE Kind[r] = "comment"
    BY <1>1, <2>1 DEF IInv, CommentsAddressed, InCall, Finish, LinkAfter, Request
  <2>2. CASE Kind[r] # "comment"
    BY <2>2 DEF IInv, CallsTaken, Finish, LinkAfter, HasTicket, NewId, Remote
  <2> QED
    BY <2>1, <2>2
<1>5. link' # None
  BY <1>4, HelpdeskAssumption DEF Remote
<1>6. /\ audit' \in [Requests -> {"none", "synced", "failed", "skipped"}]
      /\ \A q \in Requests \ {r} : audit'[q] = audit[q]
  BY DEF IInv, TypeOK, Finish, Records
<1>7. TypeOK' /\ LinkExists' /\ OwnCommitted'
  BY <1>2, <1>3, <1>4, <1>6
     DEF IInv, TypeOK, LinkExists, OwnCommitted, HasTicket, Finish
<1>8. ~At(r, "taken")' /\ ~InCall(r)' /\ At(r, "done")'
  BY <1>1, <1>2 DEF At, InCall, Request
<1>9. CommentsAddressed' /\ VersionsCurrent' /\ CallsTaken'
  BY <1>2, <1>8
     DEF IInv, CommentsAddressed, VersionsCurrent, CallsTaken, InCall, HasTicket,
         At, NewId, Finish
<1>10. AuditedLast'
  BY <1>2, <1>6, <1>8 DEF IInv, AuditedLast, At
<1>11. SyncedMeansTaken'
  <2>1. CASE Kind[r] = "comment"
    <3>1. /\ [id |-> request[r].link, comment |-> r] \in notes
          /\ HasTicket(request[r].link)
      BY <2>1 DEF IInv, CommentsAddressed, CallsTaken, InCall, Finish
    <3>2. \E n \in notes : n.comment = r /\ \E t \in posted : t.id = n.id
      BY <3>1 DEF HasTicket
    <3> QED
      BY <1>3, <1>6, <2>1, <3>2 DEF IInv, SyncedMeansTaken, NewId, Finish
  <2>2. CASE Kind[r] \in {"create", "update"}
    <3>1. /\ [id |-> NewId(r), version |-> request[r].sent] \in posted
          /\ request[r].sent >= request[r].own
      BY <2>2 DEF IInv, CallsTaken, VersionsCurrent, InCall, Finish
    <3> QED
      BY <1>3, <1>6, <2>2, <3>1 DEF IInv, SyncedMeansTaken, NewId, Finish
  <2>3. CASE Kind[r] = "approve"
    <3>1. provider = "hubspot" /\ [id |-> NewId(r), version |-> 0] \in posted
      BY <2>3 DEF IInv, ApprovalsEmpty, CallsTaken, InCall, Finish
    <3>2. ~ \E n \in notes : n.comment = r
      BY <2>3 DEF IInv, NotesAreComments
    <3> QED
      BY <1>3, <1>6, <2>3, <3>1, <3>2 DEF IInv, SyncedMeansTaken, NewId, Finish
  <2> QED
    BY <2>1, <2>2, <2>3, HelpdeskAssumption
<1>12. ApprovalsEmpty' /\ NotesAreComments'
  BY <1>2, <1>8
     DEF IInv, ApprovalsEmpty, NotesAreComments, InCall, At, Finish
<1> QED
  BY <1>5, <1>7, <1>9, <1>10, <1>11, <1>12 DEF IInv

-----------------------------------------------------------------------------

LEMMA QuietStep ==
  ASSUME IInv, NEW r \in Requests,
         AddInternalNote(r) \/ Skip(r) \/ NoTicketId(r) \/ CallFails(r) \/ Die(r)
  PROVE  IInv'
<1>1. PICK phase \in {"done", "gone"} :
        /\ Enters(r, phase)
        /\ \/ UNCHANGED audit
           \/ \E status \in {"failed", "skipped"} :
                phase = "done" /\ audit' = [audit EXCEPT ![r] = status]
  BY DEF AddInternalNote, Skip, NoTicketId, CallFails, Die, Records
<1>2. ~At(r, "done") /\ UNCHANGED <<provider, ticket, link, posted, notes>>
  BY DEF AddInternalNote, Skip, NoTicketId, CallFails, Die, At
<1> QED
  BY <1>1, <1>2, EndStep

LEMMA StepIInv == IInv /\ [Next]_vars => IInv'
<1> SUFFICES ASSUME IInv, [Next]_vars
             PROVE  IInv'
  OBVIOUS
<1>1. CASE UNCHANGED vars
  BY <1>1 DEF vars, IInv, TypeOK, LinkExists, OwnCommitted, CommentsAddressed,
              VersionsCurrent, ApprovalsEmpty, NotesAreComments, CallsTaken, AuditedLast, SyncedMeansTaken, InCall,
              HasTicket, At, NewId
<1>2. CASE Next
  BY <1>2, CommitChangeStep, CallStep, TakeStep, FinishStep, QuietStep DEF Next
<1> QED
  BY <1>1, <1>2

LEMMA Invariance == Spec => []IInv
<1> QED
  BY InitIInv, StepIInv, PTL DEF Spec

\* Rows, requests, and what the helpdesk has have their shape.
THEOREM TypeCorrect == Spec => []TypeOK
<1>1. IInv => TypeOK
  BY DEF IInv
<1> QED
  BY <1>1, Invariance, PTL

\* The remote id of the ticket is one that the helpdesk has given, whichever
\* requests overlap and fail.
THEOREM LinkAlwaysExists == Spec => []LinkExists
<1>1. IInv => LinkExists
  BY DEF IInv
<1> QED
  BY <1>1, Invariance, PTL

\* An audit row "synced" of a ticket or a comment is true of what the helpdesk has,
\* and one of an approved draft stands for a ticket without content in HubSpot.
THEOREM SyncedAlwaysMeansTaken == Spec => []SyncedMeansTaken
<1>1. IInv => SyncedMeansTaken
  BY DEF IInv
<1> QED
  BY <1>1, Invariance, PTL

\* A linked ticket stays linked.
THEOREM LinkIsAlwaysKept == Spec => LinkKept
<1>1. IInv /\ [Next]_vars => [link # None => link' # None]_vars
  <2> SUFFICES ASSUME IInv, Next, link # None
               PROVE  link' # None
    OBVIOUS
  <2>1. PICK r \in Requests : Finish(r) \/ UNCHANGED link
    BY DEF Next, CommitChange, AddInternalNote, Skip, NoTicketId, Call, Take,
           CallFails, Die
  <2> QED
    BY <2>1, FinishStep
<1> QED
  BY <1>1, Invariance, PTL DEF Spec, LinkKept
=============================================================================
