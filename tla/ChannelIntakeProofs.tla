-------------------------- MODULE ChannelIntakeProofs --------------------------
(***************************************************************************)
(* Proofs about ChannelIntake, for any messages, replicas and bound, and   *)
(* about the messages that the adapters of IntakeAdapters make.            *)
(*                                                                         *)
(* That threads stay separate rests on rows keeping their message, so what *)
(* a lookup found about it is true at the commit.  That the ledger is kept *)
(* needs more: a single replica, and no two messages with one external id. *)
(***************************************************************************)
EXTENDS IntakeAdapters, FiniteSetTheorems, WellFoundedInduction, TLAPS

USE IntakeAssumption

\* The ticket that was looked up for a reply is there, and is of the same
\* customer, channel and thread.
Fits(t, m) ==
  /\ t.message.customer = m.customer
  /\ t.message.channel = m.channel
  /\ t.message.thread = m.thread

ReplyFits(p) ==
  replica[p].phase = "replying" =>
    \E t \in tickets : t.id = replica[p].ticket.id /\ Fits(t, replica[p].message)

ThreadInv ==
  /\ TypeOK
  /\ ThreadsStaySeparate
  /\ \A p \in Replicas : ReplyFits(p)

-----------------------------------------------------------------------------
(* Type correctness *)

LEMMA InitTypeOK == Init => TypeOK
BY DEF Init, TypeOK, Replica, Idle, Phase

\* A replica that takes a step has a well-formed record afterwards.
LEMMA GoesType ==
  ASSUME TypeOK, NEW p \in Replicas, NEW from, NEW phase \in Phase,
         NEW m \in Messages, NEW t, Goes(p, from, phase, m, t),
         t \in Ticket \/ (t = None /\ phase # "replying")
  PROVE  replica' \in [Replicas -> Replica]
<1>1. [phase |-> phase, message |-> m, ticket |-> t] \in Replica
  BY DEF Replica
<1> QED
  BY <1>1 DEF Goes, TypeOK

\* The message of a busy replica.
LEMMA BusyHasMessage ==
  ASSUME TypeOK, NEW p \in Replicas, replica[p].phase # "idle"
  PROVE  replica[p].message \in Messages
BY DEF TypeOK, Replica

LEMMA IdleType == Idle \in Replica
BY DEF Idle, Replica, Phase

LEMMA NextTypeOK == TypeOK /\ [Next]_vars => TypeOK'
<1> SUFFICES ASSUME TypeOK, [Next]_vars
             PROVE  TypeOK'
  OBVIOUS
<1>1. CASE UNCHANGED vars
  BY <1>1 DEF vars, TypeOK
<1>2. ASSUME NEW p \in Replicas, NEW m \in Messages, NoSuchTicket(p, m)
      PROVE  TypeOK'
  <2>1. replica' \in [Replicas -> Replica]
    BY <1>2, GoesType DEF NoSuchTicket, Phase
  <2> QED
    BY <1>2, <2>1 DEF NoSuchTicket, TypeOK
<1>3. ASSUME NEW p \in Replicas, NEW m \in Messages, DuplicateOfTicket(p, m)
      PROVE  TypeOK'
  BY <1>3, IdleType DEF DuplicateOfTicket, Answers, TypeOK
<1>4. ASSUME NEW p \in Replicas, NoSuchComment(p) \/ OpenOwnTicket(p)
      PROVE  TypeOK'
  <2>1. replica[p].message \in Messages
    BY <1>4, BusyHasMessage DEF NoSuchComment, OpenOwnTicket, Goes
  <2>2. PICK from \in {"unticketed", "new"}, phase \in {"new", "creating"} :
          Goes(p, from, phase, replica[p].message, None)
    BY <1>4 DEF NoSuchComment, OpenOwnTicket
  <2>3. replica' \in [Replicas -> Replica]
    BY <2>1, <2>2, GoesType DEF Phase
  <2> QED
    BY <1>4, <2>3 DEF NoSuchComment, OpenOwnTicket, TypeOK
<1>5. ASSUME NEW p \in Replicas, DuplicateOfComment(p) \/ Respond(p)
      PROVE  TypeOK'
  <2>1. replica[p].message \in Messages
    BY <1>5, BusyHasMessage DEF DuplicateOfComment, Respond, Answers
  <2> QED
    BY <1>5, <2>1, IdleType DEF DuplicateOfComment, Respond, Answers, TypeOK
<1>6. ASSUME NEW p \in Replicas, JoinThread(p)
      PROVE  TypeOK'
  <2>1. replica[p].message \in Messages
    BY <1>6, BusyHasMessage DEF JoinThread, Goes
  <2>2. PICK t \in tickets :
          Goes(p, "new", "replying", replica[p].message, t)
    BY <1>6 DEF JoinThread
  <2>3. t \in Ticket /\ "replying" \in Phase
    BY DEF TypeOK, Phase
  <2>4. replica' \in [Replicas -> Replica]
    BY <2>1, <2>2, <2>3 DEF Goes, Replica, TypeOK
  <2> QED
    BY <1>6, <2>4 DEF JoinThread, TypeOK
<1>7. ASSUME NEW p \in Replicas, CommitReply(p)
      PROVE  TypeOK'
  <2>1. replica[p].message \in Messages /\ replica[p].ticket \in Ticket
    BY <1>7 DEF CommitReply, Goes, TypeOK, Replica
  <2>2. replica' \in [Replicas -> Replica]
    BY <1>7, <2>1, GoesType DEF CommitReply, Phase
  <2>3. RepliedStatus(replica[p].ticket) \in TicketStatus
    BY <2>1 DEF RepliedStatus, Ticket, TicketStatus
  <2>4. serial \in 1..MaxRows /\ serial' = serial + 1
    BY <1>7 DEF CommitReply, TypeOK
  <2>5. /\ tickets' \subseteq Ticket
        /\ \A t \in tickets' : t.id \in 1..serial
    BY <1>7, <2>3, <2>4 DEF CommitReply, TypeOK, Ticket
  <2>6. /\ comments' \subseteq Comment
        /\ \A c \in comments' : c.id \in 1..serial
    BY <1>7, <2>1, <2>4 DEF CommitReply, TypeOK, Ticket, Comment
  <2> QED
    BY <1>7, <2>2, <2>4, <2>5, <2>6 DEF CommitReply, TypeOK
<1>8. ASSUME NEW p \in Replicas, CommitTicket(p)
      PROVE  TypeOK'
  <2>1. replica[p].message \in Messages
    BY <1>8, BusyHasMessage DEF CommitTicket, Goes
  <2>2. replica' \in [Replicas -> Replica]
    BY <1>8, <2>1, GoesType DEF CommitTicket, Phase
  <2>3. serial \in 1..MaxRows /\ serial' = serial + 1
    BY <1>8 DEF CommitTicket, TypeOK
  <2>4. /\ tickets' \subseteq Ticket
        /\ \A t \in tickets' : t.id \in 1..serial
    BY <1>8, <2>1, <2>3 DEF CommitTicket, TypeOK, Ticket, TicketStatus
  <2> QED
    BY <1>8, <2>2, <2>3, <2>4 DEF CommitTicket, TypeOK
<1>9. ASSUME NEW p \in Replicas, Fail(p)
      PROVE  TypeOK'
  BY <1>9, IdleType DEF Fail, TypeOK
<1>10. ASSUME NEW t \in tickets, NEW status \in TicketStatus,
              UpdateTicket(t, status)
       PROVE  TypeOK'
  BY <1>10 DEF UpdateTicket, TypeOK, Ticket
<1> QED
  BY <1>1, <1>2, <1>3, <1>4, <1>5, <1>6, <1>7, <1>8, <1>9, <1>10 DEF Next

\* Rows and requests keep their shape.
THEOREM TypeCorrect == Spec => []TypeOK
BY InitTypeOK, NextTypeOK, PTL DEF Spec

-----------------------------------------------------------------------------
(* Threads *)

\* No step takes away a ticket or changes its id or its message.
LEMMA TicketsKeepTheirMessage ==
  ASSUME TypeOK, [Next]_vars, NEW t \in tickets
  PROVE  \E u \in tickets' : u.id = t.id /\ u.message = t.message
<1>1. CASE UNCHANGED tickets
  BY <1>1
<1>2. ASSUME NEW p \in Replicas, CommitReply(p)
      PROVE  \E u \in tickets' : u.id = t.id /\ u.message = t.message
  <2> DEFINE loaded == replica[p].ticket
             Replied(x) ==
               IF x.id = loaded.id /\ RepliedStatus(loaded) # loaded.status
               THEN [x EXCEPT !.status = RepliedStatus(loaded)]
               ELSE x
  <2>1. Replied(t) \in tickets'
    BY <1>2 DEF CommitReply
  <2>2. Replied(t).id = t.id /\ Replied(t).message = t.message
    BY DEF TypeOK, Ticket
  <2> QED
    BY <2>1, <2>2
<1>3. ASSUME NEW p \in Replicas, CommitTicket(p)
      PROVE  \E u \in tickets' : u.id = t.id /\ u.message = t.message
  BY <1>3 DEF CommitTicket
<1>4. ASSUME NEW x \in tickets, NEW status \in TicketStatus,
             UpdateTicket(x, status)
      PROVE  \E u \in tickets' : u.id = t.id /\ u.message = t.message
  <2>1. CASE t = x
    <3>1. [x EXCEPT !.status = status] \in tickets'
      BY <1>4 DEF UpdateTicket
    <3>2. /\ [x EXCEPT !.status = status].id = x.id
          /\ [x EXCEPT !.status = status].message = x.message
      BY DEF TypeOK, Ticket
    <3> QED
      BY <2>1, <3>1, <3>2
  <2>2. CASE t # x
    BY <1>4, <2>2 DEF UpdateTicket
  <2> QED
    BY <2>1, <2>2
<1> QED
  BY <1>1, <1>2, <1>3, <1>4
  DEF Next, vars, NoSuchTicket, DuplicateOfTicket, NoSuchComment,
      DuplicateOfComment, JoinThread, OpenOwnTicket, Respond, Fail

LEMMA InitThreadInv == Init => ThreadInv
<1> SUFFICES ASSUME Init PROVE ThreadInv
  OBVIOUS
<1>1. TypeOK
  BY InitTypeOK
<1> QED
  BY <1>1 DEF Init, ThreadInv, ThreadsStaySeparate, ReplyFits, Idle

LEMMA NextThreadInv == ThreadInv /\ [Next]_vars => ThreadInv'
<1> SUFFICES ASSUME ThreadInv, [Next]_vars
             PROVE  ThreadInv'
  OBVIOUS
<1>1. TypeOK /\ TypeOK'
  BY NextTypeOK DEF ThreadInv
<1>2. \A t \in tickets : \E u \in tickets' : u.id = t.id /\ u.message = t.message
  BY <1>1, TicketsKeepTheirMessage
\* The comments there are, and a new one that fits its ticket.
<1>3. ASSUME \A c \in comments' \ comments :
               \E t \in tickets : t.id = c.ticket /\ Fits(t, c.message)
      PROVE  ThreadsStaySeparate'
  BY <1>2, <1>3 DEF ThreadInv, ThreadsStaySeparate, Fits
<1>4. ASSUME NEW p \in Replicas, replica'[p] = replica[p]
      PROVE  ReplyFits(p)'
  BY <1>2, <1>4 DEF ThreadInv, ReplyFits, Fits
<1>5. ASSUME NEW p \in Replicas, replica'[p].phase # "replying"
      PROVE  ReplyFits(p)'
  BY <1>5 DEF ReplyFits
\* A step of p that adds no comment and prepares no reply.
<1>6. ASSUME NEW p \in Replicas, replica' = [replica EXCEPT ![p] = replica'[p]],
             replica'[p].phase # "replying", comments' = comments
      PROVE  ThreadInv'
  <2>1. \A q \in Replicas : ReplyFits(q)'
    BY <1>1, <1>4, <1>5, <1>6 DEF TypeOK
  <2> QED
    BY <1>1, <1>3, <1>6, <2>1 DEF ThreadInv
<1>7. ASSUME NEW p \in Replicas, NEW m \in Messages,
             NoSuchTicket(p, m) \/ DuplicateOfTicket(p, m)
      PROVE  ThreadInv'
  BY <1>1, <1>6, <1>7
  DEF NoSuchTicket, DuplicateOfTicket, Goes, Answers, Idle, TypeOK
<1>8. ASSUME NEW p \in Replicas,
             \/ NoSuchComment(p) \/ DuplicateOfComment(p) \/ OpenOwnTicket(p)
             \/ CommitTicket(p) \/ Respond(p) \/ Fail(p)
      PROVE  ThreadInv'
  BY <1>1, <1>6, <1>8
  DEF NoSuchComment, DuplicateOfComment, OpenOwnTicket, CommitTicket, Respond,
      Fail, Goes, Answers, Idle, TypeOK
<1>9. ASSUME NEW p \in Replicas, JoinThread(p)
      PROVE  ThreadInv'
  <2>1. PICK t \in tickets :
          /\ Goes(p, "new", "replying", replica[p].message, t)
          /\ IsNewestOnThread(t, replica[p].message)
          /\ MayJoin(t, replica[p].message)
    BY <1>9 DEF JoinThread
  <2>2. /\ replica'[p].ticket = t /\ replica'[p].message = replica[p].message
        /\ replica' = [replica EXCEPT ![p] = replica'[p]]
    BY <1>1, <2>1 DEF Goes, TypeOK
  <2>3. Fits(t, replica[p].message) /\ t \in tickets'
    BY <1>9, <2>1 DEF JoinThread, IsNewestOnThread, OnThread, MayJoin, Fits
  <2>4. ReplyFits(p)'
    BY <2>2, <2>3 DEF ReplyFits, Fits
  <2>5. \A q \in Replicas : ReplyFits(q)'
    BY <1>1, <1>4, <2>2, <2>4 DEF TypeOK
  <2> QED
    BY <1>1, <1>3, <1>9, <2>5 DEF JoinThread, ThreadInv
<1>10. ASSUME NEW p \in Replicas, CommitReply(p)
       PROVE  ThreadInv'
  <2>1. /\ replica[p].phase = "replying" /\ replica'[p].phase = "recorded"
        /\ replica' = [replica EXCEPT ![p] = replica'[p]]
        /\ comments' = comments \cup
             {[id |-> serial, ticket |-> replica[p].ticket.id,
               message |-> replica[p].message]}
    BY <1>1, <1>10 DEF CommitReply, Goes, TypeOK
  <2>2. ThreadsStaySeparate'
    BY <1>3, <2>1 DEF ThreadInv, ReplyFits
  <2>3. \A q \in Replicas : ReplyFits(q)'
    BY <1>1, <1>4, <1>5, <2>1 DEF TypeOK
  <2> QED
    BY <1>1, <2>2, <2>3 DEF ThreadInv
<1>11. CASE \/ UNCHANGED vars
            \/ \E t \in tickets, status \in TicketStatus : UpdateTicket(t, status)
  <2>1. replica' = replica /\ comments' = comments
    BY <1>11 DEF vars, UpdateTicket
  <2> QED
    BY <1>1, <1>3, <1>4, <2>1 DEF ThreadInv
<1> QED
  BY <1>7, <1>8, <1>9, <1>10, <1>11 DEF Next

\* However many replicas there are, a customer's message never ends up in the
\* conversation of another customer, channel or thread.
THEOREM ThreadsAlwaysStaySeparate == Spec => []ThreadsStaySeparate
<1>1. ThreadInv => ThreadsStaySeparate
  BY DEF ThreadInv
<1> QED
  BY <1>1, InitThreadInv, NextThreadInv, PTL DEF Spec

-----------------------------------------------------------------------------
(* The ledger *)

\* One process serves the webhook.
OneReplica == \A p, q \in Replicas : p = q

\* An external id names one message, over all channels: comments are looked up
\* by external id alone.
UniqueIds ==
  \A m, n \in Identified : m.external_id = n.external_id => m = n

Recorded(m) == \E x \in tickets \cup comments : x.message = m

\* What the steps of a delivery have found out stays true until the commit.
Delivery(p) ==
  LET m == replica[p].message
  IN  /\ replica[p].phase = "unticketed" =>
           m \in Identified /\ \A t \in tickets : t.message # m
      /\ replica[p].phase \in {"new", "replying", "creating"} =>
           (m \in Identified => ~Recorded(m))
      /\ replica[p].phase = "recorded" => Recorded(m)

LedgerInv ==
  /\ TypeOK
  /\ ThreadInv
  /\ \A p \in Replicas : Delivery(p)

\* While every comment has its ticket, a lookup that comes back empty says that
\* there is no comment.
LEMMA NoCommentFound ==
  ASSUME ThreadInv, NEW p \in Replicas, NoSuchComment(p)
  PROVE  \A c \in comments : ~SameComment(c, replica[p].message)
<1>1. \A c \in comments : HasTicket(c)
  BY DEF ThreadInv, ThreadsStaySeparate, HasTicket
<1> QED
  BY <1>1 DEF NoSuchComment

\* Tickets that change their status only are the same entries of the ledger.
LEMMA UpdateKeepsEntries ==
  ASSUME TypeOK, NEW t \in tickets, NEW status \in TicketStatus,
         UpdateTicket(t, status)
  PROVE  /\ Entries' = Entries
         /\ \A m \in Messages : Recorded(m)' <=> Recorded(m)
         /\ replica' = replica /\ answered' = answered
         /\ \A m : (\A u \in tickets : u.message # m)
                   => \A u \in tickets' : u.message # m
<1> DEFINE new == [t EXCEPT !.status = status]
<1>1. new.id = t.id /\ new.message = t.message
  BY DEF TypeOK, Ticket
<1>2. /\ tickets' = (tickets \ {t}) \cup {new} /\ comments' = comments
      /\ replica' = replica /\ answered' = answered
  BY DEF UpdateTicket
<1> HIDE DEF new
<1>3. Entries' = Entries
  BY <1>1, <1>2 DEF Entries
<1> QED
  BY <1>1, <1>2, <1>3 DEF Recorded

\* A committed reply adds one entry and changes no other.
LEMMA ReplyAddsEntry ==
  ASSUME TypeOK, NEW p \in Replicas, CommitReply(p)
  PROVE  /\ Entries' = Entries \cup
              {[row |-> serial, message |-> replica[p].message]}
         /\ \E x \in tickets' \cup comments' : x.message = replica[p].message
<1> DEFINE loaded == replica[p].ticket
           m == replica[p].message
           Replied(t) == IF t.id = loaded.id
                              /\ RepliedStatus(loaded) # loaded.status
                         THEN [t EXCEPT !.status = RepliedStatus(loaded)]
                         ELSE t
           c == [id |-> serial, ticket |-> loaded.id, message |-> m]
<1>1. tickets' = {Replied(t) : t \in tickets} /\ comments' = comments \cup {c}
  BY DEF CommitReply
<1>2. \A t \in tickets : Replied(t).id = t.id /\ Replied(t).message = t.message
  BY DEF TypeOK, Ticket
<1>3. c.id = serial /\ c.message = m
  OBVIOUS
<1>4. c \in comments'
  BY <1>1
<1>5. \E x \in tickets' \cup comments' : x.message = m
  BY <1>3, <1>4
<1> HIDE DEF Replied, c
<1>6. Entries' = Entries \cup {[row |-> serial, message |-> m]}
  BY <1>1, <1>2, <1>3 DEF Entries
<1> QED
  BY <1>5, <1>6

\* So does a committed ticket.
LEMMA TicketAddsEntry ==
  ASSUME TypeOK, NEW p \in Replicas, CommitTicket(p)
  PROVE  /\ Entries' = Entries \cup
              {[row |-> serial, message |-> replica[p].message]}
         /\ \E x \in tickets' \cup comments' : x.message = replica[p].message
<1> DEFINE m == replica[p].message
           t == [id |-> serial, message |-> m, status |-> "open"]
<1>1. tickets' = tickets \cup {t} /\ comments' = comments
  BY DEF CommitTicket
<1>2. t.id = serial /\ t.message = m
  OBVIOUS
<1> HIDE DEF t
<1>3. \E x \in tickets' \cup comments' : x.message = m
  BY <1>1, <1>2
<1>4. Entries' = Entries \cup {[row |-> serial, message |-> m]}
  BY <1>1, <1>2 DEF Entries
<1> QED
  BY <1>3, <1>4

LEMMA InitLedgerInv == Init => LedgerInv
<1> SUFFICES ASSUME Init PROVE LedgerInv
  OBVIOUS
<1>1. TypeOK /\ ThreadInv
  BY InitTypeOK, InitThreadInv
<1> QED
  BY <1>1 DEF Init, LedgerInv, Delivery, Idle

LEMMA NextLedgerInv ==
  ASSUME OneReplica
  PROVE  LedgerInv /\ [Next]_vars => LedgerInv'
<1> SUFFICES ASSUME LedgerInv, [Next]_vars
             PROVE  LedgerInv'
  OBVIOUS
<1>1. TypeOK /\ TypeOK' /\ ThreadInv'
  BY NextTypeOK, NextThreadInv DEF LedgerInv
\* The replica that takes the step is the only one.
<1>2. ASSUME NEW p \in Replicas, Delivery(p)'
      PROVE  LedgerInv'
  BY <1>1, <1>2, OneReplica DEF OneReplica, LedgerInv
<1>3. ASSUME NEW p \in Replicas, replica'[p].phase = "idle"
      PROVE  LedgerInv'
  BY <1>2, <1>3 DEF Delivery
<1>4. ASSUME NEW p \in Replicas, NEW m \in Messages, NoSuchTicket(p, m)
      PROVE  LedgerInv'
  <2>1. /\ replica'[p].message = m /\ tickets' = tickets
        /\ \/ replica'[p].phase = "new" /\ m \notin Identified
           \/ /\ replica'[p].phase = "unticketed" /\ m \in Identified
              /\ \A t \in tickets : ~SameMessage(t, m)
    BY <1>1, <1>4 DEF NoSuchTicket, Goes, Identified, TypeOK
  <2>2. Delivery(p)'
    BY <2>1 DEF Delivery, SameMessage, Identified
  <2> QED
    BY <1>2, <2>2
<1>5. ASSUME NEW p \in Replicas,
             \/ \E m \in Messages : DuplicateOfTicket(p, m)
             \/ DuplicateOfComment(p) \/ Respond(p) \/ Fail(p)
      PROVE  LedgerInv'
  <2>1. replica'[p].phase = "idle"
    BY <1>1, <1>5
    DEF DuplicateOfTicket, DuplicateOfComment, Respond, Fail, Answers, Idle,
        TypeOK
  <2> QED
    BY <1>3, <2>1
<1>6. ASSUME NEW p \in Replicas, NoSuchComment(p)
      PROVE  LedgerInv'
  <2> DEFINE m == replica[p].message
  <2>1. /\ replica[p].phase = "unticketed" /\ replica'[p].phase = "new"
        /\ replica'[p].message = m /\ tickets' = tickets /\ comments' = comments
    BY <1>1, <1>6 DEF NoSuchComment, Goes, TypeOK
  <2>2. \A c \in comments : ~SameComment(c, m)
    BY <1>6, NoCommentFound DEF LedgerInv
  <2>3. \A x \in tickets' \cup comments' : x.message # m
    BY <2>1, <2>2 DEF LedgerInv, Delivery, SameComment
  <2>4. Delivery(p)'
    BY <2>1, <2>3 DEF Delivery, Recorded
  <2> QED
    BY <1>2, <2>4
<1>7. ASSUME NEW p \in Replicas, JoinThread(p) \/ OpenOwnTicket(p)
      PROVE  LedgerInv'
  <2> DEFINE m == replica[p].message
  <2>1. /\ replica[p].phase = "new" /\ replica'[p].phase \in {"replying", "creating"}
        /\ replica'[p].message = m /\ tickets' = tickets /\ comments' = comments
    BY <1>1, <1>7 DEF JoinThread, OpenOwnTicket, Goes, TypeOK
  <2>2. m \in Identified => \A x \in tickets' \cup comments' : x.message # m
    BY <2>1 DEF LedgerInv, Delivery, Recorded
  <2>3. Delivery(p)'
    BY <2>1, <2>2 DEF Delivery, Recorded, Identified
  <2> QED
    BY <1>2, <2>3
<1>8. ASSUME NEW p \in Replicas, CommitReply(p) \/ CommitTicket(p)
      PROVE  LedgerInv'
  <2> DEFINE m == replica[p].message
  <2>1. replica'[p].phase = "recorded" /\ replica'[p].message = m
    BY <1>1, <1>8 DEF CommitReply, CommitTicket, Goes, TypeOK
  <2>2. \E x \in tickets' \cup comments' : x.message = m
    BY <1>1, <1>8, ReplyAddsEntry, TicketAddsEntry
  <2>3. Delivery(p)'
    BY <2>1, <2>2 DEF Delivery, Recorded
  <2> QED
    BY <1>2, <2>3
<1>9. ASSUME NEW t \in tickets, NEW status \in TicketStatus,
             UpdateTicket(t, status)
      PROVE  LedgerInv'
  <2>1. /\ \A m \in Messages : Recorded(m)' <=> Recorded(m)
        /\ replica' = replica
        /\ \A m : (\A u \in tickets : u.message # m)
                  => \A u \in tickets' : u.message # m
    BY <1>1, <1>9, UpdateKeepsEntries
  <2>2. ASSUME NEW p \in Replicas PROVE Delivery(p)'
    <3>1. CASE replica[p].phase = "idle"
      BY <2>1, <3>1 DEF Delivery
    <3>2. CASE replica[p].phase # "idle"
      <4>1. PICK m \in Messages : m = replica[p].message
        BY <1>1, <3>2, BusyHasMessage
      <4> QED
        BY <2>1, <4>1 DEF LedgerInv, Delivery, Recorded, Identified
    <3> QED
      BY <3>1, <3>2
  <2> QED
    BY <1>1, <2>2 DEF LedgerInv
<1>10. CASE UNCHANGED vars
  BY <1>1, <1>10 DEF vars, LedgerInv, Delivery, Recorded, Identified
<1> QED
  BY <1>4, <1>5, <1>6, <1>7, <1>8, <1>9, <1>10 DEF Next

LEMMA LedgerInvariance ==
  ASSUME OneReplica
  PROVE  Spec => []LedgerInv
BY InitLedgerInv, NextLedgerInv, PTL DEF Spec

\* A message that is recorded is an entry of the ledger.
LEMMA RecordedIsEntry ==
  ASSUME NEW m, Recorded(m)
  PROVE  Ledger!Recorded(m)
<1>1. PICK x \in tickets \cup comments : x.message = m
  BY DEF Recorded
<1>2. [row |-> x.id, message |-> x.message] \in Entries
  BY DEF Entries
<1> QED
  BY <1>1, <1>2 DEF Ledger!Recorded

\* A message that is found by its external id is the message itself.
LEMMA FoundIsRecorded ==
  ASSUME UniqueIds, TypeOK, NEW m \in Identified,
         \/ \E t \in tickets : SameMessage(t, m)
         \/ \E c \in comments : SameComment(c, m)
  PROVE  Recorded(m)
<1>1. PICK x \in tickets \cup comments :
        x.message.external_id = m.external_id
  BY DEF SameMessage, SameComment
<1>2. x.message \in Identified
  BY <1>1 DEF TypeOK, Ticket, Comment, Identified
<1>3. x.message = m
  BY <1>1, <1>2 DEF UniqueIds
<1> QED
  BY <1>3 DEF Recorded

LEMMA RowsAreFresh ==
  ASSUME TypeOK, NEW e \in Entries
  PROVE  e.row # serial
BY DEF TypeOK, Entries, Ticket, Comment

LEMMA NextRefinesLedger ==
  ASSUME UniqueIds
  PROVE  LedgerInv /\ [Next]_vars => [Ledger!Next]_(Ledger!vars)
<1> SUFFICES ASSUME LedgerInv, [Next]_vars
             PROVE  Ledger!Next \/ Ledger!vars' = Ledger!vars
  OBVIOUS
<1>1. TypeOK
  BY DEF LedgerInv
\* An answer.
<1>2. ASSUME NEW m \in Messages, Recorded(m), tickets' = tickets,
             comments' = comments, answered' = answered \cup {m}
      PROVE  Ledger!Next
  <2>1. Ledger!Recorded(m)
    BY <1>2, RecordedIsEntry
  <2>2. Entries' = Entries
    BY <1>2 DEF Entries
  <2>3. Ledger!Answer(m)
    BY <1>2, <2>1, <2>2 DEF Ledger!Answer
  <2> QED
    BY <2>3 DEF Ledger!Next
\* A commit that records a message.
<1>3. ASSUME NEW m \in Messages, m \in Identified => ~Recorded(m),
             serial \in 1..MaxRows, answered' = answered,
             Entries' = Entries \cup {[row |-> serial, message |-> m]}
      PROVE  Ledger!Next
  <2>1. m \in Identified => ~Ledger!Recorded(m)
    BY <1>3 DEF Ledger!Recorded, Recorded, Entries
  <2>2. \A e \in Entries : e.row # serial
    BY <1>1, RowsAreFresh
  <2>3. Ledger!Record(m, serial)
    BY <1>3, <2>1, <2>2 DEF Ledger!Record
  <2> QED
    BY <1>3, <2>3 DEF Ledger!Next
\* A step that the ledger does not see.
<1>4. ASSUME tickets' = tickets, comments' = comments, answered' = answered
      PROVE  Ledger!vars' = Ledger!vars
  BY <1>4 DEF Ledger!vars, Entries
<1>5. CASE \/ UNCHANGED vars
           \/ \E p \in Replicas :
                \/ \E m \in Messages : NoSuchTicket(p, m)
                \/ NoSuchComment(p) \/ JoinThread(p) \/ OpenOwnTicket(p) \/ Fail(p)
  BY <1>4, <1>5
  DEF vars, NoSuchTicket, NoSuchComment, JoinThread, OpenOwnTicket, Fail
<1>6. ASSUME NEW p \in Replicas, NEW m \in Messages, DuplicateOfTicket(p, m)
      PROVE  Ledger!Next
  <2>1. Recorded(m)
    BY <1>1, <1>6, FoundIsRecorded DEF DuplicateOfTicket, Identified
  <2> QED
    BY <1>2, <1>6, <2>1 DEF DuplicateOfTicket, Answers
<1>7. ASSUME NEW p \in Replicas, DuplicateOfComment(p)
      PROVE  Ledger!Next
  <2>1. replica[p].message \in Identified
    BY <1>7 DEF DuplicateOfComment, Answers, LedgerInv, Delivery
  <2>2. Recorded(replica[p].message)
    BY <1>1, <1>7, <2>1, FoundIsRecorded DEF DuplicateOfComment
  <2> QED
    BY <1>2, <1>7, <2>1, <2>2 DEF DuplicateOfComment, Answers, Identified
<1>8. ASSUME NEW p \in Replicas, Respond(p)
      PROVE  Ledger!Next
  <2>1. replica[p].message \in Messages
    BY <1>1, <1>8, BusyHasMessage DEF Respond, Answers
  <2>2. Recorded(replica[p].message)
    BY <1>8 DEF Respond, Answers, LedgerInv, Delivery
  <2> QED
    BY <1>2, <1>8, <2>1, <2>2 DEF Respond, Answers
<1>9. ASSUME NEW p \in Replicas, CommitReply(p) \/ CommitTicket(p)
      PROVE  Ledger!Next
  <2>1. /\ replica[p].phase \in {"replying", "creating"}
        /\ serial \in 1..MaxRows /\ answered' = answered
    BY <1>1, <1>9 DEF CommitReply, CommitTicket, Goes, TypeOK
  <2>2. replica[p].message \in Messages
    BY <1>1, <2>1, BusyHasMessage
  <2>3. replica[p].message \in Identified => ~Recorded(replica[p].message)
    BY <2>1 DEF LedgerInv, Delivery
  <2>4. Entries' = Entries \cup
          {[row |-> serial, message |-> replica[p].message]}
    BY <1>1, <1>9, ReplyAddsEntry, TicketAddsEntry
  <2>5. PICK m \in Messages : m = replica[p].message
    BY <2>2
  <2> QED
    BY <1>3, <2>1, <2>3, <2>4, <2>5
<1>10. ASSUME NEW t \in tickets, NEW status \in TicketStatus,
              UpdateTicket(t, status)
       PROVE  Ledger!vars' = Ledger!vars
  <2>1. Entries' = Entries /\ answered' = answered
    BY <1>1, <1>10, UpdateKeepsEntries
  <2> QED
    BY <2>1 DEF Ledger!vars
<1> QED
  BY <1>5, <1>6, <1>7, <1>8, <1>9, <1>10 DEF Next

\* With one process and external ids that are unique over the channels, every
\* identified message is recorded at most once, whatever fails and however
\* often it is delivered, and is answered only when recorded.
THEOREM IntakeKeepsLedger ==
  ASSUME OneReplica, UniqueIds
  PROVE  Spec => KeepsLedger
<1>1. Init => Ledger!Init
  BY DEF Init, Ledger!Init, Entries
<1> QED
  BY <1>1, NextRefinesLedger, LedgerInvariance, PTL
  DEF Spec, KeepsLedger, Ledger!Spec

-----------------------------------------------------------------------------
(* The rows *)

Rows == tickets \cup comments

\* A row id names one row, and so does a message that can be identified.
UniqueRows ==
  \A x, y \in Rows :
    \/ x.id = y.id
    \/ x.message = y.message /\ x.message \in Identified
    => x = y

RowsInv == LedgerInv /\ UniqueRows /\ \A m \in answered : Recorded(m)

\* Tickets and comments have different columns.
LEMMA TicketIsNoComment ==
  ASSUME NEW x \in Ticket
  PROVE  x \notin Comment
<1>1. DOMAIN x = {"id", "message", "status"}
  BY DEF Ticket
<1>2. \A y \in Comment : DOMAIN y = {"id", "ticket", "message"}
  BY DEF Comment
<1> QED
  BY <1>1, <1>2

\* A step that may touch the status of rows, and adds a row for m at most.
LEMMA UniqueRowsStep ==
  ASSUME TypeOK, UniqueRows, NEW touched, NEW Added,
         \A y \in Rows' : y \in Added \/ \E x \in Rows : y = touched[x],
         \A x \in Rows : touched[x].id = x.id /\ touched[x].message = x.message,
         \A x, y \in Added : x = y,
         \A x \in Added : /\ x.id = serial
                          /\ x.message \in Identified => ~Recorded(x.message)
  PROVE  UniqueRows'
<1>1. \A x \in Rows : x.id # serial
  BY DEF TypeOK, Rows, Ticket, Comment
<1>2. \A x \in Added, y \in Rows :
        x.message \in Identified => x.message # y.message
  BY DEF Recorded, Rows
<1>3. Identified' = Identified
  BY DEF Identified
<1> SUFFICES ASSUME NEW x \in Rows', NEW y \in Rows',
                    \/ x.id = y.id
                    \/ x.message = y.message /\ x.message \in Identified
             PROVE  x = y
  BY <1>3 DEF UniqueRows
<1>4. CASE x \in Added /\ y \in Added
  BY <1>4
<1>5. CASE x \in Added /\ \E b \in Rows : y = touched[b]
  BY <1>1, <1>2, <1>5
<1>6. CASE y \in Added /\ \E a \in Rows : x = touched[a]
  BY <1>1, <1>2, <1>6
<1>7. CASE \E a, b \in Rows : x = touched[a] /\ y = touched[b]
  BY <1>7 DEF UniqueRows
<1> QED
  BY <1>4, <1>5, <1>6, <1>7

LEMMA CommitReplyKeepsRows ==
  ASSUME TypeOK, UniqueRows, NEW p \in Replicas, CommitReply(p),
         replica[p].message \in Identified => ~Recorded(replica[p].message)
  PROVE  UniqueRows'
<1> DEFINE loaded == replica[p].ticket
           m == replica[p].message
           Replied(t) == IF t.id = loaded.id
                              /\ RepliedStatus(loaded) # loaded.status
                         THEN [t EXCEPT !.status = RepliedStatus(loaded)]
                         ELSE t
           c == [id |-> serial, ticket |-> loaded.id, message |-> m]
<1>1. tickets' = {Replied(t) : t \in tickets} /\ comments' = comments \cup {c}
  BY DEF CommitReply
<1>2. \A t \in tickets : Replied(t).id = t.id /\ Replied(t).message = t.message
  BY DEF TypeOK, Ticket
<1>3. c.id = serial /\ c.message = m
  OBVIOUS
<1> HIDE DEF Replied, c
<1>4. PICK touched :
        touched = [x \in Rows |-> IF x \in tickets THEN Replied(x) ELSE x]
  OBVIOUS
<1>5. PICK added : added = {c}
  OBVIOUS
<1>6. /\ \A t \in tickets : touched[t] = Replied(t)
      /\ \A x \in comments : touched[x] = x
  BY <1>4, TicketIsNoComment DEF TypeOK, Rows
<1>7. \A x \in Rows : touched[x].id = x.id /\ touched[x].message = x.message
  BY <1>2, <1>6 DEF Rows
<1>8. \A y \in Rows' : y \in added \/ \E x \in Rows : y = touched[x]
  BY <1>1, <1>5, <1>6 DEF Rows
<1>9. /\ \A x, y \in added : x = y
      /\ \A x \in added : /\ x.id = serial
                          /\ x.message \in Identified => ~Recorded(x.message)
  BY <1>3, <1>5
<1> QED
  BY <1>7, <1>8, <1>9, UniqueRowsStep

LEMMA CommitTicketKeepsRows ==
  ASSUME TypeOK, UniqueRows, NEW p \in Replicas, CommitTicket(p),
         replica[p].message \in Identified => ~Recorded(replica[p].message)
  PROVE  UniqueRows'
<1> DEFINE t == [id |-> serial, message |-> replica[p].message, status |-> "open"]
<1>1. tickets' = tickets \cup {t} /\ comments' = comments
  BY DEF CommitTicket
<1>2. t.id = serial /\ t.message = replica[p].message
  OBVIOUS
<1> HIDE DEF t
<1>3. PICK touched : touched = [x \in Rows |-> x]
  OBVIOUS
<1>4. PICK added : added = {t}
  OBVIOUS
<1>5. \A x \in Rows : touched[x] = x
  BY <1>3
<1>6. \A x \in Rows : touched[x].id = x.id /\ touched[x].message = x.message
  BY <1>5
<1>7. \A y \in Rows' : y \in added \/ \E x \in Rows : y = touched[x]
  BY <1>1, <1>4, <1>5 DEF Rows
<1>8. /\ \A x, y \in added : x = y
      /\ \A x \in added : /\ x.id = serial
                          /\ x.message \in Identified => ~Recorded(x.message)
  BY <1>2, <1>4
<1> QED
  BY <1>6, <1>7, <1>8, UniqueRowsStep

LEMMA UpdateKeepsRows ==
  ASSUME TypeOK, UniqueRows, NEW t \in tickets, NEW status \in TicketStatus,
         UpdateTicket(t, status)
  PROVE  UniqueRows'
<1> DEFINE new == [t EXCEPT !.status = status]
<1>1. tickets' = (tickets \ {t}) \cup {new} /\ comments' = comments
  BY DEF UpdateTicket
<1>2. new.id = t.id /\ new.message = t.message
  BY DEF TypeOK, Ticket
<1> HIDE DEF new
<1>3. PICK touched : touched = [x \in Rows |-> IF x = t THEN new ELSE x]
  OBVIOUS
<1>4. /\ \A x \in Rows : touched[x] = IF x = t THEN new ELSE x
      /\ t \in Rows /\ t \notin comments
  BY <1>3, TicketIsNoComment DEF TypeOK, Rows
<1>5. PICK added : added = {}
  OBVIOUS
<1>6. \A y \in Rows' : y \in added \/ \E x \in Rows : y = touched[x]
  BY <1>1, <1>4, <1>5 DEF Rows
<1>7. \A x \in Rows : touched[x].id = x.id /\ touched[x].message = x.message
  BY <1>2, <1>4
<1>8. /\ \A x, y \in added : x = y
      /\ \A x \in added : /\ x.id = serial
                          /\ x.message \in Identified => ~Recorded(x.message)
  BY <1>5
<1> QED
  BY <1>6, <1>7, <1>8, UniqueRowsStep

\* No step takes a row away from a message.
LEMMA RecordedStays ==
  ASSUME TypeOK, [Next]_vars, NEW m, Recorded(m)
  PROVE  Recorded(m)'
<1>1. PICK x \in tickets \cup comments : x.message = m
  BY DEF Recorded
<1>2. CASE x \in tickets
  BY <1>1, <1>2, TicketsKeepTheirMessage DEF Recorded
<1>3. CASE x \in comments
  <2>1. comments \subseteq comments'
    BY DEF Next, vars, NoSuchTicket, DuplicateOfTicket, NoSuchComment,
       DuplicateOfComment, JoinThread, OpenOwnTicket, CommitReply, CommitTicket,
       Respond, Fail, UpdateTicket
  <2> QED
    BY <1>1, <1>3, <2>1 DEF Recorded
<1> QED
  BY <1>1, <1>2, <1>3

\* A message is answered when it is in a row, or has been found in one.
LEMMA AnsweredStep ==
  ASSUME UniqueIds, LedgerInv, [Next]_vars, NEW m \in answered', m \notin answered
  PROVE  Recorded(m)
<1>1. TypeOK
  BY DEF LedgerInv
<1>2. ASSUME NEW p \in Replicas, NEW n \in Messages, DuplicateOfTicket(p, n)
      PROVE  Recorded(m)
  <2>1. m = n /\ n \in Identified /\ \E t \in tickets : SameMessage(t, n)
    BY <1>2 DEF DuplicateOfTicket, Answers, Identified
  <2> QED
    BY <1>1, <2>1, FoundIsRecorded
<1>3. ASSUME NEW p \in Replicas, DuplicateOfComment(p)
      PROVE  Recorded(m)
  <2>1. /\ m = replica[p].message /\ m \in Identified
        /\ \E c \in comments : SameComment(c, m)
    BY <1>3 DEF DuplicateOfComment, Answers, LedgerInv, Delivery
  <2> QED
    BY <1>1, <2>1, FoundIsRecorded
<1>4. ASSUME NEW p \in Replicas, Respond(p)
      PROVE  Recorded(m)
  BY <1>4 DEF Respond, Answers, LedgerInv, Delivery
<1> QED
  BY <1>2, <1>3, <1>4
  DEF Next, vars, NoSuchTicket, NoSuchComment, JoinThread, OpenOwnTicket,
      CommitReply, CommitTicket, Fail, UpdateTicket

LEMMA NextRowsInv ==
  ASSUME OneReplica, UniqueIds
  PROVE  RowsInv /\ [Next]_vars => RowsInv'
<1> SUFFICES ASSUME RowsInv, [Next]_vars
             PROVE  RowsInv'
  OBVIOUS
<1>1. LedgerInv /\ UniqueRows /\ TypeOK /\ \A m \in answered : Recorded(m)
  BY DEF RowsInv, LedgerInv
<1>2. LedgerInv'
  BY <1>1, NextLedgerInv
<1>3. \A m \in answered' : Recorded(m)'
  <2> SUFFICES ASSUME NEW m \in answered' PROVE Recorded(m)'
    OBVIOUS
  <2>1. Recorded(m)
    BY <1>1, AnsweredStep
  <2> QED
    BY <1>1, <2>1, RecordedStays
<1>4. UniqueRows'
  <2>1. ASSUME NEW p \in Replicas, CommitReply(p) \/ CommitTicket(p)
        PROVE  UniqueRows'
    <3>1. replica[p].message \in Identified => ~Recorded(replica[p].message)
      BY <1>1, <2>1 DEF CommitReply, CommitTicket, Goes, LedgerInv, Delivery
    <3> QED
      BY <1>1, <2>1, <3>1, CommitReplyKeepsRows, CommitTicketKeepsRows
  <2>2. ASSUME NEW t \in tickets, NEW status \in TicketStatus,
               UpdateTicket(t, status)
        PROVE  UniqueRows'
    BY <1>1, <2>2, UpdateKeepsRows
  <2>3. ASSUME tickets' = tickets, comments' = comments
        PROVE  UniqueRows'
    BY <1>1, <2>3 DEF UniqueRows, Rows, Identified
  <2> QED
    BY <2>1, <2>2, <2>3
    DEF Next, vars, NoSuchTicket, DuplicateOfTicket, NoSuchComment,
        DuplicateOfComment, JoinThread, OpenOwnTicket, Respond, Fail
<1> QED
  BY <1>2, <1>3, <1>4 DEF RowsInv

LEMMA RowsInvariance ==
  ASSUME OneReplica, UniqueIds
  PROVE  Spec => []RowsInv
<1>1. Init => RowsInv
  BY InitLedgerInv DEF Init, RowsInv, UniqueRows, Rows
<1>2. RowsInv /\ [Next]_vars => RowsInv'
  BY NextRowsInv
<1> QED
  BY <1>1, <1>2, PTL DEF Spec

-----------------------------------------------------------------------------
(* The adapters *)

\* The webhook's messages are what the adapters make of the vendors' deliveries.
AdaptersFeedIt == Messages = Normalized

\* The vendors' bodies: no two deliveries are one, and a number that the vendor
\* gives stands in a field that the channel's adapter looks at.
VendorFormats ==
  /\ \A d, e \in Deliveries : d.id = e.id => d = e
  /\ \A d \in Deliveries : Readable(d) /\ d.number # None =>
       \E i \in DOMAIN FieldsOf(d).id :
         /\ FieldsOf(d).id[i] \in DOMAIN d.body
         /\ d.body[FieldsOf(d).id[i]] = d.number

\* body.get(a) or body.get(b) ... is empty only if all of them are.
LEMMA FirstOfIsFilled ==
  ASSUME NEW body, NEW names, DOMAIN names \subseteq Nat, NEW i \in DOMAIN names,
         names[i] \in DOMAIN body, body[names[i]] # None
  PROVE  FirstOf(body, names) # None
<1> DEFINE filled == {j \in DOMAIN names :
                        names[j] \in DOMAIN body /\ body[names[j]] # None}
           First(j) == j \in filled /\ \A k \in filled : j <= k
<1>1. filled \subseteq Nat /\ filled # {}
  OBVIOUS
<1>2. PICK j \in filled : \A k \in filled : ~ (<<k, j>> \in OpToRel(<, Nat))
  <2> HIDE DEF filled
  <2> QED
    BY <1>1, WFMin, NatLessThanWellFounded
<1>3. \A k \in filled : ~(k < j)
  BY <1>1, <1>2 DEF OpToRel
<1>4. \A k \in filled : j <= k
  BY <1>1, <1>3
<1>5. First(CHOOSE k \in filled : \A l \in filled : k <= l)
  BY <1>4
<1> QED
  BY <1>1, <1>5 DEF FirstOf

\* The field tables are sequences.
LEMMA FieldPositions ==
  ASSUME NEW d, Readable(d)
  PROVE  DOMAIN FieldsOf(d).id \subseteq Nat
BY DEF Readable, FieldsOf, ADAPTERS, LegacyFields, EmailFields, SlackFields,
   WhatsAppFields, ChatFields, CRMFields

LEMMA NumberedIsIdentified ==
  ASSUME AdaptersFeedIt, VendorFormats, NEW d \in Deliveries, Readable(d),
         d.number # None
  PROVE  normalize_message(d) \in Identified
<1>1. PICK i \in DOMAIN FieldsOf(d).id :
        /\ FieldsOf(d).id[i] \in DOMAIN d.body
        /\ d.body[FieldsOf(d).id[i]] = d.number
  BY DEF VendorFormats
<1>2. FirstOf(d.body, FieldsOf(d).id) # None
  BY <1>1, FieldPositions, FirstOfIsFilled
<1>3. normalize_message(d).external_id # None
  BY <1>2 DEF normalize_message
<1>4. normalize_message(d) \in Messages
  BY DEF AdaptersFeedIt, Normalized
<1> QED
  BY <1>3, <1>4 DEF Identified

\* The rows of a delivery are the rows of its message.
LEMMA RowsOfDelivery ==
  ASSUME AdaptersFeedIt, VendorFormats, TypeOK, NEW d \in Deliveries, Readable(d)
  PROVE  RowsOf(d) = {x \in Rows : x.message = normalize_message(d)}
<1>1. \A x \in Rows : x.message \in Normalized
  BY DEF TypeOK, Rows, Ticket, Comment, AdaptersFeedIt
<1>2. ASSUME NEW x \in Rows, x.message.id = d.id
      PROVE  x.message = normalize_message(d)
  <2>1. PICK e \in Deliveries : x.message = normalize_message(e)
    BY <1>1 DEF Normalized
  <2>2. e.id = d.id
    BY <1>2, <2>1 DEF normalize_message
  <2> QED
    BY <2>1, <2>2 DEF VendorFormats
<1>3. normalize_message(d).id = d.id
  BY DEF normalize_message
<1> QED
  BY <1>2, <1>3 DEF RowsOf, Rows

\* With one process and numbers that are unique over the channels, what a vendor
\* has numbered in a field that the adapter knows is recorded in one row at most,
\* and it is recorded when it is answered, for any deliveries, repeated and cut
\* off in any way.
THEOREM NumberedAlwaysOnce ==
  ASSUME OneReplica, UniqueIds, AdaptersFeedIt, VendorFormats
  PROVE  Spec => []NumberedOnce
<1>1. RowsInv => NumberedOnce
  <2> SUFFICES ASSUME RowsInv, NEW d \in Deliveries, Readable(d), d.number # None
               PROVE  /\ Cardinality(RowsOf(d)) <= 1
                      /\ normalize_message(d) \in answered => RowsOf(d) # {}
    BY DEF NumberedOnce
  <2>1. TypeOK /\ UniqueRows /\ \A m \in answered : Recorded(m)
    BY DEF RowsInv, LedgerInv
  <2>2. RowsOf(d) = {x \in Rows : x.message = normalize_message(d)}
    BY <2>1, RowsOfDelivery
  <2>3. normalize_message(d) \in Identified
    BY NumberedIsIdentified
  <2>4. \A x, y \in RowsOf(d) : x = y
    BY <2>1, <2>2, <2>3 DEF UniqueRows
  <2>5. RowsOf(d) = {} \/ \E x : RowsOf(d) = {x}
    BY <2>4
  <2>6. Cardinality(RowsOf(d)) <= 1
    <3>1. CASE RowsOf(d) = {}
      <4>1. Cardinality(RowsOf(d)) = 0
        BY <3>1, FS_EmptySet
      <4> QED
        BY <4>1
    <3>2. CASE \E x : RowsOf(d) = {x}
      <4>1. Cardinality(RowsOf(d)) = 1
        BY <3>2, FS_Singleton
      <4> QED
        BY <4>1
    <3> QED
      BY <2>5, <3>1, <3>2
  <2>7. normalize_message(d) \in answered => RowsOf(d) # {}
    BY <2>1, <2>2 DEF Recorded, Rows
  <2> QED
    BY <2>6, <2>7
<1> QED
  BY <1>1, RowsInvariance, PTL

-----------------------------------------------------------------------------
(* Several replicas: how often one message can be recorded *)

EntriesOf(m) == {e \in Entries : e.message = m}

\* What p has found out lets it record m, or still may.
MayRecord(p, m) ==
  /\ replica[p].message = m
  /\ \/ replica[p].phase \in {"new", "replying", "creating"}
     \/ /\ replica[p].phase = "unticketed"
        /\ \A c \in comments : c.message # m

Pending(m) == {p \in Replicas : MayRecord(p, m)}

\* Whoever looks m up once it is recorded finds it, so the replicas that may
\* record it again are those that looked before.
Bounded(m) ==
  /\ IsFiniteSet(EntriesOf(m))
  /\ Cardinality(EntriesOf(m)) + Cardinality(Pending(m)) <= Cardinality(Replicas)

OverlapInv == TypeOK /\ ThreadInv /\ \A m \in Identified : Bounded(m)

LEMMA PendingIsFinite ==
  ASSUME IsFiniteSet(Replicas), NEW m
  PROVE  /\ IsFiniteSet(Pending(m)) /\ Cardinality(Pending(m)) \in Nat
         /\ Cardinality(Replicas) \in Nat
         /\ Cardinality(Pending(m)) <= Cardinality(Replicas)
<1>1. Pending(m) \subseteq Replicas
  BY DEF Pending
<1> QED
  BY <1>1, FS_Subset, FS_CardinalityType

\* A step in which no replica gets to the point of recording m.
LEMMA PendingShrinks ==
  ASSUME IsFiniteSet(Replicas), NEW m, Bounded(m), Entries' = Entries,
         \A p \in Replicas : MayRecord(p, m)' => MayRecord(p, m)
  PROVE  Bounded(m)'
<1>1. EntriesOf(m)' = EntriesOf(m)
  BY DEF EntriesOf
<1>2. PICK now, then : now = Pending(m) /\ then = Pending(m)'
  OBVIOUS
<1>3. then \subseteq now /\ IsFiniteSet(now) /\ Cardinality(now) \in Nat
  BY <1>2, PendingIsFinite DEF Pending
<1>4. Cardinality(then) <= Cardinality(now) /\ Cardinality(then) \in Nat
  BY <1>3, FS_Subset, FS_CardinalityType
<1>5. Cardinality(EntriesOf(m)) \in Nat /\ Cardinality(Replicas) \in Nat
  BY PendingIsFinite, FS_CardinalityType DEF Bounded
<1> QED
  BY <1>1, <1>2, <1>3, <1>4, <1>5 DEF Bounded

\* A step before which m is not recorded, nor after it.
LEMMA NothingRecorded ==
  ASSUME IsFiniteSet(Replicas), NEW m, EntriesOf(m)' = {}
  PROVE  Bounded(m)'
<1>1. PICK then : then = Pending(m)'
  OBVIOUS
<1>2. then \subseteq Replicas
  BY <1>1 DEF Pending
<1>3. Cardinality(then) <= Cardinality(Replicas) /\ Cardinality(then) \in Nat
  BY <1>2, FS_Subset, FS_CardinalityType
<1>4. IsFiniteSet({}) /\ Cardinality({}) = 0
  BY FS_EmptySet
<1> QED
  BY <1>1, <1>3, <1>4 DEF Bounded

\* A replica that records m was one that may, and is no longer.
LEMMA CommitKeepsBound ==
  ASSUME IsFiniteSet(Replicas), TypeOK, NEW p \in Replicas,
         CommitReply(p) \/ CommitTicket(p), NEW m \in Identified, Bounded(m)
  PROVE  Bounded(m)'
<1>1. /\ replica[p].phase \in {"replying", "creating"}
      /\ replica'[p].phase = "recorded"
      /\ \A q \in Replicas \ {p} : replica'[q] = replica[q]
      /\ comments \subseteq comments'
  BY DEF CommitReply, CommitTicket, Goes, TypeOK
<1>2. Entries' = Entries \cup {[row |-> serial, message |-> replica[p].message]}
  BY ReplyAddsEntry, TicketAddsEntry
<1>3. \A q \in Replicas : MayRecord(q, m)' => MayRecord(q, m) /\ q # p
  BY <1>1 DEF MayRecord
<1>4. PICK e : e = [row |-> serial, message |-> replica[p].message]
  OBVIOUS
<1>5. PICK before, after, now, then :
        /\ before = EntriesOf(m) /\ after = EntriesOf(m)'
        /\ now = Pending(m) /\ then = Pending(m)'
  OBVIOUS
<1>6. /\ IsFiniteSet(before) /\ IsFiniteSet(now)
      /\ Cardinality(before) + Cardinality(now) <= Cardinality(Replicas)
      /\ Cardinality(before) \in Nat /\ Cardinality(now) \in Nat
      /\ Cardinality(Replicas) \in Nat
  BY <1>5, PendingIsFinite, FS_CardinalityType DEF Bounded
<1>7. CASE replica[p].message = m
  <2>1. after = before \cup {e}
    BY <1>2, <1>4, <1>5, <1>7 DEF EntriesOf
  <2>2. p \in now /\ then \subseteq now \ {p}
    BY <1>1, <1>3, <1>5, <1>7 DEF Pending, MayRecord
  <2>3. IsFiniteSet(after) /\ Cardinality(after) <= Cardinality(before) + 1
    <3>1. /\ IsFiniteSet(before \cup {e})
          /\ \/ Cardinality(before \cup {e}) = Cardinality(before)
             \/ Cardinality(before \cup {e}) = Cardinality(before) + 1
      BY <1>6, FS_AddElement
    <3> QED
      BY <1>6, <2>1, <3>1
  <2>4. IsFiniteSet(now \ {p}) /\ Cardinality(now \ {p}) = Cardinality(now) - 1
    BY <1>6, <2>2, FS_RemoveElement
  <2>5. Cardinality(then) <= Cardinality(now) - 1 /\ Cardinality(then) \in Nat
    BY <2>2, <2>4, FS_Subset, FS_CardinalityType
  <2>6. Cardinality(after) \in Nat
    BY <2>3, FS_CardinalityType
  <2>7. Cardinality(after) + Cardinality(then) <= Cardinality(Replicas)
    BY <1>6, <2>3, <2>5, <2>6
  <2> QED
    BY <1>5, <2>3, <2>7 DEF Bounded
<1>8. CASE replica[p].message # m
  <2>1. after = before
    BY <1>2, <1>5, <1>8 DEF EntriesOf
  <2>2. then \subseteq now
    BY <1>3, <1>5 DEF Pending
  <2>3. Cardinality(then) <= Cardinality(now) /\ Cardinality(then) \in Nat
    BY <1>6, <2>2, FS_Subset, FS_CardinalityType
  <2>4. Cardinality(after) + Cardinality(then) <= Cardinality(Replicas)
    BY <1>6, <2>1, <2>3
  <2> QED
    BY <1>5, <1>6, <2>1, <2>4 DEF Bounded
<1> QED
  BY <1>7, <1>8

LEMMA NextOverlapInv ==
  ASSUME IsFiniteSet(Replicas)
  PROVE  OverlapInv /\ [Next]_vars => OverlapInv'
<1> SUFFICES ASSUME OverlapInv, [Next]_vars
             PROVE  OverlapInv'
  OBVIOUS
<1>1. TypeOK /\ TypeOK' /\ ThreadInv'
  BY NextTypeOK, NextThreadInv DEF OverlapInv
<1> SUFFICES ASSUME NEW m \in Identified PROVE Bounded(m)'
  BY <1>1 DEF OverlapInv, Identified
<1>2. Bounded(m)
  BY DEF OverlapInv
<1>3. m \in Messages /\ m.external_id # None
  BY DEF Identified
\* A step that changes no row.
<1>4. ASSUME tickets' = tickets, comments' = comments,
             \A p \in Replicas : MayRecord(p, m)' => MayRecord(p, m)
      PROVE  Bounded(m)'
  <2>1. Entries' = Entries
    BY <1>4 DEF Entries
  <2> QED
    BY <1>2, <1>4, <2>1, PendingShrinks
<1>5. ASSUME NEW p \in Replicas, NEW n \in Messages, NoSuchTicket(p, n)
      PROVE  Bounded(m)'
  <2>1. /\ tickets' = tickets /\ comments' = comments
        /\ replica'[p].message = n
        /\ \A q \in Replicas \ {p} : replica'[q] = replica[q]
        /\ n = m => replica'[p].phase = "unticketed"
        /\ n = m => \A t \in tickets : ~SameMessage(t, m)
    BY <1>1, <1>3, <1>5 DEF NoSuchTicket, Goes, TypeOK
  <2>2. CASE n = m /\ \A c \in comments : c.message # m
    <3>1. \A x \in tickets \cup comments : x.message # m
      BY <2>1, <2>2 DEF SameMessage
    <3>2. EntriesOf(m)' = {}
      BY <2>1, <3>1 DEF EntriesOf, Entries
    <3> QED
      BY <3>2, NothingRecorded
  <2>3. CASE ~(n = m /\ \A c \in comments : c.message # m)
    <3>1. ~MayRecord(p, m)'
      BY <2>1, <2>3 DEF MayRecord
    <3>2. \A q \in Replicas : MayRecord(q, m)' => MayRecord(q, m)
      BY <2>1, <3>1 DEF MayRecord
    <3> QED
      BY <1>4, <2>1, <3>2
  <2> QED
    BY <2>2, <2>3
<1>6. ASSUME NEW p \in Replicas,
             \/ \E n \in Messages : DuplicateOfTicket(p, n)
             \/ DuplicateOfComment(p) \/ Respond(p) \/ Fail(p)
      PROVE  Bounded(m)'
  <2>1. /\ tickets' = tickets /\ comments' = comments
        /\ replica'[p].phase = "idle"
        /\ \A q \in Replicas \ {p} : replica'[q] = replica[q]
    BY <1>1, <1>6 DEF DuplicateOfTicket, DuplicateOfComment, Respond, Fail, Answers,
       Idle, TypeOK
  <2>2. \A q \in Replicas : MayRecord(q, m)' => MayRecord(q, m)
    BY <2>1 DEF MayRecord
  <2> QED
    BY <1>4, <2>1, <2>2
<1>7. ASSUME NEW p \in Replicas,
             NoSuchComment(p) \/ JoinThread(p) \/ OpenOwnTicket(p)
      PROVE  Bounded(m)'
  <2>1. /\ tickets' = tickets /\ comments' = comments
        /\ replica'[p].message = replica[p].message
        /\ \A q \in Replicas \ {p} : replica'[q] = replica[q]
    BY <1>1, <1>7 DEF NoSuchComment, JoinThread, OpenOwnTicket, Goes, TypeOK
  <2>2. replica[p].message = m => MayRecord(p, m)
    <3>1. CASE NoSuchComment(p)
      BY <3>1, NoCommentFound DEF OverlapInv, NoSuchComment, Goes, SameComment, MayRecord
    <3> QED
      BY <1>7, <3>1 DEF JoinThread, OpenOwnTicket, Goes, MayRecord
  <2>3. \A q \in Replicas : MayRecord(q, m)' => MayRecord(q, m)
    BY <2>1, <2>2 DEF MayRecord
  <2> QED
    BY <1>4, <2>1, <2>3
<1>8. ASSUME NEW p \in Replicas, CommitReply(p) \/ CommitTicket(p)
      PROVE  Bounded(m)'
  BY <1>1, <1>2, <1>8, CommitKeepsBound
<1>9. ASSUME NEW t \in tickets, NEW status \in TicketStatus,
             UpdateTicket(t, status)
      PROVE  Bounded(m)'
  <2>1. Entries' = Entries /\ replica' = replica /\ comments' = comments
    BY <1>1, <1>9, UpdateKeepsEntries DEF UpdateTicket
  <2>2. \A q \in Replicas : MayRecord(q, m)' => MayRecord(q, m)
    BY <2>1 DEF MayRecord
  <2> QED
    BY <1>2, <2>1, <2>2, PendingShrinks
<1>10. CASE UNCHANGED vars
  BY <1>4, <1>10 DEF vars, MayRecord
<1> QED
  BY <1>5, <1>6, <1>7, <1>8, <1>9, <1>10 DEF Next

\* With several replicas the lookups do not keep the ledger, but they limit the
\* damage: a message with an external id is in no more rows than there are
\* replicas, however often the vendor repeats it and whatever fails.
THEOREM RecordedOncePerReplica ==
  ASSUME IsFiniteSet(Replicas)
  PROVE  Spec => [](\A m \in Identified : Cardinality(EntriesOf(m)) <= Cardinality(Replicas))
<1>1. Init => OverlapInv
  <2> SUFFICES ASSUME Init PROVE OverlapInv
    OBVIOUS
  <2>1. TypeOK /\ ThreadInv /\ \A m : EntriesOf(m) = {}
    BY InitTypeOK, InitThreadInv DEF Init, EntriesOf, Entries
  <2>2. IsFiniteSet({}) /\ Cardinality({}) = 0
    BY FS_EmptySet
  <2> QED
    BY <2>1, <2>2, PendingIsFinite DEF OverlapInv, Bounded
<1>2. OverlapInv /\ [Next]_vars => OverlapInv'
  BY NextOverlapInv
<1>3. OverlapInv => \A m \in Identified : Cardinality(EntriesOf(m)) <= Cardinality(Replicas)
  <2> SUFFICES ASSUME NEW m \in Identified, Bounded(m)
               PROVE  Cardinality(EntriesOf(m)) <= Cardinality(Replicas)
    BY DEF OverlapInv
  <2>1. /\ Cardinality(EntriesOf(m)) \in Nat /\ Cardinality(Pending(m)) \in Nat
        /\ Cardinality(Replicas) \in Nat
    BY PendingIsFinite, FS_CardinalityType DEF Bounded
  <2> QED
    BY <2>1 DEF Bounded
<1> QED
  BY <1>1, <1>2, <1>3, PTL DEF Spec
=============================================================================
