# A verification project for the support desk backend

This directory holds TLA+ models of the customer-support backend under
`src/app`, the TLC configurations that check them on small instances, and
theorems about them that the TLAPS proof system checks for every value of the
constants.

The backend is a FastAPI application. Its handlers are synchronous functions
that run in a thread pool (the webhook handler is `async` and never awaits after
it has read the body), each with an SQLAlchemy session of its own: it loads
rows, changes attributes, and flushes **the columns it changed** at the commit.
Nothing takes a row lock and nothing counts row versions. So whatever goes wrong
beyond a single request goes wrong between a load and a commit, between two
commits, or around a call that no transaction covers: the LLM, the helpdesk, the
notification receiver, Redis, the upload directory, the files of the vector
index. The models are about that, and about chains of decisions that are each
made from an earlier one's stored result: triage, guardrails and risk score, the
flag they set, and what the auto-responder does several calls later.

Files: `<Component>.tla` models a component, `MC<Component>.tla` gives TLC its
constants and symmetries where the `.cfg` cannot, `<Component>Proofs.tla` holds
its theorems (`SharedStateProofs.tla` those of Throttle and EmbeddingCache), `<Component>.cfg` is its main run. A `.cfg` named after a property
is a run of that property alone. `PROJECT.json` maps every definition that
models code to the lines it stands for. Definitions at the head of a module
under "Mutated forms" are plausible bugs that no specification uses; replacing
the definition they mutate must make TLC find the property violated that is
listed with them.

    tlc -workers 2 -config TicketLifecycle.cfg MCTicketLifecycle.tla
    tlapm TicketLifecycleProofs.tla


## 1. Inventory

Each part: the state it keeps, its operations, with whom it interacts, what is
hard about it, and what makes it correct.

**Ticket life cycle** (`api/routers/tickets.py`, `agents/auto_response.py`, the
reply half of `api/routers/webhooks.py`).
*State*: the row in `tickets` (status, escalation columns, reviewer, time
stamps, assignee), the rows in `ticket_comments` and `feedback`. *Operations*:
create, patch, comment, review an escalation, decide a draft, auto-respond, reply
through a thread, submit feedback, delete. *Interacts* with the LLM (the
auto-responder waits for it with the row loaded), the helpdesk, notifications.
*Hard*: seven handlers write the same row from snapshots that may be minutes old,
and only the columns that differ from the snapshot. *Correct*: columns which
different handlers write agree with each other; a review flag is cleared by a
person; answers and the first-response stamp go together; feedback follows a
resolution; nobody answers a ticket that is gone.

**Sessions and accounts** (`security/auth.py`, `security/sessions.py`,
`api/dependencies.py`, `api/routers/auth.py`, the account part of
`api/routers/admin.py`). *State*: `users` (active, `sessions_revoked_at`),
`revoked_tokens`; tokens are signed and stateless. *Operations*: register, log
in, authenticate a request, log out (which also purges), revoke all, activate,
deactivate and delete an account. *Hard*: two mechanisms of revocation, a purge
that runs inside every logout, times in whole seconds on one side only, checks
that precede the commit. *Correct*: an ended session stays ended while its token
would still decode.

**Channel intake** (`api/routers/webhooks.py`). *State*: rows in `tickets` and
`ticket_comments` with `external_id`, and for tickets `thread_id`.
*Operations*: take a message, recognise a repeated one, join the open ticket of
its thread, open a ticket. *Hard*: vendors deliver at least once; the lookup and
the insert are separate; the process may die after the commit and before the
answer. *Correct*: one row per identified message, an answer only for what is
recorded, no message in a stranger's conversation.

**Rate limiting and login throttle** (`security/rate_limit.py`,
`security/login_throttle.py`, and their callers: login, registration, webhook,
LLM gateway). *State*: per key, the
times of recent events, in a dictionary or a Redis sorted set. *Operations*:
check, record, clear, the wait to announce. *Hard*: check and record are two
calls, each of which asks first where the window is; the client is made lazily and
without a lock; two backends differ; Redis comes and goes. *Correct*: the budget holds
up to the requests in progress, the announced wait suffices, lockouts lapse.

**Attachments and deletion** (`api/routers/tickets.py`). *State*:
`ticket_attachments` rows, files in the upload directory. *Operations*: upload,
download, list, delete the ticket. *Hard*: no transaction covers the files; one
handler writes before it commits, the other removes after. *Correct*: a row has
its bytes; a file that is missing belongs to a deleted ticket; what a deletion
listed goes.

**Notifications** (`core/workers.py`, the enqueuing in `tickets.py` and
`webhooks.py`). *State*: the broker's queue, the
retry count, the audit rows that are dead letters; the receiver's own record of
idempotency keys. *Operations*: enqueue (or run in the request), attempt,
retry, give up. *Hard*: the answer to a delivery that succeeded may be lost; the
worker or the broker may be lost; settings change between retries. *Correct*: a
bounded number of deliveries, a final dead letter, an end for every task.

**Semantic search and its cache** (`agents/embeddings.py`). *State*: two module
globals per process, two files shared by processes. *Operations*: warm up,
ensure, load, build, save, search. *Hard*: no lock anywhere; the pair of globals
and the pair of files are each written one after the other; models and documents
change with deployments. *Correct*: a search uses an index that is there, the
documents it was built from, and the model that built it.

**Helpdesk synchronisation** (`agents/integrations.py`, `agents/support.py` and
their callers).
*State*: `intake_metadata["integration"]` of the ticket, the audit row
`integration.synced`. *Operations*: push a ticket, push a comment, for three
providers. *Hard*: a read, an HTTP call of up to 15 seconds, a write of the whole
of `intake_metadata`; several requests at once; calls that act and then time out.
*Correct*: the link names a ticket the helpdesk has and is never lost; "synced"
means that the helpdesk has what was pushed.

**LLM gateway and response agent** (`agents/llm.py`, `agents/response_agent.py`,
`core/http_json.py`). *State*: usage and refusal counters of the process.
*Operations*: complete (with a rate limit, attempts, backoff, accounting),
validate, refuse, decide on a draft. *Hard*: up to four calls during one ticket
creation, each of which may fail in several ways, before and after the ticket is
committed. *Correct*: the creation survives; nothing unsound is sent; the
counters and the audit log agree.

**Triage, guardrails, escalation scoring** (`agents/triage.py`,
`agents/guardrails.py`, `agents/escalation.py`, `agents/support.py`). Stateless:
keywords, patterns, a score, a route, a deadline; their results are columns of the
ticket. *Hard*: they are asked at different times, of the request and of the
stored row, and a model overrules some of them. *Correct*: a message that breaks a
rule of high severity reaches a person whatever the model says; a ticket does not
look less urgent at the moment it is handed to a person.

**Agent assist** (`agents/agent_assist.py` and its route). Reads a ticket, its
comments and similar knowledge and asks the gateway once; changes only the
gateway's counters. *Hard*: every failure degrades to the same text. *Correct*:
its status tells an empty answer, a refused one and none at all apart.

**Ticket creation, listing and access** (`tickets.py`). Creation composes
triage, gateway, auto-responder, helpdesk and notifications; listing filters and
pages; access compares the owner and the role.

**Reports and administration** (`api/routers/admin.py`, `api/routers/system.py`).
Queries over the rows, health checks, account changes, the purge of old audit
rows. *Hard*: a report is several queries, and handlers commit between them.
*Correct*: what it calls resolved without the staff was, and its numbers agree.

**Intake adapters** (`agents/intake.py`). Parsers of vendor payloads (e-mail,
Slack, WhatsApp, chat, CRM) into one normal form. *Hard*: the number and the
thread of a message are found under several names, the names of a flat shape
among them. *Correct*: the deduplication sees the vendor's number wherever it is.

**Configuration, schema, observability** (`core/config_validation.py`,
`core/database.py`, `core/models.py`, `core/observability.py`, `main.py`). Start-up
checks, columns and defaults, wiring.

**Front end** (`src/frontend`). A client of the API without state the server
relies on.

How they interact: `create_ticket` runs triage and the reviewer's summary
(gateway), the first commit, the notification (queue), the auto-responder
(gateway, second commit) and the helpdesk synchronisation (HTTP, third commit) in
this order, in one request; `receive_channel_message` does the same or adds a
reply to an existing row. The
models cut this chain where the state is: each module takes the neighbours as
nondeterministic outcomes (an LLM answer that is good, bad or absent; a broker
that refuses) and the order of the calls is kept within the module that has more
than one of them.


## 2. The modules and the code

### TicketLifecycle

`ticket` is the row, with each time stamp abstracted to whether it is set;
`comments` and `feedback` are the child rows, by the request that wrote them;
`request[r]` is the SQLAlchemy session of a handler in progress: `loaded`, the
row as read, `assigned`, the row as the handler leaves it, and `insert`, the
comments added, `erase`, those its DELETE has seen. A comment has the `kind` of its
origin: `add_comment`, public or internal (the AI's answer is public too), a message on
the thread, a draft approved, the note of one rejected. `exists` says whether the row is
there. `Commit` applies `Flush`, which writes exactly the columns where
`assigned` differs from `loaded` onto whatever the row is by then: this one
operator is the semantics of the ORM that all hazards here come from.

| action | code |
|---|---|
| `UpdateTicket` | `update_ticket`, `PatchedRow` its assignments |
| `UpdateEscalation` | `update_escalation`, `ReviewedRow` |
| `AddComment` | `add_comment`, `AnsweredRow` |
| `HandleThreadReply` | `handle_thread_reply`, `RepliedRow` |
| `ApproveDraft`, `RejectDraft` | `decide_draft` |
| `AutoRespond`, `DraftNeedsReview`, `DraftIsGood` | `run_auto_response` before and after the LLM call |
| `SubmitFeedback`, `NoFeedbackYet` | `submit_feedback` before and after its lookup |
| `DeleteTicket`, `DeleteComments`, `CommitDeletion` | `delete_ticket`: the load, its DELETE of the comments, its commit |
| `Commit`, `GiveUp` | `db.commit()`, and any failure before it |

The tables have no foreign keys, so only a commit that UPDATEs the row notices
that it is gone (`MayCommit`; SQLAlchemy raises `StaleDataError`, and the whole
transaction is lost). Most handlers set `updated_at` and so always UPDATE; the
others do when a column has changed (`Updates`).

Assignees appear only as staff or `Nobody`; who may call what is checked before
any of this and is left out.

### TicketReports

Extends TicketLifecycle by one report of the administrator: `ReadTickets`,
`ReadFeedback`, `ReadComments` are the three queries of `analytics_dashboard` (and
of `feedback_analytics`; `sla_metrics` is the first alone), with any commits in
between. Every number of a report adds up what each ticket contributes, so the
numbers are sets of rows (`Open`, `Resolved`, `Deflected`, `Workload`) and one
ticket is enough. `aided` is a history variable: whether staff had worked on the
ticket when the report began.

### Sessions

The clock counts ticks, `TicksPerSecond` to the second, because tokens carry
whole seconds and the database does not. `worker[w]` is a request between two
database statements: decoded, looked up, served; or logging out; or revoking.
`Dead`, `Decodes` and `CutOff` are the three comparisons of times. Any worker may
revoke all sessions: it computes the cutoff (`RevokeAllSessions`) and commits it later
(`CommitCutoff`), while others do the same, and the last commit wins. A logout
looks up (`AlreadyRevoked`, `NotYetRevoked`), and commits its own row together
with the purge of the dead ones (`CommitRevocation`), or runs into the primary
key (`RevocationConflict`). `loggedOut` and `killed` are history variables: the
tokens that were logged out, and those that the commit of a revoke-all has ended for
good (`ToBeEnded`): minted no later than the cutoff of every other revoke-all that is
still on its way. Roles and passwords are left out; deletion of an account is
included, as it removes the row the cutoff is in.

### ChannelIntake and MessageLedger

`replica[p]` is the one message a process of the application is handling, since
the handler does not await. Its steps are its database statements: the duplicate
among tickets, the duplicate among comments (which keeps no channel), the newest
unfinished ticket on the thread, the commit, the answer; `Fail` at any point. A known
comment counts only if its ticket is still there (`HasTicket`, `webhooks.py:222`). The
deletion of tickets itself is left out: with it a repeated delivery of a message whose
ticket is gone opens another one, so what is checked and proved here is about
tickets that stay.
`UpdateTicket` is what the staff does meanwhile. `MessageLedger` is the promise:
an identified message is in at most one row and an answered message is in one.
`KeepsLedger` instantiates it with the two tables seen as one set of entries.

### IntakeAdapters

A delivery is a function from field names to values. Each adapter is a table: for
each part of a message the fields that may hold it, in order of preference
(`EmailFields` to `CRMFields`, `LegacyFields` for the flat shape, which the mere
presence of two keys selects). `normalize_message` makes the messages that
ChannelIntake takes; `Readable` is the answer 400 or 404 for the others. The
vendor's own `number` and `conversation` stand beside the body, so that properties
can say what the adapters should have found.

### Throttle

One key of one limiter in one process. `window` holds, for the dictionary and for
Redis, the ages of the events, not their times, so the state space is finite without
stopping the clock; `Tick` ages everything. The events stand in the order they came, so
what has expired is a prefix (`Expired`) and pruning keeps the rest (`Remaining`, and
`Live` for no wait at all). Times are finer than the seconds that are announced:
`SecondsUntil` truncates `Second` ticks to one and adds one.

`client` is what `_redis()` answers with. At first it is unresolved, and every request
that finds it so goes on to connect by itself: `FindUnresolved`, then `MarkResolved`,
which comes before the connection, then `Connect`. In between all others get memory.
Each call is two steps, which store and the access to it (`worker.via`): `StartCheck`
and `Pass` or `Refuse`, `StartRecord` and `Record`, and for a successful login
`StartClear` and `Clear`. `Switch` takes Redis away or brings it back; a call that does
not reach it (`Reaches`) is swallowed. `admitted` is, per store, what was really let
through in the window and recorded there. Login, registration, webhook and LLM gateway
differ in the key and the limit; only the login records failures alone and clears.

### Attachments

A file is the pair of the upload that writes it and its position, as paths are
fresh uuids. An upload counts, stages, writes file by file, commits; a deletion
lists the paths, runs its DELETE statements (`doomed` is what they match),
commits, removes file by file; a download finds the row, sees the file, reads
it. `Fail` may hit anywhere and leaves the files as they are; `CannotRemove` is
the `OSError` that the loop logs and goes on after.

### Notifications

`task[n]` is the Celery task, `request[n]` the handler that enqueued it. The mode
is chosen at the start: `eager` (no broker: the handler runs the task itself),
`queued`, or `lossy` (workers and broker may lose tasks). An attempt posts
(`Arrive`: the body reached the receiver, whatever happens then), and ends as
`Sent`, `Rejected` or `AttemptFails`, which retries, goes on to `DeadLetter`, or in
the eager mode raises out of the handler.
`Redeploy` changes whether an endpoint is configured. The receiver processes a
body unless it has seen its key.

### EmbeddingCache

An index is what it was built from: the signature (provider and model) and the
version of the documents. `index` and `documents` are the globals, `indexFile`
and `docsFile` the files, `Torn` while one is written or after its writer died;
`thread[t].written` is what is being written, the global as it was when the writing
began.
Each step of a thread is one assignment, one file or one external call; threads
of one process share the globals, processes share the files. `Fails` is an
exception in any of them; `Restart` kills a process and may start it with another
model or other documents. The specification is named `CacheSpec` (`CacheInit`,
`CacheNext`, `CacheTypeOK`), because its proofs stand in one module with the
limiter's.

### HelpdeskSync

Each request commits its change (`CommitChange`, `AddInternalNote` for what is
not synchronised), reads the ticket (`Call`, or `Skip` and `NoTicketId` where the
code goes no further), the helpdesk acts (`Take`), the answer is committed
(`Finish`), or it is not (`CallFails`, before or after `Take`; `Die`). The
content of the ticket is its version. The mock derives its remote id from the
ticket's; Zendesk and HubSpot give every POST a new one.

### CaseRisk and LLMGateway

`CaseRisk` is what is decided without asking anybody, as operators over a text: a
text is the set of keywords it contains (as substrings: "issue" contains "sue"),
the kinds of personal data in it, whether it names a large sum and comes from a
blocked domain, which of its matches are longer than the 200 characters of
`Violation.matched` (`long`: `ScreeningRaises`), and whether PostgreSQL can store it.
`KeywordTriage`, `Violations` with `IsRisky`, and `RiskOf` (score, level
and route) are translated with their tables. Scores are counted in quarters of a
point, since the tier multipliers are quarters, and cut at 100 points.

`LLMGateway` runs two kinds of request over the gateway. A ticket creation goes
through the four stages in which it calls: triage, reviewer's summary, draft,
briefing; a panel of the agent assist has one. A call is asked (or is not: no
provider, `NotAsked`; over the limit), attempted up to `MaxAttempts` times with a
backoff between, counted, checked against its contract, used or refused; the
refusal is counted and then written to the audit log. `Classified`, `Summarized`,
`Drafted`, `Briefed`, `Suggested` and `Answered`, `Unanswered`, `Refused`, `Raised` say
what the callers do with or without an answer. A creation `Commits` its row, which the
database refuses for a message or a classification that fits no column
(`storable`: `triage.py:56` accepts a team of any length, `models.py:57` has 100
characters), or it `Loses` the ticket before that, when the message cannot be screened:
after the triage in `create_ticket`, before it in the webhook (`NotScreened`). A panel
`Shows` its status, or fails all the same while it searches the knowledge base. `triage`, `risk` and `ticket` are the
columns that the stages hand on; `Rescored` is the second scoring of
`run_auto_response`, from the stored row. A completion is the set of its faults; an
answer whose body has another shape is `AnswerGarbled`, one that is counted and then
raises what nobody expects `UseFails`: a number that `json.loads` refuses, a link too long
for a `Violation`, a NUL in the words that go to the database. The mock provider answers
what `MockCompletion` says: it never classifies, so each creation with it has one
refused call. `Reset` is the administrator's.


## 3. The runs

Each passing run also checks one type invariant. Each of its properties is
violated under the same configuration by at least one mutated definition.

| run | bounds | distinct states | properties |
|---|---|---|---|
| `ticket_lifecycle` | 3 overlapping requests of any kind, 1 staff member, 1 report, requests symmetric | 606,200 | `StampsAgree`, `FeedbackAfterResolution`, `ReportIsSound`, `FlagClearedByStaffOnly`, `DeletedStaysUnanswered` |
| `sessions` | 1 account, 2 tokens, 2 workers that may both revoke, symmetric, 2 ticks per second, lifetime 4, clock to 6 | 2,043,403 | `KilledStaysKilled`, `LogoutHolds` |
| `channel_intake` | 1 replica, 5 deliveries (4 readable), each any number of times, 4 rows | 856,356 | `ThreadsStaySeparate`, `KeepsLedger`, `NumberedOnce` |
| `throttle` | 2 workers, limit 2, a window of 2 seconds of 2 ticks, 4 events, one switch of Redis, either backend | 552,255 | `AdmissionBound`, `RetryAfterSuffices`, `LockoutLapses` |
| `attachments` | 3 requests of any kind, 2 files, faults | 15,002 | `RowsHaveBytes`, `DeletedBytesGo` |
| `notifications` | 2 notifications, 3 retries, three deployments | 19,146 | `DeliveryBound`, `AnsweredIsHandedOver`, `LetterIsFinal`, `Accounted` |
| `embedding_cache` | 1 process, 2 threads, 2 models, 2 versions of the documents | 27,760 | `SearchesSomething`, `AnswersFromIndexedDocuments`, `ScoresWithOwnModel` |
| `helpdesk_sync` | one request of each of the 4 kinds, 3 providers | 310,640 | `LinkExists`, `SyncedMeansTaken` |
| `llm_gateway` | 1 creation and 1 panel, 6 texts, 2 customers, 4 classifications, 4 providers, 2 attempts per call, one reset | 298,320 | `CreationSurvives`, `SentIsSound`, `BrokenRuleMeetsPerson`, `AssistTellsFailure`, `RefusalsAreCalls`, `RescoringNeverLowers`, `RequestsEnd` |

Why the bounds are enough:

- *TicketLifecycle*: a lost update needs a reader, a writer, and a third request
  that makes the row ready for them, be it the deletion. One report has as many
  queries as commits fit between. The proofs of section 5 cover any number.
- *Sessions*: one tick per second would hide the rounding, and a clock that stops
  before `Lifetime` would never purge. With six ticks a token expires, is dead,
  and is purged while another request is half way. Both workers may revoke at once,
  in either order of cutoffs and commits; that the cutoff may go back is section 6.
- *ChannelIntake*: two messages of one chat, numbered and named by two versions of
  the widget, one of another customer that names the same session, an e-mail
  without a number, a status report that has no text; four rows hold every
  outcome, and repeated deliveries take none.
- *Throttle*: two requests that both connect, or of which one is counted in memory
  meanwhile, and both pass with room for one; two ticks to the second are the least at
  which truncation loses anything, and events expire one by one. `MaxEvents` bounds
  what Redis stores, which the code does not; three events are the most without an
  outage. One switch is an outage, or Redis coming up.
- *Attachments*: an upload, a deletion and a third request that overlaps both;
  two files, so that a loop is interrupted half way.
- *Notifications*: three retries are the code's own number. Two notifications
  suffice as tasks share nothing but the receiver's keys and the setting.
- *EmbeddingCache*: the warm-up thread and a request are the only two threads that
  build at once in a process; two versions of each input are what a restart can
  change.
- *HelpdeskSync*: every handler that synchronises, once, overlapping.
- *LLMGateway*: two requests overlap at the shared counters; two attempts are one
  retry (`LLM_MAX_RETRIES` defaults to 3; all attempts but the last are alike). The
  six texts are one without any keyword, one that breaks a rule of high severity
  by accident, one by a sum, one that breaks a mild rule only, the same with a match
  that is too long, and one that the database refuses; the customers and
  classifications, of which one has a team that no column holds, reach every level of
  risk and every decision to review.

Three runs show a disagreement between the code and what it says of itself:

- `auto_response_skips_flagged`: the auto-responder tests the review flag before
  it waits for the LLM and never again (`auto_response.py:47`, then 120-147). A
  risky reply in the thread flags the ticket meanwhile; the AI answers all the
  same and the ticket ends resolved and flagged. `tests/test_main.py:1951` says
  that flagged tickets are skipped.
- `degrades_to_memory`: a Redis that was there when the client was made and goes
  away later limits nothing (`rate_limit.py:143`, 157): every check answers 0.
  `rate_limit.py:11-13` promises the memory backend instead.
- `approved_reply_is_pushed`: approving a draft calls the synchronisation with a
  comment and the event `response.draft_approved`, which `integrations.py:246`
  takes for a ticket event: the comment is dropped and an empty ticket is
  pushed. The mock and Zendesk raise `KeyError`; HubSpot creates an empty ticket.


## 4. Fairness

Safety runs use `Spec`, which has none. Four runs check liveness:

- `LockoutLapses` (Throttle): `WF(Tick)`, the clock. No request is obliged to come.
- `DeletedBytesGo` (Attachments): `WF(Removal(r))`, a loop over files in a thread
  that runs to its end. The process may still die: then `Fail` happens instead
  and the property says so. It excludes files whose removal raised an `OSError`.
- `Accounted` (Notifications): `WF(StartTask \/ Attempt \/ DeadLetter)` per task: the
  worker takes what is in its queue and an attempt ends, by an answer or by the
  time-out of `urlopen`. A deployment with losses may lose the task, which the
  property allows as an end only there.
- `RequestsEnd` (LLMGateway): `WF(Step(r))`: each attempt is answered or times out
  after 30 s (`http_json.py`), the backoff ends, everything else is computation in
  the thread of the request. No fairness for `Reset` or for the kind of an answer.


## 5. What is proved

`tlapm` checks all of the following, for every value of the constants that meets
the named assumption of the module. Every invariant and action property of a
passing run is among them, some under a further hypothesis that is named here.

**TicketLifecycleProofs** (`StaffAssumption`): `TypeCorrect`, `StampsAlwaysAgree`,
`FeedbackAlwaysAfterResolution`, `FlagOnlyClearedByStaff`, `DeletedAlwaysStaysUnanswered`.
The invariants are about the committed row, but a commit merges columns of two
rows that were consistent separately. What makes the merge consistent is that the
four time stamps are never taken back (`StampsKept`): the row is never behind any
snapshot, so a column that a session writes on the strength of a stamp in its
snapshot finds the stamp in the row. `IInv` is `TypeOK` and `Sound`: the row, and
every snapshot and its changes, are consistent rows, and the row keeps the stamps
of every snapshot. `FlushStamps` and `FlushSound` carry this over a commit, and
one lemma per handler shows that its changes preserve it. `FlagOnlyClearedByStaff` is an
action property with an invariant of its own, `FlagInv`: a session whose changes
would clear a flag that it has loaded adds a draft that a staff member has approved.
`DeletedAlwaysStaysUnanswered` rests on `QuietInv`: a session that adds anything but a
customer's comment, or a staff member's on a ticket whose snapshot had the
first-response stamp, also UPDATEs the row, whatever the row looked like.
`OneFeedbackOneByOne` isolates what `OneFeedbackPerTicket.cfg` breaks (section 6): in
a behaviour in which no two submissions of feedback for a ticket overlap
(`OneSubmission`), it is rated once. `RatingInv` says that a submission past its lookup
has found no rating and that there is still none, as nobody else adds one.

The same module covers TicketReports: `ReportAlwaysSound`. The actions of a report
change nothing of the handlers' state (lemma `ReportSpecIsSpec`), so all of the above
holds while reports are made. `ReportInv` says of each row that a report has read
that it is sound and behind the ticket only by stamps, and of staff's work seen at
the first query that it is visible to the last, since comments go only with their
ticket.

**SessionsProofs** (`SessionAssumption`): `TypeCorrect`, `RevocationAlwaysOutlivesToken`,
`LogoutAlwaysHolds`, `KilledAlwaysStaysKilled`, for any number of workers that log out
and revoke at once. `LogoutInv` says that the revocation of
a logged-out token is gone only when the token has expired, now and for every
request in progress that has looked already; it rests on the clock not going back
and on tokens not changing. `CutoffInv` says that the cutoff of an account, and the one of
every revocation on its way, covers every killed token. The cutoff need not grow; it
is enough that a revocation which starts later has a cutoff no token of today is
newer than, and that one already on its way was looked at when the token was killed.
`LogoutIdempotentOneByOne` isolates what
`LogoutIdempotent.cfg` breaks (section 6): if no two logouts of one
token are between lookup and commit (`OneLogout`), none meets the primary key, since
what one of them found absent stays absent (`StillNotRevoked`), and purging only
removes revocations.

**ChannelIntakeProofs** (`IntakeAssumption`): `TypeCorrect`, `ThreadsAlwaysStaySeparate`
for any number of replicas (`ThreadInv`: the ticket that a reply has found is
still there, of the same customer, channel and thread, as rows keep their
message); and `IntakeKeepsLedger`, that the webhook implements `MessageLedger`, for
one replica and external ids that are unique over channels (`OneReplica`,
`UniqueIds`). Its invariant `LedgerInv` is that what the lookups found stays true
until the commit, which is false for two replicas (section 6); with `ThreadInv`, which
says that a comment has its ticket, a lookup that finds no comment to return has found
none (`NoCommentFound`).
`NumberedAlwaysOnce` joins the adapters to the webhook under the same two
hypotheses and two more: the messages are those that the adapters make of the
deliveries (`AdaptersFeedIt`), and a number that the vendor gives stands in a field
that the channel's adapter looks at (`VendorFormats`); the instance of the run meets
all four. `FirstOfIsFilled` is what `body.get(a) or body.get(b)` comes to, and
`RowsInv` adds to the ledger that a message has one row and that what is answered is
recorded. `RecordedOncePerReplica` says what is left without `OneReplica`: an
identified message is in no more rows than there are replicas. Each replica between
its lookup and its commit may add one row; `OverlapInv` counts these (`Pending`)
with the entries there are, and a lookup that finds an entry adds no pending one.
With three replicas the bound is reached.

**AttachmentsProofs** (`AttachmentAssumption`): `TypeCorrect`, `RowsAlwaysHaveBytes`,
`MissingAlwaysMeansDeleted`. A file is removed long after its path was read; that
no row points at it by then needs `Settled` (only files of finished uploads are
ever listed), `OwnFiles`, and `Matched` (the DELETE of the same transaction
matched every listed row that is still there). `OpensRow` is the counterpart for
downloads. `LimitHoldsWithoutOverlap` isolates what `AttachmentLimit.cfg` breaks
(section 6): in a behaviour in which no two uploads write at the same time
(`OneUpload`), the limit of a ticket holds through deletions, downloads and
failures. `RoomLeft` carries the count from the check to the commit: what an upload
is writing still fits, since rows only become fewer meanwhile.
`NoOrphansWithoutOverlap` does the same for `NoOrphanBytes.cfg`: without failures
(`Faults` is false) and with no upload in progress between the listing and the commit
of a deletion (`NoUploadWhileDeleting`), whatever is on disk has a row, or a request
that will commit or remove it. `HeldInv` says that a deletion has listed every row
there is until it commits, and that no upload survives the ticket.
`DeletionsNeverSkip` is the part of `DeletedBytesGo` that needs no fairness: the files a
deletion has still to remove (`FilesLeft`, finitely many by `Finite`) become fewer with
each of its steps, and a file leaves the list only when it is gone from disk, resists
or the request fails.

**NotificationsProofs** (`NotificationAssumption`): `TypeCorrect`, `DeliveryBounded`,
`LettersAreFinal`, `AnsweredAlwaysIsHandedOver`. `Counted` relates the arrivals to the
retries used and to whether the current attempt has arrived; `LetterEnds` that a
dead letter belongs to a failed task. For the last, `EagerInv` says that without a
broker no task is ever queued, retried or given up, and that an answered request has
seen its task end; it needs that a redeployment does not change the mode of the
tasks there are (`ModeStays`). `SentAlwaysProcessedWithOwnKey` says of the receiver that
with keys of their own all that it has answered with 200 has been acted on; `KeyInv`
carries this from the arrival of an attempt to the task that learns of it. That the
receiver drops a key it has seen is an assumption about code that is not in the
repository. The hypothesis, that no two notifications have the same key, is what `SentIsProcessed.cfg` lacks (section 6). Of `Accounted` two parts are
proved: `TasksAlwaysGetCloser`, that every step of a task lowers `TaskLeft`, four times
its retries and what is left of the attempt; and `EndedIsAlwaysAccounted`, that without
losses no task ends but taken, refused, skipped or with a dead letter (`AccountInv`).

**HelpdeskSyncProofs** (`HelpdeskAssumption`): `TypeCorrect`, `LinkAlwaysExists`,
`SyncedAlwaysMeansTaken`, `LinkIsAlwaysKept`. The invariant says of each call in
progress what it will write once it is answered: a comment is addressed to a
remote ticket that exists, a version on its way is not older than the commit the
request stands for, what the helpdesk has taken it has, and what an approved draft
pushes is a ticket without content.

**LLMGatewayProofs** (`GatewayAssumption`): `TypeCorrect`, `CreationAlwaysSurvives`,
`SentIsAlwaysSound`, `BrokenRuleAlwaysMeetsPerson`, `AssistAlwaysTellsFailure`,
`RefusalsAlwaysAreCalls`, `RescoringAlwaysNeverLowers`, for any number of overlapping
requests, any texts, customers and classifications. `IInv` is `TypeOK`,
`RefusalsAreCalls` and, per request, what its stage has behind it: the phases a
stage can be in (`StageInv`), the classification, risk and commit that one call
hands to the next (`TicketInv`), and which counters know the call already
(`DraftInv`, `CountInv`, `PanelInv`). `Keepable` is what stands between a creation and
its commit: a message that is screened and stored and a classification that fits; the
theorem excludes the rest, and what cannot be read. `OthersKeepInv` says that a step of one request
leaves the invariant of the others alone, although they share the counters. Of
CaseRisk it needs that the keyword rules yield a classification and that the score
is bounded and monotone in the flags and the deadline (`ScoreMonotone`), on which
the second scoring rests, together with `RiskyIsFlagged`: what was flagged by the
request is flagged by the stored row.
`RequestsAlwaysGetCloser` is the variant of `RequestsEnd`: `Effort` counts the calls a
request may still make and the steps left of the present one, at most
`2 * MaxAttempts + 4` each, and every step of the request lowers it while those of
others leave it alone. So no mixture of retries, fallbacks and further calls goes on
for ever, whatever the model answers.

**SharedStateProofs** (`ThrottleAssumption`, `CacheAssumption`) is about the two
components whose state is shared by threads without a transaction.

Of the limiter: `WindowTypeCorrect`, `AdmissionAlwaysBounded`,
`RetryAfterAlwaysSuffices`, for any limit, window, fraction of a second and finite
number of requests, through the lazy connection and all its races.
Windows are sequences, and what the code does with them is first put into lemmas:
the expired events are a prefix (`SplitExists`), pruning leaves exactly the others
(`LiveIs`), recording, ageing and cutting keep the order. The bound cannot be shown
of the stored events alone, since the memory backend forgets all but the newest
`Limit`. `LimiterInv` compares them with the history: the newest `Limit` events of
both are the same (`Agree`), so that a check which finds room in the one finds it
in the other; and what was admitted, with the requests that have passed their
check and not yet recorded, stays below the limit plus the number of workers
(`Budget`). Both are said of each store by itself. Since a request may have passed its check in
memory and be recorded in Redis, `Pending` counts for a store whoever may still record
there without another look at it; Redis is empty until the client is set, and those who
checked in memory are counted for both. These two are claimed only as long as there was no outage, in which the
code lets everything through. The announced wait reaches the expiry of the oldest event,
as the second added is more than what the truncation takes away (`SecondsReach`); the
rest is order: once the oldest of at most `Limit` events has expired, fewer than
`Limit` remain.
`LockoutsAlwaysGetShorter` is the variant of `LockoutLapses`. A store's lockout ends when the
`Limit`-th newest event expires (`LapsesIn`, the same for both backends), and each
request that has passed its check may push that event back once: `LockoutLeft` is that
wait and a window for each such request. As long as it is locked and there was no
outage, no step increases it, and time decreases it; so a lockout lasts at most
`Window * (Cardinality(Workers) + 1)`, whatever refused requests come.

Of the vector index: `CacheTypeCorrect` and `SearchesAlwaysSomething` for any number
of processes and threads. `CacheInv` says per thread what its step has behind it
(`Equipped`): a thread that publishes has an index in hand, one that saves or
searches finds both globals filled, because threads of the process overwrite the
globals with other pairs and only a restart, which ends the thread, empties them.
`AnswersAlwaysFromIndexedDocuments` and `ScoresAlwaysWithOwnModel` are for one process
that has the files to itself and any number of threads; with two processes the
second is violated (`IndexFollowsModel.cfg`, section 6). For the first, `ContentInv`
says that as long as no build was cut short there is one index `c` that everything
since the start comes from: the globals, what any thread holds, and the files
unless they are of another model. `c` is what the process was started with, or what both
files held, and in the latter case nobody builds (`Origin`); files that differ are
being written by a thread that has not finished (`Finished`). For the second,
`ModelInv` does without this, and uses that models only get newer: the files are of
no newer model than the process, and the documents, written last, of none newer than
the index (`NoNewer`), so documents of the own model vouch for the index beside
them. The theorem needs either alone, hence both invariants.

*Only model-checked.* Liveness (`LockoutLapses`, `DeletedBytesGo`, `Accounted`,
`RequestsEnd`) is beyond the prover: these four rest on fairness and ENABLED and stay
with TLC. The part of each that rests on neither is proved: a measure in the natural
numbers that the steps of the component only lower (`LockoutsAlwaysGetShorter`,
`DeletionsNeverSkip`, `TasksAlwaysGetCloser`, `RequestsAlwaysGetCloser`), and what holds
once it is used up (`DeletionsNeverSkip`, `EndedIsAlwaysAccounted`,
`CreationAlwaysSurvives`). That a step is possible until then, and is taken, is TLC's.
So do the configurations of section 6, which are violated.


## 6. Other things the models show

These are kept as configurations that reproduce them; each is violated.

| configuration, module | what happens |
|---|---|
| `CutoffNeverGoesBack.cfg`, MCSessions | Two revocations of all sessions of an account commit in the opposite order of their cutoffs; the earlier cutoff wins, and tokens minted between the two are valid again (`sessions.py:62`), where `models.py:25` has every token before the cutoff rejected. What every one of the cutoffs ends stays ended (`KilledAlwaysStaysKilled`). |
| `OneBudget.cfg`, Throttle | The first call marks the backend as resolved before it has connected (`rate_limit.py:39`); others are counted in memory meanwhile, and those counts are forgotten once the client is set. The window admits more than its budget without any outage; never more than one budget per store (`AdmissionAlwaysBounded`). |
| `LogoutIdempotent.cfg`, MCSessions | Two logouts of one token overlap; the second violates the primary key and is answered 500 (`sessions.py:32`). Nothing else can (`LogoutIdempotentOneByOne`). |
| `OneFeedbackPerTicket.cfg`, MCTicketLifecycle | Two submissions of feedback overlap between lookup and insert; both are stored (`tickets.py:821`). Nothing else can (`OneFeedbackOneByOne`). |
| `OneTicketPerMessage.cfg`, MCChannelIntake | Two replicas take two deliveries of one message; there are two tickets (`webhooks.py:213`). There are never more than replicas (`RecordedOncePerReplica`). |
| `OwnThreadIsJoined.cfg`, MCChannelIntake | A stranger's newer ticket on the same thread hides the customer's own; the reply opens a new ticket (`webhooks.py:229`). |
| `NoOrphanBytes.cfg`, Attachments | An upload commits after the deletion of its ticket listed the paths; its bytes (and its rows, which carry no foreign key) stay for ever. Without failures nothing else leaves bytes behind (`NoOrphansWithoutOverlap`). |
| `AttachmentLimit.cfg`, Attachments | Two uploads count at once and exceed the limit together (`tickets.py:679`). Nothing else can (`LimitHoldsWithoutOverlap`). |
| `SentIsProcessed.cfg`, MCNotifications | Two replies without a message id and with the same text share an idempotency key; the receiver drops the second (`workers.py:138`). Only a shared key can (`SentAlwaysProcessedWithOwnKey`). |
| `GivenUpIsRecorded.cfg`, MCNotifications | In the eager mode a failed attempt raises out of the handler: the caller gets an error for a ticket that is committed, and no dead letter is written. |
| `IndexFollowsModel.cfg`, MCEmbeddingCache | Two processes with different models write the two files alternately; a search scores with vectors of the other model (`embeddings.py:191`). |
| `OneRemoteTicket.cfg`, MCHelpdeskSync | Every update POSTs another ticket to Zendesk or HubSpot (`integrations.py:252`). |
| `ReplyJoinsConversation.cfg`, MCChannelIntake | The answer to an e-mail names the first mail of the conversation as its thread, which that mail itself was stored without; the customer's answer opens a second ticket (`intake.py:95`, 141), where `tests/test_main.py:1317` has replies join. |
| `RiskyIsEscalated.cfg`, MCLLMGateway | A ticket scored high is flagged only if triage or a guardrail asks for it; the score alone changes the route but lets the AI answer (`tickets.py:141`), where `escalation.py` and the README of the repository speak of escalating what is risky. |
| `UnexpectedIsSurvived.cfg`, MCLLMGateway | A successful answer without `choices` raises `KeyError` out of the gateway; the ticket is lost to an error 500 (`llm.py:164`), where `README.md:143` of the repository promises keyword rules. So does a classification whose team is longer than its column (`triage.py:56`, `models.py:57`): the commit fails. |

`OneFeedbackPerTicket` and `OneTicketPerMessage` are kept by lookups only, and no
constraint of the schema backs them.

Met while reading, and outside the models: the lockout of the login throttle
lasts from the oldest failure in the window, not from the last
(`login_throttle.py:3-5`); overlapping failures each write an audit row of the
lockout (`auth.py:126`); the wait that the Redis backend announces is too short
when requests overlap (`RetryAfterSuffices` is therefore about the memory
backend); the default transport raises for every status from 400 on, so client
errors are retried although `LLMRetryableError` speaks of transient failures and
the branch for them (`llm.py:162`) is not reached; reopening a ticket leaves
`resolved_at` in place, on which `FeedbackAfterResolution` rests; and a comment
is recognised as a duplicate by its external id whatever its channel
(`webhooks.py:83`), which is why `UniqueIds` is assumed.

Of the reports: a ticket deleted between two queries may be called deflected
although staff answered it (`ReportIsSound` is about tickets that are still
there); `response_rate` exceeds 1 when feedback outlives its ticket, which deletion
never takes along, or is stored twice; a reopened ticket keeps `resolved_at` and
counts as open and as resolved.

Of the texts: a match of more than 200 characters, of an e-mail address say, raises
`ValidationError` out of `evaluate` (`guardrails.py:27`, 178), and the message never becomes
a ticket, with or without a model; keywords match inside words, so that "issue" and "pursue" contain
"sue" and every such message is flagged as legal action of high severity, and
"against" contains "again". Of a WhatsApp delivery with several messages only the
first is taken (`intake.py:187`); a CRM body that has both `customer_id` and
`message` is read as the flat shape, and its `ticket_id` is not looked at
(`intake.py:298`); a body without a sender belongs to the customer "unknown", with
whom all such messages share their threads.


## 7. What is not modelled

- *Texts*: what a model writes, similarity and citations, token prices, and the
  patterns of personal data, which the modules take as matching or not.
- *Values no column holds*: an over-long or NUL-carrying text is refused by PostgreSQL
  wherever it is written. LLMGateway has this for the commits of a creation; the
  other modules take what they write to fit.
- *Deletion of tickets in the intake*: ChannelIntake has none, as said in section 2.
- *The SLA deadline*: `Rescored` takes either answer to whether it has passed.
- *Who may do what*: roles, owners and secrets are checked from the request alone
  before anything changes.
- *Attachments and metadata of vendor messages*: stored as they come.
- *Helpdesk successes without an id*, and the fields of the payloads.
- *Single queries*: lists and filters, averages, counters by channel or intent, the
  similar cases beside the assist panel. One statement each, they relate no two
  states.
- *Isolation*: PostgreSQL with READ COMMITTED is assumed, the default of the
  deployments: each statement sees what was committed before it, and an UPDATE of
  columns applies to the row as it is then. SQLite, the default of development,
  serialises writers and allows the same interleavings of loads and commits.


## 8. Plan

Done, in this order: TicketLifecycle, Sessions, ChannelIntake with
MessageLedger, Throttle, Attachments, Notifications, EmbeddingCache,
HelpdeskSync, LLMGateway, deletion within TicketLifecycle, TicketReports,
CaseRisk with the agent assist in LLMGateway, IntakeAdapters, and the proof
modules.

Next:

1. A composition of ticket creation: gateway, auto-responder, helpdesk and
   notification over one row, in place of the outcomes each module now takes
   from its neighbours, and an abstract specification of what a customer is
   promised, which it implements.
2. Assignment and access: which staff may be assigned, who reads what.
