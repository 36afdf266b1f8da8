------------------------------ MODULE LLMGateway ------------------------------
(***************************************************************************)
(* The creation of tickets and the agent-assist panel over the LLM gateway *)
(* (llm.py).  A creation asks for a classification and, for a ticket at    *)
(* risk, for a briefing of the reviewer; it commits the ticket; and the    *)
(* auto-responder then asks for a draft of the answer and, when that needs *)
(* a person, for a briefing.  The panel of a ticket asks once.             *)
(*                                                                         *)
(* Each call passes the rate limit once, is attempted up to MaxAttempts    *)
(* times, is counted when a completion arrives, and unless it wants plain  *)
(* words is checked against the contract of its prompt; a refusal is       *)
(* counted and then written to the audit log by a session of its own.      *)
(* The requests of a process share the counters, which an administrator    *)
(* resets.  What the texts say is abstracted to what the decisions ask;    *)
(* CaseRisk has the rules for the customer's.                              *)
(***************************************************************************)
EXTENDS CaseRisk, FiniteSets

CONSTANTS
  Creations,   \* requests that create a ticket, each handled once
  Assists,     \* requests for the panel of a ticket, each handled once
  Texts,       \* what the customers write
  Customers,   \* what is known of them
  Answers,     \* classifications a model may answer with
  MaxAttempts  \* 1 + LLM_MAX_RETRIES

ASSUME GatewayAssumption ==
  /\ Creations \cap Assists = {}
  /\ Texts \subseteq Text /\ Customers \subseteq Customer
  /\ Answers \subseteq Triage
  /\ MaxAttempts \in Nat \ {0}

VARIABLES
  provider,    \* LLM_PROVIDER: "none", "incomplete" settings, "mock", "remote"
  text,        \* per creation: the message
  customer,    \* per creation: who wrote it
  request,     \* what each request is doing
  triage,      \* per creation: the classification, KeywordTriage or the model's
  risk,        \* per creation: risk_score, risk_level and escalation_route
  ticket,      \* per creation: "none", "committed", or "lost" to an error 500
  outcome,     \* what became of the auto-response, or the status of the panel
  usages,      \* the calls in _usages
  refusals,    \* the calls in _invalid_responses
  audited,     \* the calls with an audit row llm.invalid_response
  garbled,     \* history: creations ended by a completion nobody can read
  everReset    \* history: the counters were reset

cases == <<text, customer>>
ticketVars == <<triage, risk, ticket, outcome>>
Counters == <<usages, refusals, audited>>
vars == <<provider, cases, request, ticketVars, Counters, garbled, everReset>>

-----------------------------------------------------------------------------

Requests == Creations \cup Assists

Stage == {"triage", "summary", "draft", "briefing", "assist", "ended"}
Call == Requests \X (Stage \ {"ended"})

\* "ask": about to call; "asking": an attempt is in progress; "backoff": before
\* the next; "arrived": a completion is there, "counted" in _usages, "refused" in
\* _invalid_responses.
Phase == {"ask", "asking", "backoff", "arrived", "counted", "refused"}

\* A completion is the set of its faults: the contract of its prompt refuses it;
\* or else a draft has no text, its confidence (the model's, or else that of the
\* best match) is below the threshold, validate_response or the model itself, which
\* may ask to escalate, objects; or else a panel has no replies.  Or else its use
\* "raises" what nobody expects: json.loads at a number of over 4300 digits,
\* validate_response at a link of over 200 characters, the commit at a NUL.
Fault == {"wrong", "no_text", "unsure", "objection", "no_replies", "raises"}
Completion(stage) ==
  {{"raises"}} \cup
  CASE stage = "draft"  -> {{"wrong"}} \cup SUBSET {"no_text", "unsure", "objection"}
    [] stage = "assist" -> {{"wrong"}, {"no_replies"}, {}}
    [] stage = "triage" -> {{"wrong"}, {}}
    [] OTHER            -> {{}}

\* MockLLMProvider: the prompt of the triage is left unanswered, the draft cites
\* its sources with a confidence of 0.9, the panel has one reply.
MockCompletion(stage) ==
  CASE stage = "triage" -> {{"wrong"}}
    [] stage = "draft"  -> {{}, {"unsure"}}
    [] OTHER            -> {{}}

Request ==
  [stage : Stage, phase : Phase, attempt : 0..MaxAttempts, completion : SUBSET Fault]

NoTriage == [intent |-> "none"]
NoRisk == [score |-> 0, level |-> "low", route |-> ""]

At(r, phase) == request[r].stage # "ended" /\ request[r].phase = phase

Caller(r) == <<r, request[r].stage>>

Goes(r, stage, completion) ==
  request' = [request EXCEPT ![r] =
    [stage |-> stage, phase |-> "ask", attempt |-> 0, completion |-> completion]]

-----------------------------------------------------------------------------
(* Mutated forms of the definitions below; no specification uses them.     *)

ReasonsButEmpty(faults) == faults \ {"no_text"}

LastAttemptLate(r) == request[r].attempt > MaxAttempts

AskUncounted(r) ==
  /\ provider \in {"mock", "remote"}
  /\ At(r, "ask") \/ At(r, "backoff")
  /\ request' = [request EXCEPT ![r].phase = "asking"]
  /\ UNCHANGED <<provider, cases, ticketVars, Counters, garbled, everReset>>

TriageFailsHard(r) ==
  /\ ticket' = [ticket EXCEPT ![r] = "lost"]
  /\ Goes(r, "ended", {})
  /\ UNCHANGED <<triage, risk, outcome>>

CountUncounted(r) == UNCHANGED usages

RescoredWithoutCustomer(r, breached) ==
  RiskOf(triage[r], "none", 0, breached, Violations(text[r]) # {})

RefusedStatusGeneric == "provider_error"

-----------------------------------------------------------------------------
(* What the callers do with an answer, or without one *)

\* An error 500 before the commit.
Loses(r) ==
  /\ ticket' = [ticket EXCEPT ![r] = "lost"]
  /\ Goes(r, "ended", {})
  /\ UNCHANGED <<triage, risk, outcome>>

\* db.commit() of the row; PostgreSQL refuses values that do not fit its columns.
Commits(r, result, next) ==
  IF text[r].storable /\ result.storable
  THEN ticket' = [ticket EXCEPT ![r] = "committed"] /\ Goes(r, next, {})
  ELSE ticket' = [ticket EXCEPT ![r] = "lost"] /\ Goes(r, "ended", {})

\* create_ticket and receive_channel_message, with a classification and a message
\* that is screened: a ticket that needs review or is at risk gets a summary before
\* the commit.
Scored(r, result) ==
  LET scored == RiskOf(result, TierOf(customer[r]), customer[r].open, FALSE,
                       IsRisky(text[r]))
  IN  /\ triage' = [triage EXCEPT ![r] = result]
      /\ risk' = [risk EXCEPT ![r] = scored]
      /\ IF NeedsReview(result, text[r]) \/ AtRisk(scored)
         THEN Goes(r, "summary", {}) /\ UNCHANGED ticket
         ELSE Commits(r, result, "draft")
      /\ UNCHANGED outcome

\* create_ticket screens the message once it has the classification.
Classified(r, result) ==
  IF ScreeningRaises(text[r]) THEN Loses(r) ELSE Scored(r, result)

\* classify_ticket falls back to the keywords.
TriageFails(r) == Classified(r, KeywordTriage(text[r]))

\* summarize_escalation takes any text, and its own words when there is none.
\* The commit is next; the auto-responder leaves a flagged ticket alone.
Summarized(r) ==
  /\ Commits(r, triage[r], IF NeedsReview(triage[r], text[r]) THEN "ended" ELSE "draft")
  /\ UNCHANGED <<triage, risk, outcome>>

\* _decision: the confidence matters only when there is text.
Reasons(faults) == IF "no_text" \in faults THEN faults \ {"unsure"} ELSE faults

Ends(r, how) ==
  /\ outcome' = [outcome EXCEPT ![r] = how]
  /\ Goes(r, "ended", request[r].completion)
  /\ UNCHANGED <<triage, risk, ticket>>

ToReview(r) == Goes(r, "briefing", {}) /\ UNCHANGED ticketVars

Drafted(r) ==
  IF Reasons(request[r].completion) = {} THEN Ends(r, "sent") ELSE ToReview(r)

\* run_auto_response scores the ticket again.  The deadline may have passed, and
\* guardrail_status is "flagged" for violations of any severity.
Rescored(r, breached) ==
  RiskOf(triage[r], TierOf(customer[r]), customer[r].open, breached,
         Violations(text[r]) # {})

\* It hands the ticket to a person, with or without a briefing in the model's words.
Briefed(r) ==
  /\ \E breached \in BOOLEAN : risk' = [risk EXCEPT ![r] = Rescored(r, breached)]
  /\ outcome' = [outcome EXCEPT ![r] = "review"]
  /\ Goes(r, "ended", {})
  /\ UNCHANGED <<triage, ticket>>

\* The panel has its status, and may still fail: search_knowledge raises when the
\* embeddings cannot be had.
Shows(r, status) == Ends(r, status) \/ Ends(r, "failed")

\* _summarize_with_llm
Suggested(r) ==
  Shows(r, IF "no_replies" \in request[r].completion THEN "no_suggestions" ELSE "ok")

Answered(r) ==
  CASE request[r].stage = "triage"   -> \E answer \in Answers : Classified(r, answer)
    [] request[r].stage = "summary"  -> Summarized(r)
    [] request[r].stage = "draft"    -> Drafted(r)
    [] request[r].stage = "briefing" -> Briefed(r)
    [] request[r].stage = "assist"   -> Suggested(r)

\* An LLMError other than a refused completion; only a provider that is not named
\* at all is LLMNotConfigured.
Unanswered(r) ==
  CASE request[r].stage = "triage"   -> TriageFails(r)
    [] request[r].stage = "summary"  -> Summarized(r)
    [] request[r].stage = "draft"    -> Ends(r, "skipped")
    [] request[r].stage = "briefing" -> Briefed(r)
    [] request[r].stage = "assist"   ->
         Shows(r, IF provider = "none" THEN "not_configured" ELSE "provider_error")

RefusedStatus == "invalid_response"

\* LLMContractError: a draft without text goes to a person.
Refused(r) ==
  CASE request[r].stage = "triage" -> TriageFails(r)
    [] request[r].stage = "draft"  -> ToReview(r)
    [] request[r].stage = "assist" -> Shows(r, RefusedStatus)

\* Any other exception ends a creation before its commit, and a panel; the
\* auto-responder, after the commit, catches them all.
Raised(r) ==
  CASE request[r].stage \in {"triage", "summary"} -> Loses(r)
    [] request[r].stage \in {"draft", "briefing"} -> Ends(r, "skipped")
    [] request[r].stage = "assist" -> Ends(r, "failed")

-----------------------------------------------------------------------------
(* chat, generate and generate_structured *)

\* receive_channel_message screens the message before it asks for anything.
NotScreened(r) ==
  /\ At(r, "ask") /\ request[r].stage = "triage"
  /\ ScreeningRaises(text[r])
  /\ Loses(r)
  /\ UNCHANGED <<provider, cases, Counters, garbled, everReset>>

\* The provider cannot be made, or the rate limit refuses the call.
NotAsked(r) ==
  /\ At(r, "ask")
  /\ Unanswered(r)
  /\ UNCHANGED <<provider, cases, Counters, garbled, everReset>>

\* AUTO_RESPOND_ENABLED is off: there is no draft.
NoAutoResponse(r) ==
  /\ At(r, "ask") /\ request[r].stage = "draft"
  /\ Goes(r, "ended", {})
  /\ UNCHANGED <<provider, cases, ticketVars, Counters, garbled, everReset>>

\* draft_reply finds nothing in the knowledge base, and does not ask.
NoMatches(r) ==
  /\ At(r, "ask") /\ request[r].stage = "draft"
  /\ ToReview(r)
  /\ UNCHANGED <<provider, cases, Counters, garbled, everReset>>

\* get_provider, and the attempts of chat.
Ask(r) ==
  /\ provider \in {"mock", "remote"}
  /\ At(r, "ask") \/ At(r, "backoff")
  /\ request' = [request EXCEPT ![r].phase = "asking", ![r].attempt = @ + 1]
  /\ UNCHANGED <<provider, cases, ticketVars, Counters, garbled, everReset>>

LastAttempt(r) == request[r].attempt >= MaxAttempts

\* LLMRetryableError: no answer within 30 seconds, no connection, or any error
\* status, since urlopen raises HTTPError for those of the client as well.
AttemptFails(r) ==
  /\ provider = "remote"
  /\ At(r, "asking")
  /\ IF LastAttempt(r) THEN Unanswered(r)
     ELSE /\ request' = [request EXCEPT ![r].phase = "backoff"]
          /\ UNCHANGED ticketVars
  /\ UNCHANGED <<provider, cases, Counters, garbled, everReset>>

RaisedByAnswer(r) ==
  /\ Raised(r)
  /\ garbled' = IF request[r].stage \in {"triage", "summary"} THEN garbled \cup {r}
                ELSE garbled
  /\ UNCHANGED <<provider, cases, Counters, everReset>>

\* body["choices"][0]["message"] does not exist: KeyError, IndexError or
\* TypeError, which no caller of the gateway expects.
AnswerGarbled(r) ==
  /\ provider = "remote"
  /\ At(r, "asking")
  /\ RaisedByAnswer(r)

Arrive(r) ==
  /\ At(r, "asking")
  /\ request' = [request EXCEPT ![r].phase = "arrived", ![r].attempt = 0]
  /\ UNCHANGED <<provider, cases, ticketVars, Counters, garbled, everReset>>

CountUsage(r) == usages' = usages \cup {Caller(r)}

\* _record_usage; what the completion says matters from here on.
Count(r) ==
  /\ At(r, "arrived")
  /\ CountUsage(r)
  /\ \E completion \in IF provider = "mock" THEN MockCompletion(request[r].stage)
                       ELSE Completion(request[r].stage) :
       request' = [request EXCEPT ![r].phase = "counted",
                                  ![r].completion = completion]
  /\ UNCHANGED <<provider, cases, ticketVars, refusals, audited, garbled, everReset>>

Breaks(r) == "wrong" \in request[r].completion

Use(r) ==
  /\ At(r, "counted") /\ request[r].completion \cap {"wrong", "raises"} = {}
  /\ Answered(r)
  /\ UNCHANGED <<provider, cases, Counters, garbled, everReset>>

\* The call is counted, and no refusal.
UseFails(r) ==
  /\ At(r, "counted") /\ "raises" \in request[r].completion
  /\ RaisedByAnswer(r)

\* record_invalid_response: the counter,
CountRefusal(r) ==
  /\ At(r, "counted") /\ Breaks(r)
  /\ refusals' = refusals \cup {Caller(r)}
  /\ request' = [request EXCEPT ![r].phase = "refused"]
  /\ UNCHANGED <<provider, cases, ticketVars, usages, audited, garbled, everReset>>

\* and the audit row, which may fail unnoticed; then the caller is told.
Refuse(r) ==
  /\ At(r, "refused")
  /\ \/ audited' = audited \cup {Caller(r)}
     \/ UNCHANGED audited
  /\ Refused(r)
  /\ UNCHANGED <<provider, cases, usages, refusals, garbled, everReset>>

\* reset_llm_usage; once, as a bound of the model.
Reset ==
  /\ ~everReset
  /\ usages' = {} /\ refusals' = {}
  /\ everReset' = TRUE
  /\ UNCHANGED <<provider, cases, request, ticketVars, audited, garbled>>

-----------------------------------------------------------------------------

Init ==
  /\ provider \in {"none", "incomplete", "mock", "remote"}
  /\ text \in [Creations -> Texts]
  /\ customer \in [Creations -> Customers]
  /\ request = [r \in Requests |->
                  [stage |-> IF r \in Creations THEN "triage" ELSE "assist",
                   phase |-> "ask", attempt |-> 0, completion |-> {}]]
  /\ triage = [r \in Creations |-> NoTriage]
  /\ risk = [r \in Creations |-> NoRisk]
  /\ ticket = [r \in Creations |-> "none"]
  /\ outcome = [r \in Requests |-> "none"]
  /\ usages = {} /\ refusals = {} /\ audited = {} /\ garbled = {}
  /\ everReset = FALSE

Step(r) ==
  \/ NotScreened(r) \/ NotAsked(r) \/ NoAutoResponse(r) \/ NoMatches(r)
  \/ Ask(r) \/ AttemptFails(r) \/ AnswerGarbled(r) \/ Arrive(r)
  \/ Count(r) \/ Use(r) \/ UseFails(r) \/ CountRefusal(r) \/ Refuse(r)

Next == Reset \/ \E r \in Requests : Step(r)

Spec == Init /\ [][Next]_vars

\* Each attempt is answered or times out, and a worker thread goes on.
FairSpec == Spec /\ \A r \in Requests : WF_vars(Step(r))

-----------------------------------------------------------------------------
(* Properties *)

\* The request is one that a creation without any answer would commit.
Acceptable(r) == ~ScreeningRaises(text[r]) /\ text[r].storable

TypeOK ==
  /\ provider \in {"none", "incomplete", "mock", "remote"}
  /\ text \in [Creations -> Texts] /\ customer \in [Creations -> Customers]
  /\ request \in [Requests -> Request]
  /\ triage \in [Creations -> Triage \cup {NoTriage}]
  /\ risk \in [Creations -> Risk]
  /\ ticket \in [Creations -> {"none", "committed", "lost"}]
  /\ outcome \in [Requests -> {"none", "sent", "review", "skipped", "ok",
                               "no_suggestions", "not_configured",
                               "provider_error", "invalid_response", "failed"}]
  /\ usages \subseteq Call /\ refusals \subseteq Call /\ audited \subseteq Call
  /\ garbled \subseteq Creations
  /\ everReset \in BOOLEAN

\* A provider that is missing, slow, down, over its limit or that answers in
\* words nobody asked for never costs a customer the ticket: whatever happens to
\* the calls of a creation, it ends with the ticket committed, unless the request
\* itself cannot be screened or stored, a completion cannot be read at all, or the
\* contract lets a classification pass that no column holds.
CreationSurvives ==
  \A r \in Creations :
    /\ request[r].stage = "ended" /\ r \notin garbled
    /\ Acceptable(r) /\ (triage[r] # NoTriage => triage[r].storable)
    => ticket[r] = "committed"

\* What the customer is sent without a person having read it is a draft that the
\* contract has accepted, with text, that no check objected to, for a ticket that
\* is committed; no refusal of it is on record.
SentIsSound ==
  \A r \in Creations : outcome[r] = "sent" =>
    /\ ticket[r] = "committed"
    /\ request[r].completion = {}
    /\ <<r, "draft">> \notin refusals \cup audited

\* A message that breaks a rule of high severity (legal action, fraud, card
\* numbers, ...) meets a person, whatever the model made of it two calls earlier:
\* the AI never answers it, and neither one that the triage wants reviewed.
BrokenRuleMeetsPerson ==
  \A r \in Creations : outcome[r] = "sent" =>
    Violations(text[r]) \cap HighSeverity = {} /\ ~triage[r].requires_human_review

\* Handing a ticket to a person never makes it look less urgent than it did at its
\* creation, although the score is computed anew, from the stored row instead of
\* the request and with another notion of "flagged": the review queue sorts by it.
RescoringNeverLowers ==
  [][\A r \in Creations :
       triage[r] # NoTriage => risk'[r].score >= risk[r].score]_vars

\* The panel tells an empty answer from a failure (AssistStatus): the first two
\* states stand for a counted call that was not refused, "invalid_response" for a
\* recorded refusal, and the others for a call that brought no answer, whatever
\* other requests count meanwhile; a recorded refusal is shown as nothing else.  A
\* panel that ends in an error 500 shows no status, and may have had any call.
AssistTellsFailure ==
  ~everReset => \A r \in Assists :
    /\ outcome[r] \in {"ok", "no_suggestions"} => <<r, "assist">> \in usages \ refusals
    /\ outcome[r] = "invalid_response" => <<r, "assist">> \in refusals
    /\ request[r].stage = "ended" /\ <<r, "assist">> \in refusals =>
         outcome[r] \in {"invalid_response", "failed"}
    /\ outcome[r] \in {"not_configured", "provider_error"} => <<r, "assist">> \notin usages

\* The refusals in the usage report are among the calls it counts, and the audit
\* log has no refusal that the report misses, however the requests overlap,
\* until somebody resets the report.
RefusalsAreCalls ==
  ~everReset => refusals \subseteq usages /\ audited \subseteq refusals

\* Whatever the provider does, the caller gets an answer: no chain of retries,
\* fallbacks and further calls goes on for ever.
RequestsEnd == \A r \in Requests : <>(request[r].stage = "ended")

-----------------------------------------------------------------------------
(* What documents say and the code does not do *)

\* "Every layer has a defined fallback: LLM to keyword rules" (README.md): no answer
\* of a model costs the ticket of a request that would do without one.
UnexpectedIsSurvived == \A r \in Creations : Acceptable(r) => ticket[r] # "lost"

\* "High-risk tickets are auto-routed to the correct team queue" (escalation.py),
\* "escalates anything risky to a human agent" (README.md): a ticket scored high or
\* critical is not left to the AI.
RiskyIsEscalated ==
  \A r \in Creations : outcome[r] = "sent" => ~AtRisk(risk[r])
=============================================================================
