--------------------------- MODULE LLMGatewayProofs ---------------------------
(***************************************************************************)
(* Proofs about LLMGateway, for any messages, customers, classifications,  *)
(* number of attempts and of overlapping requests.                         *)
(***************************************************************************)
EXTENDS LLMGateway, TLAPS

-----------------------------------------------------------------------------
(* The rules of CaseRisk *)

\* The table has an intent at each of its places.
LEMMA OrderedIntents ==
  /\ DOMAIN IntentOrder = 1..5
  /\ \A i \in 1..5 : IntentOrder[i] \in Intent
BY DEF IntentOrder, Intent

\* _classify_with_keywords always finds an intent: of the matching rows of its
\* table one is the first.
LEMMA KeywordIntentType ==
  ASSUME NEW text0
  PROVE  KeywordIntent(text0) \in Intent
<1> DEFINE Matches(i) == Has(text0, IntentWords[IntentOrder[i]])
           First(i) == Matches(i) /\ \A j \in 1..(i - 1) : ~Matches(j)
<1>1. CASE \E i \in DOMAIN IntentOrder : Matches(i)
  <2>1. \E i \in 1..5 : Matches(i)
    BY <1>1, OrderedIntents
  <2>2. \E i \in 1..5 : First(i)
    <3> HIDE DEF Matches
    <3>1. CASE Matches(1)
      BY <3>1
    <3>2. CASE ~Matches(1) /\ Matches(2)
      BY <3>2
    <3>3. CASE ~Matches(1) /\ ~Matches(2) /\ Matches(3)
      BY <3>3
    <3>4. CASE ~Matches(1) /\ ~Matches(2) /\ ~Matches(3) /\ Matches(4)
      BY <3>4
    <3>5. CASE ~Matches(1) /\ ~Matches(2) /\ ~Matches(3) /\ ~Matches(4) /\ Matches(5)
      BY <3>5
    <3> QED
      BY <2>1, <3>1, <3>2, <3>3, <3>4, <3>5
  <2>3. (CHOOSE i \in DOMAIN IntentOrder : First(i)) \in 1..5
    BY <2>2, OrderedIntents
  <2> QED
    BY <1>1, <2>3, OrderedIntents DEF KeywordIntent
<1>2. CASE ~\E i \in DOMAIN IntentOrder : Matches(i)
  BY <1>2 DEF KeywordIntent, Intent
<1> QED
  BY <1>1, <1>2

LEMMA DefaultTeams == \A i \in Intent : DefaultTeam[i] \in Team
BY DEF Team

LEMMA KeywordTriageType ==
  ASSUME NEW text0
  PROVE  KeywordTriage(text0) \in Triage
<1>1. KeywordIntent(text0) \in Intent
  BY KeywordIntentType
<1>2. KeywordSentiment(text0) \in Sentiment
  BY DEF KeywordSentiment, Sentiment
<1>3. DefaultTeam[KeywordIntent(text0)] \in Team
  BY <1>1, DefaultTeams
<1> QED
  BY <1>1, <1>2, <1>3 DEF KeywordTriage, Triage, Priority

\* Points and penalties of a case; the score is their weighted sum, cut.
Base(triage0) ==
  IntentPoints[triage0.intent] + PriorityPoints[triage0.priority]
    + SentimentPoints[triage0.sentiment]

Penalty(open, breached, flagged) ==
  5 * AtMost(open, 5) + (IF breached THEN 25 ELSE 0) + (IF flagged THEN 15 ELSE 0)

LEMMA BaseType ==
  ASSUME NEW triage0 \in Triage
  PROVE  Base(triage0) \in 0..70
<1>1. IntentPoints[triage0.intent] \in 0..30
  BY DEF Triage, Intent, IntentPoints
<1>2. PriorityPoints[triage0.priority] \in 0..20
  BY DEF Triage, Priority, PriorityPoints
<1>3. SentimentPoints[triage0.sentiment] \in 0..20
  BY DEF Triage, Sentiment, SentimentPoints
<1> QED
  BY <1>1, <1>2, <1>3 DEF Base

LEMMA PenaltyType ==
  ASSUME NEW open \in Nat, NEW breached \in BOOLEAN, NEW flagged \in BOOLEAN
  PROVE  Penalty(open, breached, flagged) \in 0..65
BY DEF Penalty, AtMost

LEMMA WeightType ==
  ASSUME NEW triage0 \in Triage, NEW tier \in Tier
  PROVE  Base(triage0) * TierQuarters[tier] \in 0..420
<1>1. TierQuarters[tier] = 4 \/ TierQuarters[tier] = 5 \/ TierQuarters[tier] = 6
  BY DEF Tier, TierQuarters
<1>2. Base(triage0) \in 0..70
  BY BaseType
<1>3. CASE TierQuarters[tier] = 4
  BY <1>2, <1>3
<1>4. CASE TierQuarters[tier] = 5
  BY <1>2, <1>4
<1>5. CASE TierQuarters[tier] = 6
  BY <1>2, <1>5
<1> QED
  BY <1>1, <1>3, <1>4, <1>5

LEMMA ScoreIs ==
  ASSUME NEW triage0, NEW tier, NEW open, NEW breached, NEW flagged
  PROVE  ScoreOf(triage0, tier, open, breached, flagged) =
           AtMost(Base(triage0) * TierQuarters[tier]
                    + 4 * Penalty(open, breached, flagged), 400)
BY DEF ScoreOf, Base, Penalty

LEMMA ScoreType ==
  ASSUME NEW triage0 \in Triage, NEW tier \in Tier, NEW open \in Nat,
         NEW breached \in BOOLEAN, NEW flagged \in BOOLEAN
  PROVE  ScoreOf(triage0, tier, open, breached, flagged) \in Score
<1> DEFINE weight == Base(triage0) * TierQuarters[tier]
           p == Penalty(open, breached, flagged)
<1>1. weight \in 0..420 /\ p \in 0..65
  BY WeightType, PenaltyType
<1>2. ScoreOf(triage0, tier, open, breached, flagged) = AtMost(weight + 4 * p, 400)
  BY ScoreIs
<1> HIDE DEF weight, p
<1> QED
  BY <1>1, <1>2 DEF AtMost, Score

\* A missed deadline or a flag never lowers the score.
LEMMA ScoreMonotone ==
  ASSUME NEW triage0 \in Triage, NEW tier \in Tier, NEW open \in Nat,
         NEW breached \in BOOLEAN, NEW flagged \in BOOLEAN,
         NEW flagged0 \in BOOLEAN, flagged0 => flagged
  PROVE  ScoreOf(triage0, tier, open, breached, flagged)
           >= ScoreOf(triage0, tier, open, FALSE, flagged0)
<1> DEFINE weight == Base(triage0) * TierQuarters[tier]
           p == Penalty(open, FALSE, flagged0)
           q == Penalty(open, breached, flagged)
<1>1. weight \in 0..420 /\ p \in 0..65 /\ q \in 0..65
  BY WeightType, PenaltyType
<1>2. q >= p
  BY DEF Penalty, AtMost
<1>3. /\ ScoreOf(triage0, tier, open, breached, flagged) = AtMost(weight + 4 * q, 400)
      /\ ScoreOf(triage0, tier, open, FALSE, flagged0) = AtMost(weight + 4 * p, 400)
  BY ScoreIs
<1> HIDE DEF weight, p, q
<1>4. AtMost(weight + 4 * q, 400) >= AtMost(weight + 4 * p, 400)
  BY <1>1, <1>2 DEF AtMost
<1> QED
  BY <1>3, <1>4

LEMMA RiskType ==
  ASSUME NEW triage0 \in Triage, NEW tier \in Tier, NEW open \in Nat,
         NEW breached \in BOOLEAN, NEW flagged \in BOOLEAN
  PROVE  RiskOf(triage0, tier, open, breached, flagged) \in Risk
<1> DEFINE score == ScoreOf(triage0, tier, open, breached, flagged)
<1>1. score \in Score
  BY ScoreType
<1> HIDE DEF score
<1>2. LevelOf(score) \in Level
  BY DEF LevelOf, Level
<1>3. triage0.team \in Team /\ DefaultTeam[triage0.intent] \in Team /\ "leadership" \in Team
  <2>1. triage0.team \in Team /\ triage0.intent \in Intent
    BY DEF Triage
  <2>2. "leadership" = DefaultTeam["legal"] /\ "legal" \in Intent
    BY DEF DefaultTeam, Intent
  <2> QED
    BY <2>1, <2>2, DefaultTeams
<1>4. RouteOf(triage0, LevelOf(score)) \in Team
  BY <1>3 DEF RouteOf
<1> QED
  BY <1>1, <1>2, <1>4 DEF RiskOf, Risk, score

LEMMA TierType == \A customer0 : TierOf(customer0) \in Tier
BY DEF TierOf, Tier

\* Every violation that makes a message risky is one that flags it.
LEMMA RiskyIsFlagged == \A text0 : IsRisky(text0) => Violations(text0) # {}
BY DEF IsRisky

-----------------------------------------------------------------------------
(* The inductive invariant: of each request, what its stage has behind it  *)

FirstRisk(r) ==
  RiskOf(triage[r], TierOf(customer[r]), customer[r].open, FALSE, IsRisky(text[r]))

\* A creation and a panel have stages of their own and an outcome only at the end;
\* only prompts with a contract have answers that break one; and after the last
\* attempt there is no backoff.
StageInv(r) ==
  /\ r \in Creations => request[r].stage # "assist"
  /\ r \in Assists => request[r].stage \in {"assist", "ended"}
  /\ request[r].stage # "ended" => outcome[r] = "none"
  /\ request[r].stage \in {"summary", "briefing"} =>
       /\ request[r].phase # "refused"
       /\ request[r].phase = "counted" => ~Breaks(r)
  /\ request[r].phase = "ask" => request[r].attempt = 0
  /\ request[r].phase = "backoff" => request[r].attempt < MaxAttempts

\* The request would do without any answer, and the one it has can be stored.
Keepable(r) == Acceptable(r) /\ (triage[r] # NoTriage => triage[r].storable)

\* What the stages of a creation hand on: the classification and the risk, and
\* for the auto-responder a committed ticket that nobody wants reviewed.
TicketInv(r) ==
  /\ request[r].stage = "triage" => triage[r] = NoTriage
  /\ request[r].stage \in {"summary", "draft", "briefing"} =>
       triage[r] \in Triage /\ risk[r] = FirstRisk(r)
  /\ request[r].stage \in {"draft", "briefing"} =>
       ticket[r] = "committed" /\ ~NeedsReview(triage[r], text[r])
  /\ request[r].stage = "ended" /\ r \notin garbled /\ Keepable(r) =>
       ticket[r] = "committed"

\* A refusal of a draft is on record only after the refusing began.
DraftInv(r) ==
  /\ \/ request[r].stage \in {"triage", "summary"}
     \/ request[r].stage = "draft" /\ request[r].phase # "refused"
     => <<r, "draft">> \notin refusals \cup audited
  /\ outcome[r] = "sent" =>
       /\ ticket[r] = "committed" /\ ~NeedsReview(triage[r], text[r])
       /\ request[r].completion = {}
       /\ <<r, "draft">> \notin refusals \cup audited

\* Until a reset, a call that is counted or refused is in its counter.
CountInv(r) ==
  ~everReset /\ request[r].stage # "ended" =>
    /\ request[r].phase \in {"counted", "refused"} => Caller(r) \in usages
    /\ request[r].phase = "refused" => Caller(r) \in refusals

\* And the panel's own call in no counter before.
PanelInv(r) ==
  ~everReset =>
    /\ request[r].stage = "assist" =>
         /\ request[r].phase \notin {"counted", "refused"} => <<r, "assist">> \notin usages
         /\ request[r].phase # "refused" => <<r, "assist">> \notin refusals
    /\ outcome[r] \in {"ok", "no_suggestions"} => <<r, "assist">> \in usages \ refusals
    /\ outcome[r] = "invalid_response" => <<r, "assist">> \in refusals
    /\ request[r].stage = "ended" /\ <<r, "assist">> \in refusals =>
         outcome[r] \in {"invalid_response", "failed"}
    /\ outcome[r] \in {"not_configured", "provider_error"} => <<r, "assist">> \notin usages

RequestInv(r) ==
  /\ StageInv(r) /\ CountInv(r)
  /\ r \in Creations => TicketInv(r) /\ DraftInv(r)
  /\ r \in Assists => PanelInv(r)

IInv == TypeOK /\ RefusalsAreCalls /\ \A r \in Requests : RequestInv(r)

-----------------------------------------------------------------------------

LEMMA NoRiskType == NoRisk \in Risk
<1>1. 0 \in Score
  BY DEF Score
<1>2. "low" \in Level
  BY DEF Level
<1>3. "" \in Team
  BY DEF Team
<1> QED
  BY <1>1, <1>2, <1>3 DEF NoRisk, Risk

LEMMA InitIInv == Init => IInv
<1> SUFFICES ASSUME Init PROVE IInv
  OBVIOUS
<1> USE GatewayAssumption DEF Init
<1>1. request \in [Requests -> Request]
  BY DEF Requests, Request, Stage, Phase
<1>2. risk \in [Creations -> Risk]
  BY NoRiskType
<1>3. TypeOK
  BY <1>1, <1>2 DEF TypeOK
<1>4. ASSUME NEW r \in Requests
      PROVE  RequestInv(r)
  BY DEF RequestInv, StageInv, TicketInv, DraftInv, CountInv, PanelInv, Requests
<1> QED
  BY <1>3, <1>4 DEF IInv, RefusalsAreCalls

-----------------------------------------------------------------------------
(* A step of one request does nothing to the others *)

\* What a step of r may change.
Touches(r) ==
  /\ \A q \in Requests \ {r} : request'[q] = request[q] /\ outcome'[q] = outcome[q]
  /\ \A q \in Creations \ {r} :
       /\ triage'[q] = triage[q] /\ risk'[q] = risk[q] /\ ticket'[q] = ticket[q]
       /\ q \in garbled' <=> q \in garbled
  /\ \A q \in Requests \ {r}, stage \in Stage :
       /\ <<q, stage>> \in usages' <=> <<q, stage>> \in usages
       /\ <<q, stage>> \in refusals' <=> <<q, stage>> \in refusals
       /\ <<q, stage>> \in audited' <=> <<q, stage>> \in audited
  /\ UNCHANGED <<provider, cases, everReset>>

LEMMA OthersKeepInv ==
  ASSUME IInv, NEW r \in Requests, Touches(r), NEW q \in Requests \ {r}
  PROVE  RequestInv(q)'
<1>1. /\ request'[q] = request[q] /\ outcome'[q] = outcome[q]
      /\ q \in Creations => /\ triage'[q] = triage[q] /\ risk'[q] = risk[q]
                            /\ ticket'[q] = ticket[q] /\ (q \in garbled' <=> q \in garbled)
      /\ text' = text /\ customer' = customer /\ everReset' = everReset
  BY DEF Touches, cases
<1>2. request[q].stage \in Stage /\ "draft" \in Stage /\ "assist" \in Stage
  BY DEF IInv, TypeOK, Request, Stage
<1>3. ASSUME NEW stage \in Stage
      PROVE  /\ <<q, stage>> \in usages' <=> <<q, stage>> \in usages
             /\ <<q, stage>> \in refusals' <=> <<q, stage>> \in refusals
             /\ <<q, stage>> \in audited' <=> <<q, stage>> \in audited
  BY DEF Touches
<1>4. RequestInv(q)
  BY DEF IInv
<1>5. StageInv(q)'
  BY <1>1, <1>4 DEF RequestInv, StageInv, Breaks
<1>6. CountInv(q)'
  BY <1>1, <1>2, <1>3, <1>4 DEF RequestInv, CountInv, Caller
<1>7. q \in Creations => TicketInv(q)'
  BY <1>1, <1>4 DEF RequestInv, TicketInv, FirstRisk, Keepable, Acceptable
<1>8. q \in Creations => DraftInv(q)'
  BY <1>1, <1>2, <1>3, <1>4 DEF RequestInv, DraftInv
<1>9. q \in Assists => PanelInv(q)'
  BY <1>1, <1>2, <1>3, <1>4 DEF RequestInv, PanelInv
<1> QED
  BY <1>5, <1>6, <1>7, <1>8, <1>9 DEF RequestInv

LEMMA OneMoves ==
  ASSUME IInv, NEW r \in Requests, Touches(r), TypeOK', RefusalsAreCalls',
         RequestInv(r)'
  PROVE  IInv'
<1>1. \A q \in Requests : RequestInv(q)'
  BY OthersKeepInv
<1> QED
  BY <1>1 DEF IInv

-----------------------------------------------------------------------------
(* What the callers do when a call is over *)

\* The counters meanwhile: a refused call may get its audit row.
Quiet(r) ==
  /\ UNCHANGED <<provider, cases, usages, refusals, everReset>>
  /\ \/ UNCHANGED audited
     \/ audited' = audited \cup {Caller(r)} /\ request[r].phase = "refused"

LEMMA GoesOn ==
  ASSUME TypeOK, NEW r \in Requests, NEW stage \in Stage,
         NEW completion \in SUBSET Fault, Goes(r, stage, completion)
  PROVE  /\ request' \in [Requests -> Request]
         /\ request'[r].stage = stage /\ request'[r].phase = "ask" /\ request'[r].attempt = 0
         /\ request'[r].completion = completion
         /\ \A q \in Requests \ {r} : request'[q] = request[q]
<1> DEFINE new == [stage |-> stage, phase |-> "ask", attempt |-> 0,
                   completion |-> completion]
<1>1. new \in Request
  BY GatewayAssumption DEF Request, Phase
<1>2. request' = [request EXCEPT ![r] = new] /\ request \in [Requests -> Request]
  BY DEF Goes, TypeOK
<1> HIDE DEF new
<1>3. /\ request' \in [Requests -> Request] /\ request'[r] = new
      /\ \A q \in Requests \ {r} : request'[q] = request[q]
  BY <1>1, <1>2
<1> QED
  BY <1>3 DEF new

LEMMA QuietCounters ==
  ASSUME IInv, NEW r \in Requests, request[r].stage # "ended", Quiet(r)
  PROVE  /\ usages' \subseteq Call /\ refusals' \subseteq Call /\ audited' \subseteq Call
         /\ RefusalsAreCalls'
         /\ provider' \in {"none", "incomplete", "mock", "remote"}
         /\ text' \in [Creations -> Texts] /\ customer' \in [Creations -> Customers]
         /\ everReset' \in BOOLEAN
         /\ \A q \in Requests \ {r}, stage \in Stage :
              /\ <<q, stage>> \in usages' <=> <<q, stage>> \in usages
              /\ <<q, stage>> \in refusals' <=> <<q, stage>> \in refusals
              /\ <<q, stage>> \in audited' <=> <<q, stage>> \in audited
         /\ UNCHANGED <<provider, cases, everReset>>
<1>1. Caller(r) \in Call /\ Caller(r) = <<r, request[r].stage>>
  BY DEF IInv, TypeOK, Caller, Call, Request
<1>2. ~everReset /\ request[r].phase = "refused" => Caller(r) \in refusals
  BY DEF IInv, RequestInv, CountInv
<1>3. TypeOK /\ RefusalsAreCalls
  BY DEF IInv
<1> QED
  BY <1>1, <1>2, <1>3 DEF TypeOK, RefusalsAreCalls, Quiet, cases

LEMMA WhoIsWho ==
  ASSUME IInv, NEW r \in Requests
  PROVE  /\ request[r].stage \in {"triage", "summary", "draft", "briefing"} =>
              r \in Creations /\ r \notin Assists
         /\ request[r].stage = "assist" => r \in Assists /\ r \notin Creations
         /\ request[r] \in Request
BY GatewayAssumption DEF IInv, RequestInv, StageInv, Requests, TypeOK

\* The end of a creation without a ticket.
LEMMA LostKeepsInv ==
  ASSUME IInv, NEW r \in Requests, request[r].stage \in {"triage", "summary"},
         Loses(r), Quiet(r),
         \/ garbled' = garbled \cup {r}
         \/ garbled' = garbled /\ ScreeningRaises(text[r])
  PROVE  IInv'
<1>1. r \in Creations /\ r \notin Assists
  BY WhoIsWho
<1>2. TypeOK /\ StageInv(r) /\ TicketInv(r) /\ DraftInv(r)
  BY <1>1 DEF IInv, RequestInv
<1>0. /\ ticket' = [ticket EXCEPT ![r] = "lost"] /\ Goes(r, "ended", {})
      /\ UNCHANGED <<triage, risk, outcome>>
  BY DEF Loses
<1>3. /\ request' \in [Requests -> Request]
      /\ request'[r].stage = "ended" /\ request'[r].phase = "ask" /\ request'[r].attempt = 0
      /\ \A q \in Requests \ {r} : request'[q] = request[q]
  BY <1>0, <1>2, GoesOn DEF Stage
<1>4. /\ ticket' \in [Creations -> {"none", "committed", "lost"}]
      /\ \A q \in Creations \ {r} : ticket'[q] = ticket[q]
  BY <1>0, <1>1, <1>2 DEF TypeOK
<1>5. TypeOK' /\ RefusalsAreCalls' /\ Touches(r)
  BY <1>0, <1>1, <1>2, <1>3, <1>4, QuietCounters DEF TypeOK, Touches
<1>6. StageInv(r)' /\ CountInv(r)'
  BY <1>0, <1>1, <1>2, <1>3 DEF StageInv, CountInv
<1>7. TicketInv(r)'
  <2>1. r \in garbled' \/ ~Acceptable(r)'
    BY DEF Quiet, cases, Acceptable
  <2> QED
    BY <1>3, <2>1 DEF TicketInv, Keepable
<1>8. DraftInv(r)'
  BY <1>0, <1>1, <1>2, <1>3 DEF StageInv, DraftInv
<1> QED
  BY <1>1, <1>5, <1>6, <1>7, <1>8, OneMoves DEF RequestInv

\* A commit ends with the ticket and the next stage, or with neither.
LEMMA CommitEither ==
  ASSUME TypeOK, NEW r \in Creations, NEW result, NEW next \in Stage,
         Commits(r, result, next)
  PROVE  /\ ticket' \in [Creations -> {"none", "committed", "lost"}]
         /\ \A q \in Creations \ {r} : ticket'[q] = ticket[q]
         /\ \/ ticket'[r] = "committed" /\ Goes(r, next, {})
            \/ Goes(r, "ended", {}) /\ ~(text[r].storable /\ result.storable)
BY DEF Commits, TypeOK

LEMMA ScoredKeepsInv ==
  ASSUME IInv, NEW r \in Requests, request[r].stage = "triage",
         NEW result \in Triage, Scored(r, result), Quiet(r), garbled' = garbled
  PROVE  IInv'
<1> DEFINE scored == RiskOf(result, TierOf(customer[r]), customer[r].open, FALSE,
                            IsRisky(text[r]))
           summary == NeedsReview(result, text[r]) \/ AtRisk(scored)
<1>1. r \in Creations /\ r \notin Assists
  BY WhoIsWho
<1>2. TypeOK /\ RequestInv(r)
  BY DEF IInv
<1>3. scored \in Risk
  <2>1. customer[r].open \in Nat
    BY <1>1, <1>2, GatewayAssumption DEF TypeOK, Customer
  <2>2. IsRisky(text[r]) \in BOOLEAN
    BY DEF IsRisky
  <2> QED
    BY <2>1, <2>2, TierType, RiskType
<1>4. /\ triage' = [triage EXCEPT ![r] = result]
      /\ risk' = [risk EXCEPT ![r] = scored]
      /\ outcome' = outcome
      /\ \/ summary /\ Goes(r, "summary", {}) /\ ticket' = ticket
         \/ ~summary /\ Commits(r, result, "draft")
  BY DEF Scored
<1>5. scored = FirstRisk(r)' /\ (~summary => ~NeedsReview(result, text[r]))
  <2>1. triage'[r] = result /\ customer' = customer /\ text' = text
    BY <1>1, <1>2, <1>4 DEF TypeOK, Quiet, cases
  <2> QED
    BY <2>1 DEF FirstRisk
<1> HIDE DEF scored, summary
<1>6. /\ ticket' \in [Creations -> {"none", "committed", "lost"}]
      /\ \A q \in Creations \ {r} : ticket'[q] = ticket[q]
      /\ \/ Goes(r, "summary", {})
         \/ ~summary /\ ticket'[r] = "committed" /\ Goes(r, "draft", {})
         \/ Goes(r, "ended", {}) /\ ~(text[r].storable /\ result.storable)
  <2>1. CASE ~summary /\ Commits(r, result, "draft")
    <3>1. "draft" \in Stage
      BY DEF Stage
    <3> QED
      BY <1>1, <1>2, <2>1, <3>1, CommitEither
  <2>2. CASE Goes(r, "summary", {}) /\ ticket' = ticket
    BY <1>2, <2>2 DEF TypeOK
  <2> QED
    BY <1>4, <2>1, <2>2
<1>7. /\ triage' \in [Creations -> Triage \cup {NoTriage}] /\ triage'[r] = result
      /\ risk' \in [Creations -> Risk] /\ risk'[r] = scored
      /\ \A q \in Creations \ {r} : triage'[q] = triage[q] /\ risk'[q] = risk[q]
  BY <1>1, <1>2, <1>3, <1>4 DEF TypeOK
<1>8. PICK stage \in {"summary", "draft", "ended"} :
        /\ Goes(r, stage, {})
        /\ stage = "draft" => ~summary /\ ticket'[r] = "committed"
        /\ stage = "ended" => ~(text[r].storable /\ result.storable)
  BY <1>6
<1>9. /\ request' \in [Requests -> Request] /\ request'[r].stage = stage
      /\ request'[r].phase = "ask" /\ request'[r].attempt = 0 /\ request'[r].completion = {}
      /\ \A q \in Requests \ {r} : request'[q] = request[q]
  BY <1>2, <1>8, GoesOn DEF Stage
<1>10. TypeOK' /\ RefusalsAreCalls' /\ Touches(r)
  BY <1>2, <1>4, <1>6, <1>7, <1>9, QuietCounters DEF TypeOK, Touches
<1>11. StageInv(r)' /\ CountInv(r)'
  BY <1>1, <1>2, <1>4, <1>8, <1>9 DEF RequestInv, StageInv, CountInv
<1>12. TicketInv(r)'
  <2>1. text' = text
    BY DEF Quiet, cases
  <2>2. result # NoTriage
    BY DEF NoTriage, Triage, Intent
  <2>3. stage = "ended" => ~Keepable(r)'
    BY <1>7, <1>8, <2>1, <2>2 DEF Keepable, Acceptable
  <2> QED
    BY <1>5, <1>7, <1>8, <1>9, <2>1, <2>3 DEF TicketInv
<1>13. DraftInv(r)'
  <2>1. <<r, "draft">> \notin refusals \cup audited /\ outcome[r] = "none"
    BY <1>1, <1>2 DEF RequestInv, DraftInv, StageInv
  <2>2. <<r, "draft">> \notin refusals' \cup audited'
    BY <2>1 DEF Quiet, Caller
  <2> QED
    BY <1>4, <2>1, <2>2 DEF DraftInv
<1> QED
  BY <1>1, <1>10, <1>11, <1>12, <1>13, OneMoves DEF RequestInv

LEMMA ClassifiedKeepsInv ==
  ASSUME IInv, NEW r \in Requests, request[r].stage = "triage",
         NEW result \in Triage, Classified(r, result), Quiet(r), garbled' = garbled
  PROVE  IInv'
BY ScoredKeepsInv, LostKeepsInv DEF Classified

LEMMA SummarizedKeepsInv ==
  ASSUME IInv, NEW r \in Requests, request[r].stage = "summary",
         Summarized(r), Quiet(r), garbled' = garbled
  PROVE  IInv'
<1> DEFINE next == IF NeedsReview(triage[r], text[r]) THEN "ended" ELSE "draft"
<1>1. r \in Creations /\ r \notin Assists
  BY WhoIsWho
<1>2. TypeOK /\ StageInv(r) /\ TicketInv(r) /\ DraftInv(r)
  BY <1>1 DEF IInv, RequestInv
<1>3. Commits(r, triage[r], next) /\ UNCHANGED <<triage, risk, outcome>>
  BY DEF Summarized
<1>4. /\ next \in Stage
      /\ \/ next = "draft" /\ ~NeedsReview(triage[r], text[r])
         \/ next = "ended"
  BY DEF Stage
<1> HIDE DEF next
<1>5. /\ ticket' \in [Creations -> {"none", "committed", "lost"}]
      /\ \A q \in Creations \ {r} : ticket'[q] = ticket[q]
      /\ \/ ticket'[r] = "committed" /\ Goes(r, next, {})
         \/ Goes(r, "ended", {}) /\ ~(text[r].storable /\ triage[r].storable)
  BY <1>1, <1>2, <1>3, <1>4, CommitEither
<1>6. PICK stage \in {"draft", "ended"} :
        /\ Goes(r, stage, {})
        /\ stage = "draft" => ~NeedsReview(triage[r], text[r])
        /\ \/ ticket'[r] = "committed"
           \/ stage = "ended" /\ ~(text[r].storable /\ triage[r].storable)
  BY <1>4, <1>5
<1>7. /\ request' \in [Requests -> Request] /\ request'[r].stage = stage
      /\ request'[r].phase = "ask" /\ request'[r].attempt = 0
      /\ \A q \in Requests \ {r} : request'[q] = request[q]
  BY <1>2, <1>6, GoesOn DEF Stage
<1>8. TypeOK' /\ RefusalsAreCalls' /\ Touches(r)
  BY <1>2, <1>3, <1>5, <1>7, QuietCounters DEF TypeOK, Touches
<1>9. StageInv(r)' /\ CountInv(r)'
  BY <1>1, <1>2, <1>3, <1>6, <1>7 DEF StageInv, CountInv
<1>10. TicketInv(r)'
  <2>1. text' = text /\ customer' = customer
    BY DEF Quiet, cases
  <2>2. triage[r] \in Triage /\ triage[r] # NoTriage
    BY <1>2 DEF TicketInv, NoTriage, Triage, Intent
  <2>3. ticket'[r] = "committed" \/ (stage = "ended" /\ ~Keepable(r)')
    BY <1>3, <1>6, <2>1, <2>2 DEF Keepable, Acceptable
  <2> QED
    BY <1>2, <1>3, <1>6, <1>7, <2>1, <2>3 DEF TicketInv, FirstRisk
<1>11. DraftInv(r)'
  <2>1. <<r, "draft">> \notin refusals' \cup audited' /\ outcome[r] = "none"
    BY <1>2 DEF DraftInv, StageInv, Quiet, Caller
  <2> QED
    BY <1>3, <2>1 DEF DraftInv
<1> QED
  BY <1>1, <1>8, <1>9, <1>10, <1>11, OneMoves DEF RequestInv

LEMMA ToReviewKeepsInv ==
  ASSUME IInv, NEW r \in Requests, request[r].stage = "draft",
         ToReview(r), Quiet(r), garbled' = garbled
  PROVE  IInv'
<1>1. r \in Creations /\ r \notin Assists
  BY WhoIsWho
<1>2. TypeOK /\ StageInv(r) /\ TicketInv(r) /\ DraftInv(r)
  BY <1>1 DEF IInv, RequestInv
<1>3. Goes(r, "briefing", {}) /\ UNCHANGED <<triage, risk, ticket, outcome>>
  BY DEF ToReview, ticketVars
<1>4. /\ request' \in [Requests -> Request]
      /\ request'[r].stage = "briefing" /\ request'[r].phase = "ask" /\ request'[r].attempt = 0
      /\ \A q \in Requests \ {r} : request'[q] = request[q]
  BY <1>2, <1>3, GoesOn DEF Stage
<1>5. TypeOK' /\ RefusalsAreCalls' /\ Touches(r)
  BY <1>2, <1>3, <1>4, QuietCounters DEF TypeOK, Touches
<1>6. StageInv(r)' /\ CountInv(r)'
  BY <1>1, <1>2, <1>3, <1>4 DEF StageInv, CountInv
<1>7. TicketInv(r)'
  <2>1. text' = text /\ customer' = customer
    BY DEF Quiet, cases
  <2> QED
    BY <1>2, <1>3, <1>4, <2>1 DEF TicketInv, FirstRisk
<1>8. DraftInv(r)'
  BY <1>2, <1>3, <1>4 DEF DraftInv, StageInv
<1> QED
  BY <1>1, <1>5, <1>6, <1>7, <1>8, OneMoves DEF RequestInv

LEMMA RescoredType ==
  ASSUME IInv, NEW r \in Requests, request[r].stage = "briefing",
         NEW breached \in BOOLEAN
  PROVE  /\ Rescored(r, breached) \in Risk
         /\ Rescored(r, breached).score >= risk[r].score
<1>1. r \in Creations
  BY WhoIsWho
<1>2. /\ triage[r] \in Triage /\ risk[r] = FirstRisk(r)
      /\ customer[r].open \in Nat
  BY <1>1, GatewayAssumption DEF IInv, RequestInv, TicketInv, TypeOK, Customer
<1>3. TierOf(customer[r]) \in Tier /\ IsRisky(text[r]) \in BOOLEAN
  BY TierType DEF IsRisky
<1>4. (Violations(text[r]) # {}) \in BOOLEAN
  OBVIOUS
<1>5. Rescored(r, breached) \in Risk
  BY <1>2, <1>3, <1>4, RiskType DEF Rescored
<1>6. ScoreOf(triage[r], TierOf(customer[r]), customer[r].open, breached,
              Violations(text[r]) # {})
        >= ScoreOf(triage[r], TierOf(customer[r]), customer[r].open, FALSE,
                   IsRisky(text[r]))
  BY <1>2, <1>3, <1>4, RiskyIsFlagged, ScoreMonotone
<1>7. /\ Rescored(r, breached).score =
           ScoreOf(triage[r], TierOf(customer[r]), customer[r].open, breached,
                   Violations(text[r]) # {})
      /\ risk[r].score =
           ScoreOf(triage[r], TierOf(customer[r]), customer[r].open, FALSE,
                   IsRisky(text[r]))
  BY <1>2 DEF Rescored, FirstRisk, RiskOf
<1> QED
  BY <1>5, <1>6, <1>7

LEMMA BriefedKeepsInv ==
  ASSUME IInv, NEW r \in Requests, request[r].stage = "briefing",
         Briefed(r), Quiet(r), garbled' = garbled
  PROVE  IInv'
<1>1. r \in Creations /\ r \notin Assists
  BY WhoIsWho
<1>2. TypeOK /\ StageInv(r) /\ TicketInv(r) /\ DraftInv(r)
  BY <1>1 DEF IInv, RequestInv
<1>3. PICK breached \in BOOLEAN : risk' = [risk EXCEPT ![r] = Rescored(r, breached)]
  BY DEF Briefed
<1>4. /\ outcome' = [outcome EXCEPT ![r] = "review"]
      /\ Goes(r, "ended", {})
      /\ UNCHANGED <<triage, ticket>>
  BY DEF Briefed
<1>5. /\ request' \in [Requests -> Request]
      /\ request'[r].stage = "ended" /\ request'[r].phase = "ask" /\ request'[r].attempt = 0
      /\ \A q \in Requests \ {r} : request'[q] = request[q]
  BY <1>2, <1>4, GoesOn DEF Stage
<1>6. /\ risk' \in [Creations -> Risk]
      /\ \A q \in Creations \ {r} : risk'[q] = risk[q]
  BY <1>1, <1>2, <1>3, RescoredType DEF TypeOK
<1>7. /\ outcome' \in [Requests -> {"none", "sent", "review", "skipped", "ok",
                               "no_suggestions", "not_configured",
                               "provider_error", "invalid_response", "failed"}]
      /\ outcome'[r] = "review"
      /\ \A q \in Requests \ {r} : outcome'[q] = outcome[q]
  BY <1>2, <1>4 DEF TypeOK
<1>8. TypeOK' /\ RefusalsAreCalls' /\ Touches(r)
  BY <1>2, <1>4, <1>5, <1>6, <1>7, QuietCounters DEF TypeOK, Touches
<1>9. StageInv(r)' /\ CountInv(r)' /\ TicketInv(r)' /\ DraftInv(r)'
  BY <1>1, <1>2, <1>4, <1>5, <1>7 DEF StageInv, CountInv, TicketInv, DraftInv
<1> QED
  BY <1>1, <1>8, <1>9, OneMoves DEF RequestInv

\* The end of a request whose ticket, if it creates one, is committed.
LEMMA EndsKeepsInv ==
  ASSUME IInv, NEW r \in Requests, request[r].stage \in {"draft", "briefing", "assist"},
         NEW how \in {"sent", "skipped", "ok", "no_suggestions", "not_configured",
                      "provider_error", "invalid_response", "failed"},
         Ends(r, how), Quiet(r), garbled' = garbled,
         how = "sent" => /\ request[r].stage = "draft" /\ request[r].phase # "refused"
                         /\ request[r].completion = {},
         request[r].stage = "assist" /\ how \in {"ok", "no_suggestions"} =>
           request[r].phase = "counted",
         request[r].stage = "assist" /\ how = "invalid_response" =>
           request[r].phase = "refused",
         request[r].stage = "assist" /\ request[r].phase = "refused" =>
           how \in {"invalid_response", "failed"},
         request[r].stage = "assist" /\ how \in {"not_configured", "provider_error"} =>
           request[r].phase \notin {"counted", "refused"}
  PROVE  IInv'
<1>1. /\ r \in Assists <=> request[r].stage = "assist"
      /\ r \in Creations <=> request[r].stage # "assist"
      /\ request[r].completion \in SUBSET Fault
  BY WhoIsWho DEF Request
<1>2. /\ TypeOK /\ StageInv(r) /\ CountInv(r)
      /\ r \in Creations => TicketInv(r) /\ DraftInv(r)
      /\ r \in Assists => PanelInv(r)
  BY DEF IInv, RequestInv
<1>3. /\ outcome' = [outcome EXCEPT ![r] = how]
      /\ Goes(r, "ended", request[r].completion)
      /\ UNCHANGED <<triage, risk, ticket>>
  BY DEF Ends
<1>4. /\ request' \in [Requests -> Request]
      /\ request'[r].stage = "ended" /\ request'[r].phase = "ask" /\ request'[r].attempt = 0
      /\ request'[r].completion = request[r].completion
      /\ \A q \in Requests \ {r} : request'[q] = request[q]
  BY <1>1, <1>2, <1>3, GoesOn DEF Stage
<1>5. /\ outcome' \in [Requests -> {"none", "sent", "review", "skipped", "ok",
                               "no_suggestions", "not_configured",
                               "provider_error", "invalid_response", "failed"}]
      /\ outcome'[r] = how
      /\ \A q \in Requests \ {r} : outcome'[q] = outcome[q]
  BY <1>2, <1>3 DEF TypeOK
<1>6. TypeOK' /\ RefusalsAreCalls' /\ Touches(r)
  BY <1>2, <1>3, <1>4, <1>5, QuietCounters DEF TypeOK, Touches
<1>7. StageInv(r)' /\ CountInv(r)'
  BY <1>1, <1>4 DEF StageInv, CountInv
<1>8. ASSUME r \in Creations
      PROVE  TicketInv(r)' /\ DraftInv(r)'
  <2>1. ticket[r] = "committed" /\ ~NeedsReview(triage[r], text[r])
    BY <1>1, <1>2, <1>8 DEF TicketInv
  <2>2. how = "sent" => <<r, "draft">> \notin refusals' \cup audited'
    BY <1>2, <1>8 DEF DraftInv, Quiet
  <2>3. text' = text
    BY DEF Quiet, cases
  <2> QED
    BY <1>3, <1>4, <1>5, <2>1, <2>2, <2>3 DEF TicketInv, DraftInv
<1>9. ASSUME r \in Assists
      PROVE  PanelInv(r)'
  <2>1. /\ request[r].stage = "assist" /\ Caller(r) = <<r, "assist">>
        /\ usages' = usages /\ refusals' = refusals /\ everReset' = everReset
    BY <1>1, <1>9 DEF Caller, Quiet
  <2>2. how \in {"ok", "no_suggestions", "not_configured", "provider_error",
                 "invalid_response", "failed", "skipped"}
    BY <1>9, <2>1
  <2> QED
    BY <1>2, <1>4, <1>5, <1>9, <2>1, <2>2 DEF PanelInv, CountInv
<1> QED
  BY <1>6, <1>7, <1>8, <1>9, OneMoves DEF RequestInv

LEMMA StagesAre ==
  ASSUME IInv, NEW r \in Requests, request[r].stage # "ended"
  PROVE  request[r].stage \in {"triage", "summary", "draft", "briefing", "assist"}
BY DEF IInv, TypeOK, Request, Stage

LEMMA AnsweredKeepsInv ==
  ASSUME IInv, NEW r \in Requests, request[r].stage # "ended",
         request[r].phase = "counted", Answered(r), Quiet(r), garbled' = garbled
  PROVE  IInv'
<1>1. CASE request[r].stage = "triage"
  <2>1. PICK answer \in Answers : Classified(r, answer)
    BY <1>1 DEF Answered
  <2> QED
    BY <1>1, <2>1, ClassifiedKeepsInv, GatewayAssumption
<1>2. CASE request[r].stage = "summary"
  <2>1. Summarized(r)
    BY <1>2 DEF Answered
  <2> QED
    BY <1>2, <2>1, SummarizedKeepsInv
<1>3. CASE request[r].stage = "draft"
  <2>1. Drafted(r)
    BY <1>3 DEF Answered
  <2>2. CASE Reasons(request[r].completion) = {}
    <3>1. Ends(r, "sent")
      BY <2>1, <2>2 DEF Drafted
    <3>2. request[r].completion = {}
      BY <2>2 DEF Reasons
    <3> QED
      BY <1>3, <3>1, <3>2, EndsKeepsInv
  <2>3. CASE Reasons(request[r].completion) # {}
    <3>1. ToReview(r)
      BY <2>1, <2>3 DEF Drafted
    <3> QED
      BY <1>3, <3>1, ToReviewKeepsInv
  <2> QED
    BY <2>2, <2>3
<1>4. CASE request[r].stage = "briefing"
  <2>1. Briefed(r)
    BY <1>4 DEF Answered
  <2> QED
    BY <1>4, <2>1, BriefedKeepsInv
<1>5. CASE request[r].stage = "assist"
  <2>1. Suggested(r)
    BY <1>5 DEF Answered
  <2>2. Ends(r, "no_suggestions") \/ Ends(r, "ok") \/ Ends(r, "failed")
    BY <2>1 DEF Suggested, Shows
  <2> QED
    BY <1>5, <2>2, EndsKeepsInv
<1> QED
  BY <1>1, <1>2, <1>3, <1>4, <1>5, StagesAre

LEMMA UnansweredKeepsInv ==
  ASSUME IInv, NEW r \in Requests, request[r].stage # "ended",
         request[r].phase \in {"ask", "asking"},
         Unanswered(r), Quiet(r), garbled' = garbled
  PROVE  IInv'
<1>1. CASE request[r].stage = "triage"
  <2>1. Classified(r, KeywordTriage(text[r]))
    BY <1>1 DEF Unanswered, TriageFails
  <2>2. KeywordTriage(text[r]) \in Triage
    BY KeywordTriageType
  <2> QED
    BY <1>1, <2>1, <2>2, ClassifiedKeepsInv
<1>2. CASE request[r].stage = "summary"
  <2>1. Summarized(r)
    BY <1>2 DEF Unanswered
  <2> QED
    BY <1>2, <2>1, SummarizedKeepsInv
<1>3. CASE request[r].stage = "draft"
  <2>1. Ends(r, "skipped")
    BY <1>3 DEF Unanswered
  <2> QED
    BY <1>3, <2>1, EndsKeepsInv
<1>4. CASE request[r].stage = "briefing"
  <2>1. Briefed(r)
    BY <1>4 DEF Unanswered
  <2> QED
    BY <1>4, <2>1, BriefedKeepsInv
<1>5. CASE request[r].stage = "assist"
  <2>1. Ends(r, "not_configured") \/ Ends(r, "provider_error") \/ Ends(r, "failed")
    BY <1>5 DEF Unanswered, Shows
  <2> QED
    BY <1>5, <2>1, EndsKeepsInv
<1> QED
  BY <1>1, <1>2, <1>3, <1>4, <1>5, StagesAre

LEMMA RefusedKeepsInv ==
  ASSUME IInv, NEW r \in Requests, request[r].stage # "ended",
         request[r].phase = "refused",
         Refused(r), Quiet(r), garbled' = garbled
  PROVE  IInv'
<1>1. CASE request[r].stage = "triage"
  <2>1. Classified(r, KeywordTriage(text[r]))
    BY <1>1 DEF Refused, TriageFails
  <2>2. KeywordTriage(text[r]) \in Triage
    BY KeywordTriageType
  <2> QED
    BY <1>1, <2>1, <2>2, ClassifiedKeepsInv
<1>2. CASE request[r].stage = "draft"
  <2>1. ToReview(r)
    BY <1>2 DEF Refused
  <2> QED
    BY <1>2, <2>1, ToReviewKeepsInv
<1>3. CASE request[r].stage = "assist"
  <2>1. Ends(r, "invalid_response") \/ Ends(r, "failed")
    BY <1>3 DEF Refused, RefusedStatus, Shows
  <2> QED
    BY <1>3, <2>1, EndsKeepsInv
<1>4. request[r].stage \notin {"summary", "briefing"}
  BY DEF IInv, RequestInv, StageInv
<1> QED
  BY <1>1, <1>2, <1>3, <1>4, StagesAre

LEMMA RaisedKeepsInv ==
  ASSUME IInv, NEW r \in Requests, request[r].stage # "ended",
         request[r].phase \in {"asking", "counted"}, RaisedByAnswer(r)
  PROVE  IInv'
<1>0. /\ Raised(r) /\ Quiet(r)
      /\ garbled' = IF request[r].stage \in {"triage", "summary"}
                    THEN garbled \cup {r} ELSE garbled
  BY DEF RaisedByAnswer, Quiet, Counters
<1>1. CASE request[r].stage \in {"triage", "summary"}
  <2>1. Loses(r)
    BY <1>0, <1>1 DEF Raised
  <2> QED
    BY <1>0, <1>1, <2>1, LostKeepsInv
<1>2. CASE request[r].stage \in {"draft", "briefing"}
  <2>1. Ends(r, "skipped")
    BY <1>0, <1>2 DEF Raised
  <2> QED
    BY <1>0, <1>2, <2>1, EndsKeepsInv
<1>3. CASE request[r].stage = "assist"
  <2>1. Ends(r, "failed")
    BY <1>0, <1>3 DEF Raised
  <2> QED
    BY <1>0, <1>3, <2>1, EndsKeepsInv
<1> QED
  BY <1>1, <1>2, <1>3, StagesAre

-----------------------------------------------------------------------------
(* The attempts of a call *)

LEMMA WithinCall ==
  ASSUME IInv, NEW r \in Requests, request[r].stage # "ended",
         NEW new \in Request, request' = [request EXCEPT ![r] = new],
         UNCHANGED <<provider, cases, ticketVars, audited, garbled, everReset>>,
         usages' = usages \/ usages' = usages \cup {Caller(r)},
         refusals' = refusals \/ refusals' = refusals \cup {Caller(r)}
  PROVE  TypeOK' /\ Touches(r) /\ request'[r] = new
<1>1. Caller(r) \in Call /\ Caller(r) = <<r, request[r].stage>>
  BY DEF IInv, TypeOK, Caller, Call, Request
<1>2. TypeOK
  BY DEF IInv
<1>3. /\ request' \in [Requests -> Request] /\ request'[r] = new
      /\ \A q \in Requests \ {r} : request'[q] = request[q]
  BY <1>2 DEF TypeOK
<1>4. TypeOK'
  BY <1>1, <1>2, <1>3 DEF TypeOK, cases, ticketVars
<1>5. Touches(r)
  BY <1>1, <1>3 DEF Touches, ticketVars
<1> QED
  BY <1>3, <1>4, <1>5

\* A step within a call that is not counted yet, nor by this step.
LEMMA AttemptKeepsInv ==
  ASSUME IInv, NEW r \in Requests, request[r].stage # "ended",
         request[r].phase \notin {"counted", "refused"},
         NEW new \in Request, new.stage = request[r].stage,
         new.phase \notin {"ask", "counted", "refused"},
         new.phase = "backoff" => new.attempt < MaxAttempts,
         request' = [request EXCEPT ![r] = new],
         UNCHANGED <<provider, cases, ticketVars, Counters, garbled, everReset>>
  PROVE  IInv'
<1>1. TypeOK' /\ Touches(r) /\ request'[r] = new
  BY WithinCall DEF Counters
<1>2. RequestInv(r) /\ RefusalsAreCalls
  BY DEF IInv
<1>3. RefusalsAreCalls'
  BY <1>2 DEF RefusalsAreCalls, Counters
<1>4. StageInv(r)' /\ CountInv(r)'
  BY <1>1, <1>2 DEF RequestInv, StageInv, CountInv, ticketVars
<1>5. r \in Creations => TicketInv(r)' /\ DraftInv(r)'
  BY <1>1, <1>2 DEF RequestInv, StageInv, TicketInv, DraftInv, FirstRisk, Keepable, Acceptable, ticketVars,
                    cases, Counters
<1>6. r \in Assists => PanelInv(r)'
  BY <1>1, <1>2 DEF RequestInv, PanelInv, ticketVars, Counters
<1> QED
  BY <1>1, <1>3, <1>4, <1>5, <1>6, OneMoves DEF RequestInv

LEMMA AskKeepsInv ==
  ASSUME IInv, NEW r \in Requests, Ask(r)
  PROVE  IInv'
<1> DEFINE new == [request[r] EXCEPT !.phase = "asking", !.attempt = @ + 1]
<1>1. /\ request[r] \in Request /\ StageInv(r)
      /\ request[r].stage # "ended" /\ request[r].phase \in {"ask", "backoff"}
  BY WhoIsWho DEF IInv, RequestInv, Ask, At
<1>2. request[r].attempt + 1 \in 0..MaxAttempts
  BY <1>1, GatewayAssumption DEF StageInv, Request
<1>3. /\ new \in Request /\ new.stage = request[r].stage /\ new.phase = "asking"
  BY <1>1, <1>2 DEF Request, Phase
<1>4. request' = [request EXCEPT ![r] = new]
  BY DEF Ask
<1> HIDE DEF new
<1> QED
  BY <1>1, <1>3, <1>4, AttemptKeepsInv DEF Ask

LEMMA AttemptFailsKeepsInv ==
  ASSUME IInv, NEW r \in Requests, AttemptFails(r)
  PROVE  IInv'
<1> DEFINE new == [request[r] EXCEPT !.phase = "backoff"]
<1>1. /\ request[r] \in Request
      /\ request[r].stage # "ended" /\ request[r].phase = "asking"
  BY WhoIsWho DEF AttemptFails, At
<1>2. CASE LastAttempt(r)
  <2>1. Unanswered(r) /\ Quiet(r) /\ garbled' = garbled
    BY <1>2 DEF AttemptFails, Quiet, Counters
  <2> QED
    BY <1>1, <2>1, UnansweredKeepsInv
<1>3. CASE ~LastAttempt(r)
  <2>1. request[r].attempt < MaxAttempts
    BY <1>1, <1>3, GatewayAssumption DEF LastAttempt, Request
  <2>2. /\ new \in Request /\ new.stage = request[r].stage /\ new.phase = "backoff"
        /\ new.attempt < MaxAttempts
    BY <1>1, <2>1 DEF Request, Phase
  <2>3. /\ request' = [request EXCEPT ![r] = new]
        /\ UNCHANGED <<provider, cases, ticketVars, Counters, garbled, everReset>>
    BY <1>3 DEF AttemptFails
  <2> HIDE DEF new
  <2> QED
    BY <1>1, <2>2, <2>3, AttemptKeepsInv
<1> QED
  BY <1>2, <1>3

LEMMA ArriveKeepsInv ==
  ASSUME IInv, NEW r \in Requests, Arrive(r)
  PROVE  IInv'
<1> DEFINE new == [request[r] EXCEPT !.phase = "arrived", !.attempt = 0]
<1>1. /\ request[r] \in Request
      /\ request[r].stage # "ended" /\ request[r].phase = "asking"
  BY WhoIsWho DEF Arrive, At
<1>0. 0 \in 0..MaxAttempts
  BY GatewayAssumption
<1>2. /\ new \in Request /\ new.stage = request[r].stage /\ new.phase = "arrived"
  BY <1>0, <1>1 DEF Request, Phase
<1>3. request' = [request EXCEPT ![r] = new]
  BY DEF Arrive
<1> HIDE DEF new
<1> QED
  BY <1>1, <1>2, <1>3, AttemptKeepsInv DEF Arrive

LEMMA CountKeepsInv ==
  ASSUME IInv, NEW r \in Requests, Count(r)
  PROVE  IInv'
<1>1. PICK completion \in IF provider = "mock" THEN MockCompletion(request[r].stage)
                          ELSE Completion(request[r].stage) :
        request' = [request EXCEPT ![r].phase = "counted", ![r].completion = completion]
  BY DEF Count
<1> DEFINE new == [request[r] EXCEPT !.phase = "counted", !.completion = completion]
<1>2. /\ request[r] \in Request
      /\ request[r].stage # "ended" /\ request[r].phase = "arrived"
  BY WhoIsWho DEF Count, At
<1>3. /\ completion \in SUBSET Fault
      /\ request[r].stage \in {"summary", "briefing"} => "wrong" \notin completion
  BY <1>2, StagesAre DEF MockCompletion, Completion, Fault
<1>4. /\ new \in Request /\ new.stage = request[r].stage /\ new.phase = "counted"
      /\ new.completion = completion
  BY <1>2, <1>3 DEF Request, Phase
<1>5. request' = [request EXCEPT ![r] = new]
  BY <1>1
<1> HIDE DEF new
<1>6. TypeOK' /\ Touches(r) /\ request'[r] = new
  BY <1>2, <1>4, <1>5, WithinCall DEF Count, CountUsage
<1>7. RequestInv(r) /\ RefusalsAreCalls
  BY DEF IInv
<1>8. /\ usages' = usages \cup {Caller(r)} /\ refusals' = refusals /\ audited' = audited
      /\ everReset' = everReset /\ outcome' = outcome /\ ticket' = ticket
      /\ triage' = triage /\ risk' = risk /\ garbled' = garbled
      /\ text' = text /\ customer' = customer
  BY DEF Count, CountUsage, ticketVars, cases
<1>9. RefusalsAreCalls'
  BY <1>7, <1>8 DEF RefusalsAreCalls
<1>10. StageInv(r)' /\ CountInv(r)'
  BY <1>2, <1>3, <1>4, <1>6, <1>7, <1>8 DEF RequestInv, StageInv, CountInv, Breaks, Caller
<1>11. r \in Creations => TicketInv(r)' /\ DraftInv(r)'
  BY <1>2, <1>4, <1>6, <1>7, <1>8 DEF RequestInv, StageInv, TicketInv, DraftInv, FirstRisk, Keepable, Acceptable
<1>12. r \in Assists => PanelInv(r)'
  BY <1>2, <1>4, <1>6, <1>7, <1>8 DEF RequestInv, StageInv, PanelInv
<1> QED
  BY <1>6, <1>9, <1>10, <1>11, <1>12, OneMoves DEF RequestInv

LEMMA CountRefusalKeepsInv ==
  ASSUME IInv, NEW r \in Requests, CountRefusal(r)
  PROVE  IInv'
<1> DEFINE new == [request[r] EXCEPT !.phase = "refused"]
<1>1. /\ request[r] \in Request /\ Breaks(r)
      /\ request[r].stage # "ended" /\ request[r].phase = "counted"
  BY WhoIsWho DEF CountRefusal, At
<1>2. /\ new \in Request /\ new.stage = request[r].stage /\ new.phase = "refused"
  BY <1>1 DEF Request, Phase
<1>3. request' = [request EXCEPT ![r] = new]
  BY DEF CountRefusal
<1> HIDE DEF new
<1>4. TypeOK' /\ Touches(r) /\ request'[r] = new
  BY <1>1, <1>2, <1>3, WithinCall DEF CountRefusal
<1>5. RequestInv(r) /\ RefusalsAreCalls
  BY DEF IInv
<1>6. /\ refusals' = refusals \cup {Caller(r)} /\ usages' = usages /\ audited' = audited
      /\ everReset' = everReset /\ outcome' = outcome /\ ticket' = ticket
      /\ triage' = triage /\ risk' = risk /\ garbled' = garbled
      /\ text' = text /\ customer' = customer
  BY DEF CountRefusal, ticketVars, cases
<1>7. ~everReset => Caller(r) \in usages
  BY <1>1, <1>5 DEF RequestInv, CountInv
<1>8. RefusalsAreCalls'
  BY <1>5, <1>6, <1>7 DEF RefusalsAreCalls
<1>9. StageInv(r)' /\ CountInv(r)'
  BY <1>1, <1>2, <1>4, <1>5, <1>6, <1>7 DEF RequestInv, StageInv, CountInv, Caller
<1>10. r \in Creations => TicketInv(r)' /\ DraftInv(r)'
  BY <1>1, <1>2, <1>4, <1>5, <1>6
     DEF RequestInv, StageInv, TicketInv, DraftInv, FirstRisk, Keepable, Acceptable, Caller
<1>11. r \in Assists => PanelInv(r)'
  BY <1>1, <1>2, <1>4, <1>5, <1>6 DEF RequestInv, StageInv, PanelInv, Caller
<1> QED
  BY <1>4, <1>8, <1>9, <1>10, <1>11, OneMoves DEF RequestInv

-----------------------------------------------------------------------------
(* The other steps *)

LEMMA NoAutoResponseKeepsInv ==
  ASSUME IInv, NEW r \in Requests, NoAutoResponse(r)
  PROVE  IInv'
<1>1. /\ request[r].stage = "draft" /\ Goes(r, "ended", {}) /\ Quiet(r)
      /\ UNCHANGED <<ticketVars, garbled>>
  BY DEF NoAutoResponse, Quiet, Counters
<1>2. r \in Creations /\ r \notin Assists
  BY <1>1, WhoIsWho
<1>3. TypeOK /\ StageInv(r) /\ TicketInv(r) /\ DraftInv(r)
  BY <1>2 DEF IInv, RequestInv
<1>4. /\ request' \in [Requests -> Request]
      /\ request'[r].stage = "ended" /\ request'[r].phase = "ask"
      /\ request'[r].attempt = 0
      /\ \A q \in Requests \ {r} : request'[q] = request[q]
  BY <1>1, <1>3, GoesOn DEF Stage
<1>5. TypeOK' /\ RefusalsAreCalls' /\ Touches(r)
  BY <1>1, <1>3, <1>4, QuietCounters DEF TypeOK, Touches, ticketVars
<1>6. StageInv(r)' /\ CountInv(r)' /\ TicketInv(r)' /\ DraftInv(r)'
  BY <1>1, <1>2, <1>3, <1>4
     DEF StageInv, CountInv, TicketInv, DraftInv, ticketVars
<1> QED
  BY <1>2, <1>5, <1>6, OneMoves DEF RequestInv

LEMMA StepKeepsInv ==
  ASSUME IInv, NEW r \in Requests, Step(r)
  PROVE  IInv'
<1>1. CASE NotAsked(r)
  BY <1>1, UnansweredKeepsInv DEF NotAsked, At, Quiet, Counters
<1>2. CASE NoAutoResponse(r)
  BY <1>2, NoAutoResponseKeepsInv
<1>3. CASE NoMatches(r)
  BY <1>3, ToReviewKeepsInv DEF NoMatches, Quiet, Counters
<1>4. CASE Ask(r)
  BY <1>4, AskKeepsInv
<1>5. CASE AttemptFails(r)
  BY <1>5, AttemptFailsKeepsInv
<1>6. CASE AnswerGarbled(r)
  BY <1>6, RaisedKeepsInv DEF AnswerGarbled, At
<1>7. CASE Arrive(r)
  BY <1>7, ArriveKeepsInv
<1>8. CASE Count(r)
  BY <1>8, CountKeepsInv
<1>9. CASE Use(r)
  BY <1>9, AnsweredKeepsInv DEF Use, At, Quiet, Counters
<1>10. CASE CountRefusal(r)
  BY <1>10, CountRefusalKeepsInv
<1>11. CASE Refuse(r)
  BY <1>11, RefusedKeepsInv DEF Refuse, At, Quiet
<1>12. CASE NotScreened(r)
  BY <1>12, LostKeepsInv DEF NotScreened, At, Quiet, Counters
<1>13. CASE UseFails(r)
  BY <1>13, RaisedKeepsInv DEF UseFails, At
<1> QED
  BY <1>1, <1>2, <1>3, <1>4, <1>5, <1>6, <1>7, <1>8, <1>9, <1>10, <1>11, <1>12, <1>13
     DEF Step

LEMMA ResetKeepsInv ==
  ASSUME IInv, Reset
  PROVE  IInv'
<1>1. TypeOK /\ \A r \in Requests : RequestInv(r)
  BY DEF IInv
<1>2. /\ UNCHANGED <<provider, text, customer, request, triage, risk, ticket, outcome,
                     audited, garbled>>
      /\ usages' = {} /\ refusals' = {} /\ everReset' = TRUE
  BY DEF Reset, cases, ticketVars
<1>3. TypeOK' /\ RefusalsAreCalls'
  BY <1>1, <1>2 DEF TypeOK, RefusalsAreCalls
<1>4. ASSUME NEW r \in Requests
      PROVE  RequestInv(r)'
  BY <1>1, <1>2 DEF RequestInv, StageInv, TicketInv, DraftInv, CountInv, PanelInv,
                    FirstRisk, Breaks, Keepable, Acceptable
<1> QED
  BY <1>3, <1>4 DEF IInv

LEMMA NextKeepsInv == IInv /\ [Next]_vars => IInv'
<1> SUFFICES ASSUME IInv, [Next]_vars PROVE IInv'
  OBVIOUS
<1>1. CASE Reset
  BY <1>1, ResetKeepsInv
<1>2. CASE \E r \in Requests : Step(r)
  BY <1>2, StepKeepsInv
<1>3. CASE UNCHANGED vars
  BY <1>3 DEF IInv, TypeOK, RefusalsAreCalls, RequestInv, StageInv, TicketInv, DraftInv,
              CountInv, PanelInv, FirstRisk, Breaks, Caller, Keepable, Acceptable,
              vars, cases, ticketVars,
              Counters
<1> QED
  BY <1>1, <1>2, <1>3 DEF Next

LEMMA Invariance == Spec => []IInv
BY InitIInv, NextKeepsInv, PTL DEF Spec

-----------------------------------------------------------------------------
(* The steps that touch the risk *)

\* A step scores a ticket while it is classified, and again when it is handed over.
Scores(r) ==
  \/ risk' = risk
  \/ /\ request[r].stage = "triage"
     /\ \E scored : risk' = [risk EXCEPT ![r] = scored]
  \/ /\ request[r].stage = "briefing"
     /\ \E breached \in BOOLEAN : risk' = [risk EXCEPT ![r] = Rescored(r, breached)]

LEMMA CallersScore ==
  ASSUME NEW r
  PROVE  /\ request[r].stage = "triage" /\ (\E result : Classified(r, result)) => Scores(r)
         /\ request[r].stage = "briefing" /\ Briefed(r) => Scores(r)
         /\ Summarized(r) => Scores(r)
         /\ Loses(r) => Scores(r)
         /\ ToReview(r) => Scores(r)
         /\ (\E how : Ends(r, how)) => Scores(r)
<1>1. ASSUME NEW result, request[r].stage = "triage", Classified(r, result)
      PROVE  Scores(r)
  BY <1>1 DEF Classified, Scored, Loses, Scores
<1>2. request[r].stage = "briefing" /\ Briefed(r) => Scores(r)
  BY DEF Briefed, Scores
<1>3. Summarized(r) \/ Loses(r) \/ ToReview(r) => risk' = risk
  BY DEF Summarized, Loses, ToReview, ticketVars
<1>4. (\E how : Ends(r, how)) => risk' = risk
  BY DEF Ends
<1> QED
  BY <1>1, <1>2, <1>3, <1>4 DEF Scores

LEMMA UnansweredScores ==
  ASSUME IInv, NEW r \in Requests, request[r].stage # "ended", Unanswered(r)
  PROVE  Scores(r)
<1>1. CASE request[r].stage = "triage"
  BY <1>1, CallersScore DEF Unanswered, TriageFails
<1>2. CASE request[r].stage = "summary"
  BY <1>2, CallersScore DEF Unanswered
<1>3. CASE request[r].stage \in {"draft", "assist"}
  <2>1. \E how : Ends(r, how)
    BY <1>3 DEF Unanswered, Shows
  <2> QED
    BY <2>1, CallersScore
<1>4. CASE request[r].stage = "briefing"
  BY <1>4, CallersScore DEF Unanswered
<1> QED
  BY <1>1, <1>2, <1>3, <1>4, StagesAre

LEMMA StepScores ==
  ASSUME IInv, NEW r \in Requests, Step(r)
  PROVE  Scores(r)
<1>1. CASE NotAsked(r)
  BY <1>1, UnansweredScores DEF NotAsked, At
<1>2. CASE NoMatches(r)
  BY <1>2, CallersScore DEF NoMatches
<1>3. CASE NoAutoResponse(r) \/ Ask(r) \/ Arrive(r) \/ Count(r) \/ CountRefusal(r)
  BY <1>3 DEF NoAutoResponse, Ask, Arrive, Count, CountRefusal, ticketVars, Scores
<1>4. CASE AttemptFails(r)
  <2>1. Unanswered(r) \/ risk' = risk
    BY <1>4 DEF AttemptFails, ticketVars
  <2> QED
    BY <1>4, <2>1, UnansweredScores DEF AttemptFails, At, Scores
<1>5. CASE AnswerGarbled(r) \/ UseFails(r)
  <2>1. request[r].stage # "ended" /\ Raised(r)
    BY <1>5 DEF AnswerGarbled, UseFails, RaisedByAnswer, At
  <2>2. risk' = risk
    BY <2>1, StagesAre DEF Raised, Loses, Ends
  <2> QED
    BY <2>2 DEF Scores
<1>6. CASE Use(r)
  <2>1. request[r].stage # "ended" /\ Answered(r)
    BY <1>6 DEF Use, At
  <2>2. CASE request[r].stage \in {"triage", "summary", "briefing"}
    BY <2>1, <2>2, CallersScore DEF Answered
  <2>3. CASE request[r].stage \in {"draft", "assist"}
    <3>1. ToReview(r) \/ \E how : Ends(r, how)
      BY <2>1, <2>3 DEF Answered, Drafted, Suggested, Shows
    <3> QED
      BY <3>1, CallersScore
  <2> QED
    BY <2>1, <2>2, <2>3, StagesAre
<1>7. CASE Refuse(r)
  <2>1. /\ request[r].stage # "ended" /\ Refused(r)
        /\ request[r].stage \notin {"summary", "briefing"}
    BY <1>7 DEF Refuse, At, IInv, RequestInv, StageInv
  <2>2. CASE request[r].stage = "triage"
    BY <2>1, <2>2, CallersScore DEF Refused, TriageFails
  <2>3. CASE request[r].stage \in {"draft", "assist"}
    <3>1. ToReview(r) \/ \E how : Ends(r, how)
      BY <2>1, <2>3 DEF Refused, Shows
    <3> QED
      BY <3>1, CallersScore
  <2> QED
    BY <2>1, <2>2, <2>3, StagesAre
<1>8. CASE NotScreened(r)
  BY <1>8, CallersScore DEF NotScreened
<1> QED
  BY <1>1, <1>2, <1>3, <1>4, <1>5, <1>6, <1>7, <1>8 DEF Step

LEMMA NextNeverLowers ==
  ASSUME IInv, [Next]_vars, NEW r \in Creations, triage[r] # NoTriage
  PROVE  risk'[r].score >= risk[r].score
<1>1. risk \in [Creations -> Risk] /\ risk[r].score \in Score
  BY DEF IInv, TypeOK, Risk
<1>2. CASE risk' = risk
  BY <1>1, <1>2 DEF Score
<1>3. CASE \E q \in Requests : Step(q)
  <2>1. PICK q \in Requests : Scores(q)
    BY <1>3, StepScores
  <2>2. CASE q # r
    <3>1. risk'[r] = risk[r]
      BY <1>1, <2>1, <2>2 DEF Scores
    <3> QED
      BY <1>1, <3>1 DEF Score
  <2>3. CASE q = r /\ request[r].stage = "triage"
    BY <2>3 DEF IInv, RequestInv, TicketInv
  <2>4. CASE q = r /\ request[r].stage = "briefing"
    <3>1. \/ risk' = risk
          \/ \E breached \in BOOLEAN : risk' = [risk EXCEPT ![r] = Rescored(r, breached)]
      BY <2>1, <2>4 DEF Scores
    <3>2. ASSUME NEW breached \in BOOLEAN, risk' = [risk EXCEPT ![r] = Rescored(r, breached)]
          PROVE  risk'[r].score >= risk[r].score
      <4>1. Rescored(r, breached).score >= risk[r].score
        BY <2>4, RescoredType
      <4> QED
        BY <1>1, <3>2, <4>1
    <3> QED
      BY <1>2, <3>1, <3>2
  <2>5. CASE q = r /\ request[r].stage \notin {"triage", "briefing"}
    BY <1>2, <2>1, <2>5 DEF Scores
  <2> QED
    BY <2>2, <2>3, <2>4, <2>5
<1>4. CASE Reset \/ UNCHANGED vars
  BY <1>2, <1>4 DEF Reset, vars, ticketVars
<1> QED
  BY <1>3, <1>4 DEF Next

-----------------------------------------------------------------------------
(* How much is left of a request *)

\* The calls that may still come, the present one among them.
CallsLeft(stage) ==
  CASE stage = "triage"   -> 4
    [] stage = "summary"  -> 3
    [] stage = "draft"    -> 2
    [] stage \in {"briefing", "assist"} -> 1
    [] OTHER              -> 0

\* The steps that are left of the present call at most.
StepsLeft(q) ==
  CASE q.phase \in {"ask", "backoff"} -> 2 * (MaxAttempts - q.attempt) + 3
    [] q.phase = "asking"  -> 2 * (MaxAttempts - q.attempt) + 4
    [] q.phase = "arrived" -> 3
    [] q.phase = "counted" -> 2
    [] OTHER               -> 1

CallSteps == 2 * MaxAttempts + 4

Effort(q) ==
  IF q.stage = "ended" THEN 0 ELSE CallsLeft(q.stage) * CallSteps + StepsLeft(q)

LEMMA EffortType ==
  ASSUME NEW q \in Request
  PROVE  /\ CallsLeft(q.stage) \in 0..4 /\ StepsLeft(q) \in Nat \ {0}
         /\ CallSteps \in Nat /\ Effort(q) \in Nat
<1>1. CallsLeft(q.stage) \in 0..4
  BY DEF CallsLeft
<1>2. CallSteps \in Nat /\ StepsLeft(q) \in Nat \ {0}
  BY GatewayAssumption DEF CallSteps, StepsLeft, Request
<1>3. \A c \in 0..4 : c * CallSteps \in Nat
  BY <1>2
<1> QED
  BY <1>1, <1>2, <1>3 DEF Effort

\* A next call, or none, leaves less than any step of the present one.
LEMMA NextCallIsLess ==
  ASSUME NEW q \in Request, q.stage # "ended", NEW p, p.phase = "ask", p.attempt = 0,
         CallsLeft(p.stage) < CallsLeft(q.stage)
  PROVE  Effort(p) < Effort(q)
<1>1. PICK c, d : c = CallsLeft(q.stage) /\ d = CallsLeft(p.stage)
  OBVIOUS
<1>2. c \in 1..4 /\ d \in 0..3 /\ d < c
  BY <1>1, EffortType DEF CallsLeft
<1>3. PICK w \in Nat : w = CallSteps
  BY EffortType
<1>4. StepsLeft(p) = w - 1
  BY <1>3, GatewayAssumption DEF StepsLeft, CallSteps
<1>5. PICK n \in Nat \ {0} : n = StepsLeft(q)
  BY EffortType
<1>6. d * w + (w - 1) < c * w + n
  <2>1. CASE d = 0
    BY <1>2, <2>1, c = 1 \/ c = 2 \/ c = 3 \/ c = 4
  <2>2. CASE d = 1
    BY <1>2, <2>2, c = 2 \/ c = 3 \/ c = 4
  <2>3. CASE d = 2
    BY <1>2, <2>3, c = 3 \/ c = 4
  <2>4. CASE d = 3
    BY <1>2, <2>4, c = 4
  <2> QED
    BY <1>2, <2>1, <2>2, <2>3, <2>4
<1>7. Effort(q) = c * w + n
  BY <1>1, <1>3, <1>5 DEF Effort
<1>8. CASE p.stage = "ended"
  <2>1. d = 0
    BY <1>1, <1>8 DEF CallsLeft
  <2>2. 0 * w = 0 /\ w - 1 >= 0
    BY <1>3, GatewayAssumption DEF CallSteps
  <2>3. c * w \in Nat
    BY <1>2, c = 1 \/ c = 2 \/ c = 3 \/ c = 4
  <2>4. 0 < c * w + n
    BY <2>3
  <2>5. Effort(p) = 0
    BY <1>8 DEF Effort
  <2> QED
    BY <1>7, <2>4, <2>5
<1>9. CASE p.stage # "ended"
  BY <1>1, <1>3, <1>4, <1>6, <1>7, <1>9 DEF Effort
<1> QED
  BY <1>8, <1>9

LEMMA SameCallIsLess ==
  ASSUME NEW q \in Request, NEW p \in Request, q.stage # "ended", p.stage = q.stage,
         StepsLeft(p) < StepsLeft(q)
  PROVE  Effort(p) < Effort(q)
<1>1. CallsLeft(q.stage) * CallSteps \in Nat
  BY EffortType
<1> QED
  BY <1>1, EffortType DEF Effort

\* What the caller does when its call is over: it goes on to a later one, or ends.
GoesFurther(r) ==
  \E stage \in Stage, completion \in SUBSET Fault :
    /\ Goes(r, stage, completion)
    /\ CallsLeft(stage) < CallsLeft(request[r].stage)

LEMMA GoesFurtherIsLess ==
  ASSUME IInv, NEW r \in Requests, request[r].stage # "ended", GoesFurther(r)
  PROVE  Effort(request'[r]) < Effort(request[r])
<1>1. PICK stage \in Stage, completion \in SUBSET Fault :
        /\ Goes(r, stage, completion)
        /\ CallsLeft(stage) < CallsLeft(request[r].stage)
  BY DEF GoesFurther
<1>2. /\ request'[r].stage = stage
      /\ request'[r].phase = "ask" /\ request'[r].attempt = 0
  BY <1>1, GoesOn DEF IInv
<1>3. request[r] \in Request
  BY WhoIsWho
<1> QED
  BY <1>1, <1>2, <1>3, NextCallIsLess

LEMMA CallersGoFurther ==
  ASSUME IInv, NEW r \in Requests
  PROVE  /\ request[r].stage = "triage" /\ (\E result : Classified(r, result)) => GoesFurther(r)
         /\ request[r].stage = "summary" /\ Summarized(r) => GoesFurther(r)
         /\ request[r].stage = "draft" /\ ToReview(r) => GoesFurther(r)
         /\ request[r].stage = "briefing" /\ Briefed(r) => GoesFurther(r)
         /\ request[r].stage # "ended" /\ (\E how : Ends(r, how)) => GoesFurther(r)
         /\ request[r].stage # "ended" /\ Goes(r, "ended", {}) => GoesFurther(r)
<1>1. {"summary", "draft", "briefing", "ended"} \subseteq Stage /\ {} \in SUBSET Fault
  BY DEF Stage
<1>2. request[r].completion \in SUBSET Fault
  BY WhoIsWho DEF Request
<1>3. ASSUME NEW result, request[r].stage = "triage", Classified(r, result)
      PROVE  GoesFurther(r)
  <2>1. Goes(r, "summary", {}) \/ Goes(r, "draft", {}) \/ Goes(r, "ended", {})
    BY <1>3 DEF Classified, Scored, Commits, Loses
  <2> QED
    BY <1>1, <1>3, <2>1 DEF GoesFurther, CallsLeft
<1>4. ASSUME request[r].stage = "summary", Summarized(r)
      PROVE  GoesFurther(r)
  <2>1. Goes(r, "ended", {}) \/ Goes(r, "draft", {})
    BY <1>4 DEF Summarized, Commits
  <2> QED
    BY <1>1, <1>4, <2>1 DEF GoesFurther, CallsLeft
<1>5. request[r].stage = "draft" /\ ToReview(r) => GoesFurther(r)
  BY <1>1 DEF ToReview, GoesFurther, CallsLeft
<1>6. request[r].stage = "briefing" /\ Briefed(r) => GoesFurther(r)
  BY <1>1 DEF Briefed, GoesFurther, CallsLeft
<1>7. ASSUME request[r].stage # "ended", NEW completion \in SUBSET Fault,
             Goes(r, "ended", completion)
      PROVE  GoesFurther(r)
  <2>1. CallsLeft("ended") < CallsLeft(request[r].stage)
    BY <1>7, StagesAre DEF CallsLeft
  <2> QED
    BY <1>1, <1>7, <2>1 DEF GoesFurther
<1>8. ASSUME NEW how, request[r].stage # "ended", Ends(r, how)
      PROVE  GoesFurther(r)
  BY <1>2, <1>7, <1>8 DEF Ends
<1> QED
  BY <1>1, <1>3, <1>4, <1>5, <1>6, <1>7, <1>8

LEMMA OverGoesFurther ==
  ASSUME IInv, NEW r \in Requests, request[r].stage # "ended",
         \/ Answered(r) \/ Unanswered(r) \/ Raised(r)
         \/ request[r].phase = "refused" /\ Refused(r)
  PROVE  GoesFurther(r)
<1>1. CASE request[r].stage = "triage"
  <2>1. (\E result : Classified(r, result)) \/ Goes(r, "ended", {})
    BY <1>1 DEF Answered, Unanswered, Refused, Raised, Loses, TriageFails
  <2> QED
    BY <1>1, <2>1, CallersGoFurther
<1>2. CASE request[r].stage = "summary"
  <2>1. Summarized(r) \/ Goes(r, "ended", {})
    BY <1>2 DEF Answered, Unanswered, Raised, Loses, IInv, RequestInv, StageInv
  <2> QED
    BY <1>2, <2>1, CallersGoFurther
<1>3. CASE request[r].stage = "draft"
  <2>1. (\E how : Ends(r, how)) \/ ToReview(r)
    BY <1>3 DEF Answered, Unanswered, Refused, Raised, Drafted
  <2> QED
    BY <1>3, <2>1, CallersGoFurther
<1>4. CASE request[r].stage = "briefing"
  <2>1. Briefed(r) \/ \E how : Ends(r, how)
    BY <1>4 DEF Answered, Unanswered, Raised, IInv, RequestInv, StageInv
  <2> QED
    BY <1>4, <2>1, CallersGoFurther
<1>5. CASE request[r].stage = "assist"
  <2>1. \E how : Ends(r, how)
    BY <1>5 DEF Answered, Unanswered, Refused, Raised, Suggested, Shows
  <2> QED
    BY <1>5, <2>1, CallersGoFurther
<1> QED
  BY <1>1, <1>2, <1>3, <1>4, <1>5, StagesAre

\* An attempt that fails, before the last and the last.
Retries(r) == AttemptFails(r) /\ ~LastAttempt(r)
GivesUp(r) == AttemptFails(r) /\ LastAttempt(r)

\* A step within the call.
LEMMA WithinIsLess ==
  ASSUME IInv, NEW r \in Requests,
         Ask(r) \/ Arrive(r) \/ Count(r) \/ CountRefusal(r)
           \/ Retries(r)
  PROVE  Effort(request'[r]) < Effort(request[r])
<1>1. request[r] \in Request /\ request[r].stage # "ended"
  BY WhoIsWho DEF Ask, Arrive, Count, CountRefusal, Retries, AttemptFails, At
<1>2. request'[r] \in Request
  <2>1. IInv'
    BY AskKeepsInv, ArriveKeepsInv, CountKeepsInv, CountRefusalKeepsInv,
       AttemptFailsKeepsInv DEF Retries
  <2> QED
    BY <2>1 DEF IInv, TypeOK
<1>3. request'[r].stage = request[r].stage
  BY DEF Ask, Arrive, Count, CountRefusal, Retries, AttemptFails, IInv, TypeOK,
         Request
<1>4. StepsLeft(request'[r]) < StepsLeft(request[r])
  <2>1. CASE Ask(r)
    <3>1. /\ request'[r].phase = "asking" /\ request'[r].attempt = request[r].attempt + 1
          /\ request[r].phase \in {"ask", "backoff"} /\ request[r].attempt \in Nat
      BY <1>1, <2>1 DEF Ask, At, IInv, TypeOK, Request
    <3> QED
      BY <3>1, GatewayAssumption DEF StepsLeft
  <2>2. CASE Retries(r)
    <3>1. /\ request'[r].phase = "backoff" /\ request'[r].attempt = request[r].attempt
          /\ request[r].phase = "asking" /\ request[r].attempt \in Nat
      BY <1>1, <2>2 DEF Retries, AttemptFails, At, IInv, TypeOK, Request
    <3> QED
      BY <3>1, GatewayAssumption DEF StepsLeft
  <2>3. CASE Arrive(r)
    <3>1. /\ request'[r].phase = "arrived" /\ request[r].phase = "asking"
          /\ request[r].attempt \in 0..MaxAttempts
      BY <1>1, <2>3 DEF Arrive, At, IInv, TypeOK, Request
    <3> QED
      BY <3>1, GatewayAssumption DEF StepsLeft
  <2>4. CASE Count(r)
    <3>1. request'[r].phase = "counted" /\ request[r].phase = "arrived"
      BY <2>4 DEF Count, At, IInv, TypeOK, Request
    <3> QED
      BY <3>1 DEF StepsLeft
  <2>5. CASE CountRefusal(r)
    <3>1. request'[r].phase = "refused" /\ request[r].phase = "counted"
      BY <2>5 DEF CountRefusal, At, IInv, TypeOK, Request
    <3> QED
      BY <3>1 DEF StepsLeft
  <2> QED
    BY <2>1, <2>2, <2>3, <2>4, <2>5
<1> QED
  BY <1>1, <1>2, <1>3, <1>4, SameCallIsLess

LEMMA StepIsLess ==
  ASSUME IInv, NEW r \in Requests, Step(r)
  PROVE  Effort(request'[r]) < Effort(request[r])
<1>1. request[r].stage # "ended"
  BY DEF Step, NotScreened, NotAsked, NoAutoResponse, NoMatches, Ask, AttemptFails,
         AnswerGarbled, Arrive, Count, Use, UseFails, CountRefusal, Refuse, At
<1>2. CASE NotAsked(r) \/ AnswerGarbled(r) \/ Use(r) \/ UseFails(r) \/ Refuse(r)
           \/ GivesUp(r)
  <2>1. \/ Answered(r) \/ Unanswered(r) \/ Raised(r)
        \/ request[r].phase = "refused" /\ Refused(r)
    BY <1>2 DEF NotAsked, AnswerGarbled, Use, UseFails, RaisedByAnswer, Refuse, GivesUp,
                AttemptFails, At
  <2> QED
    BY <1>1, <2>1, OverGoesFurther, GoesFurtherIsLess
<1>3. CASE NotScreened(r) \/ NoAutoResponse(r) \/ NoMatches(r)
  <2>1. GoesFurther(r)
    BY <1>1, <1>3, CallersGoFurther DEF NotScreened, Loses, NoAutoResponse, NoMatches
  <2> QED
    BY <1>1, <2>1, GoesFurtherIsLess
<1>4. CASE Ask(r) \/ Arrive(r) \/ Count(r) \/ CountRefusal(r)
           \/ Retries(r)
  BY <1>4, WithinIsLess
<1> QED
  BY <1>2, <1>3, <1>4 DEF Step, Retries, GivesUp

\* A step of another request, or a reset, takes nothing back.
LEMMA OthersStay ==
  ASSUME IInv, [Next]_vars, NEW r \in Requests, ~Step(r)
  PROVE  request'[r] = request[r]
<1>1. CASE UNCHANGED vars \/ Reset
  BY <1>1 DEF vars, Reset
<1>2. ASSUME NEW q \in Requests \ {r}, Step(q)
      PROVE  request'[r] = request[r]
  <2>1. \A next : request' = [request EXCEPT ![q] = next] => request'[r] = request[r]
    BY DEF IInv, TypeOK
  <2>2. \E next : request' = [request EXCEPT ![q] = next]
    <3>1. CASE Ask(q) \/ Arrive(q) \/ Count(q) \/ CountRefusal(q)
               \/ Retries(q)
      BY <3>1 DEF Ask, Arrive, Count, CountRefusal, Retries, AttemptFails
    <3>2. request[q].stage # "ended"
      BY <1>2 DEF Step, NotScreened, NotAsked, NoAutoResponse, NoMatches, Ask,
         AttemptFails, AnswerGarbled, Arrive, Count, Use, UseFails, CountRefusal, Refuse,
         At
    <3>3. CASE NotAsked(q) \/ AnswerGarbled(q) \/ Use(q) \/ UseFails(q) \/ Refuse(q)
               \/ GivesUp(q)
      <4>1. \/ Answered(q) \/ Unanswered(q) \/ Raised(q)
            \/ request[q].phase = "refused" /\ Refused(q)
        BY <3>3 DEF NotAsked, AnswerGarbled, Use, UseFails, RaisedByAnswer, Refuse,
                    GivesUp, AttemptFails, At
      <4> QED
        BY <3>2, <4>1, OverGoesFurther DEF GoesFurther, Goes
    <3>4. CASE NotScreened(q) \/ NoAutoResponse(q) \/ NoMatches(q)
      BY <3>4 DEF NotScreened, Loses, NoAutoResponse, NoMatches, ToReview, Goes
    <3> QED
      BY <1>2, <3>1, <3>3, <3>4 DEF Step, Retries, GivesUp
  <2> QED
    BY <2>1, <2>2
<1> QED
  BY <1>1, <1>2 DEF Next

-----------------------------------------------------------------------------
(* Theorems *)

\* Every row, call, counter and outcome of a reachable state has its type, whatever
\* the provider answers: the attempts stay within their bound, and a second scoring
\* yields a score, a level and a team.
THEOREM TypeCorrect == Spec => []TypeOK
<1>1. IInv => TypeOK
  BY DEF IInv
<1> QED
  BY <1>1, Invariance, PTL

\* However many creations overlap and whatever becomes of their calls, each that
\* ends has its ticket committed, unless the request itself cannot be screened or
\* stored, a completion that nobody can read ended it, or its classification holds
\* what no column does.
THEOREM CreationAlwaysSurvives == Spec => []CreationSurvives
<1>1. IInv => CreationSurvives
  BY DEF IInv, RequestInv, TicketInv, Keepable, CreationSurvives, Requests
<1> QED
  BY <1>1, Invariance, PTL

\* What is sent without a person was accepted in every respect.
THEOREM SentIsAlwaysSound == Spec => []SentIsSound
<1>1. IInv => SentIsSound
  BY DEF IInv, RequestInv, DraftInv, SentIsSound, Requests
<1> QED
  BY <1>1, Invariance, PTL

\* A message that breaks a rule of high severity is never answered by the AI.
THEOREM BrokenRuleAlwaysMeetsPerson == Spec => []BrokenRuleMeetsPerson
<1>1. IInv => BrokenRuleMeetsPerson
  BY DEF IInv, RequestInv, DraftInv, BrokenRuleMeetsPerson, NeedsReview, IsRisky,
         Requests
<1> QED
  BY <1>1, Invariance, PTL

\* The status that a panel shows is the fate of its call, until somebody resets the
\* report; a panel that ends in an error shows none.
THEOREM AssistAlwaysTellsFailure == Spec => []AssistTellsFailure
<1>1. IInv => AssistTellsFailure
  BY DEF IInv, RequestInv, PanelInv, AssistTellsFailure, Requests
<1> QED
  BY <1>1, Invariance, PTL

\* The usage report and the audit log agree on the refusals, for any number of
\* requests that count at once.
THEOREM RefusalsAlwaysAreCalls == Spec => []RefusalsAreCalls
<1>1. IInv => RefusalsAreCalls
  BY DEF IInv
<1> QED
  BY <1>1, Invariance, PTL

\* Handing a ticket to a person never lowers the score of its creation: scoring is
\* monotone in the flags and the deadline, and nothing else of the case changes.
THEOREM RescoringAlwaysNeverLowers == Spec => RescoringNeverLowers
<1>1. IInv /\ [Next]_vars =>
        [\A r \in Creations :
           triage[r] # NoTriage => risk'[r].score >= risk[r].score]_vars
  BY NextNeverLowers
<1> QED
  BY <1>1, Invariance, PTL DEF Spec, RescoringNeverLowers

\* Every step that a request takes brings it closer to its end, by a measure in
\* the natural numbers that no other step takes back: retries, fallbacks and
\* further calls cannot go on for ever, and a creation takes no more steps than
\* its four calls have.
THEOREM RequestsAlwaysGetCloser ==
  Spec => [][\A r \in Requests :
               /\ Effort(request[r]) \in Nat
               /\ Step(r) => Effort(request'[r]) < Effort(request[r])
               /\ ~Step(r) => Effort(request'[r]) = Effort(request[r])]_vars
<1>1. IInv /\ [Next]_vars =>
        [\A r \in Requests :
           /\ Effort(request[r]) \in Nat
           /\ Step(r) => Effort(request'[r]) < Effort(request[r])
           /\ ~Step(r) => Effort(request'[r]) = Effort(request[r])]_vars
  <2> SUFFICES ASSUME IInv, [Next]_vars, NEW r \in Requests
               PROVE  /\ Effort(request[r]) \in Nat
                      /\ Step(r) => Effort(request'[r]) < Effort(request[r])
                      /\ ~Step(r) => Effort(request'[r]) = Effort(request[r])
    OBVIOUS
  <2>1. Effort(request[r]) \in Nat
    BY WhoIsWho, EffortType
  <2>2. ~Step(r) => request'[r] = request[r]
    BY OthersStay
  <2> QED
    BY <2>1, <2>2, StepIsLess
<1> QED
  BY <1>1, Invariance, PTL DEF Spec
=============================================================================
