------------------------------- MODULE CaseRisk -------------------------------
(***************************************************************************)
(* What the application makes of the text of a ticket without asking       *)
(* anybody: the keyword triage (triage.py), the guardrails (guardrails.py) *)
(* and the risk score with its route (escalation.py, support.py).          *)
(*                                                                         *)
(* A text is what these rules see of it: the keywords it contains, where   *)
(* "issue" contains "sue" and "against" contains "again"; the kinds of     *)
(* personal data whose pattern and validator match; whether it names a sum *)
(* of HIGH_VALUE_REFUND_MIN_USD or more; whether it came from a blocked    *)
(* domain; which of these matches are too long for the rules; and whether  *)
(* the columns of its row can hold what the request says.                  *)
(***************************************************************************)
EXTENDS Integers

Intent == {"fraud", "legal", "billing", "account_access", "technical_support",
           "general_support"}
Priority == {"normal", "high", "urgent"}
Sentiment == {"neutral", "frustrated", "angry"}
Tier == {"none", "standard", "premium", "vip"}
Level == {"low", "medium", "high", "critical"}

-----------------------------------------------------------------------------
(* Tables *)

\* Of two intents whose keywords a text has, the earlier one wins.
IntentOrder == <<"fraud", "legal", "billing", "account_access", "technical_support">>

IntentWords ==
  [fraud             |-> {"fraud", "stolen", "unauthorized"},
   legal             |-> {"legal", "lawyer", "lawsuit"},
   billing           |-> {"refund", "billing", "charged", "payment",
                          "subscription"},
   account_access    |-> {"password", "login", "access", "locked out"},
   technical_support |-> {"error", "bug", "broken", "not working", "crash"}]

AngryWords      == {"furious", "lawsuit", "scam", "unacceptable"}
FrustratedWords == {"frustrated", "annoyed", "disappointed", "again"}

ComplianceWords ==
  [refund_request |-> {"refund", "reimbursement", "money back",
                       "credit my account"},
   legal_action   |-> {"lawsuit", "attorney", "lawyer", "sue", "legal action",
                       "cease and desist", "litigation"},
   fraud          |-> {"fraud", "unauthorized charge", "stolen card",
                       "identity theft", "scammed"},
   charge_dispute |-> {"chargeback", "dispute", "charge dispute"},
   data_privacy   |-> {"gdpr", "privacy", "personal data", "data breach", "ccpa"},
   regulator      |-> {"attorney general", "regulator", "ombudsman",
                       "complaint filed"}]

PolicyWords == {"refund", "reimburse", "money back", "cash back"}

PersonalData == {"email_address", "phone_number", "social_security_number",
                 "credit_card_number", "ip_address"}

HighSeverity == {"social_security_number", "credit_card_number", "legal_action",
                 "fraud", "data_privacy", "regulator", "high_value_refund"}

IntentPoints ==
  [fraud |-> 30, legal |-> 28, billing |-> 20, account_access |-> 14,
   technical_support |-> 8, general_support |-> 0]
PriorityPoints  == [normal |-> 0, high |-> 10, urgent |-> 20]
SentimentPoints == [neutral |-> 0, frustrated |-> 10, angry |-> 20]

\* Quarters: 1.0, 1.25 and 1.5; no tier counts like the standard one.
TierQuarters == [none |-> 4, standard |-> 4, premium |-> 5, vip |-> 6]

DefaultTeam ==
  [fraud |-> "fraud", legal |-> "leadership", billing |-> "billing",
   account_access |-> "account_support",
   technical_support |-> "engineering_support",
   general_support |-> "customer_support"]

\* A model may name any team, or answer with an empty name.
Team == {DefaultTeam[i] : i \in Intent} \cup {"another", ""}

-----------------------------------------------------------------------------
(* Values *)

Keywords ==
  UNION {IntentWords[i] : i \in DOMAIN IntentWords}
    \cup UNION {ComplianceWords[c] : c \in DOMAIN ComplianceWords}
    \cup AngryWords \cup FrustratedWords \cup PolicyWords

\* Violation.matched holds 200 characters, which an address may exceed, and int()
\* reads 4300 digits, which a sum may have.
Long == {"email_address", "blocked_domain", "high_value_refund"}

\* PostgreSQL stores no NUL, and no id of more than 255 characters.
Text == [words : SUBSET Keywords, personal : SUBSET PersonalData,
         large_sum : BOOLEAN, blocked : BOOLEAN, long : SUBSET Long,
         storable : BOOLEAN]

\* The contract accepts a team of more than the 100 characters of its columns, and
\* a NUL in the summary.
Triage == [intent : Intent, priority : Priority, sentiment : Sentiment,
           team : Team, requires_human_review : BOOLEAN, storable : BOOLEAN]

\* tickets and open count the rows the customer had before.
Customer == [role : {"unknown", "customer", "agent", "admin"},
             tickets : Nat, open : Nat]

\* In quarters of a point, 0 to 100 points.
Score == 0..400
Risk == [score : Score, level : Level, route : Team]

-----------------------------------------------------------------------------
(* Mutated forms of the definitions below; no specification uses them.     *)

NeedsReviewByTriage(triage, text) == triage.requires_human_review

-----------------------------------------------------------------------------
(* Triage and guardrails *)

Has(text, words) == text.words \cap words # {}

\* _classify_with_keywords
KeywordIntent(text) ==
  LET Matches(i) == Has(text, IntentWords[IntentOrder[i]])
  IN  IF \E i \in DOMAIN IntentOrder : Matches(i)
      THEN IntentOrder[CHOOSE i \in DOMAIN IntentOrder :
             Matches(i) /\ \A j \in 1..(i - 1) : ~Matches(j)]
      ELSE "general_support"

KeywordSentiment(text) ==
  CASE Has(text, AngryWords) -> "angry"
    [] ~Has(text, AngryWords) /\ Has(text, FrustratedWords) -> "frustrated"
    [] OTHER -> "neutral"

KeywordTriage(text) ==
  LET intent == KeywordIntent(text)
      priority == CASE intent \in {"fraud", "legal"} -> "urgent"
                    [] intent \in {"billing", "account_access"} -> "high"
                    [] OTHER -> "normal"
  IN  [intent |-> intent, priority |-> priority,
       sentiment |-> KeywordSentiment(text), team |-> DefaultTeam[intent],
       requires_human_review |-> priority # "normal", storable |-> TRUE]

\* screen_pii, screen_compliance and screen_policy
Violations(text) ==
  text.personal
    \cup {c \in DOMAIN ComplianceWords : Has(text, ComplianceWords[c])}
    \cup {v \in {"blocked_domain"} : text.blocked}
    \cup {v \in {"high_value_refund"} : text.large_sum /\ Has(text, PolicyWords)}

\* A match that a rule cannot take is a ValueError out of evaluate.
ScreeningRaises(text) == text.long \cap Violations(text) # {}

IsRisky(text) == Violations(text) \cap HighSeverity # {}

\* create_ticket and receive_channel_message
NeedsReview(triage, text) == triage.requires_human_review \/ IsRisky(text)

-----------------------------------------------------------------------------
(* Risk *)

AtMost(a, b) == IF a < b THEN a ELSE b

\* enrich_customer_context
TierOf(customer) ==
  CASE customer.role = "admin" -> "vip"
    [] customer.role \in {"customer", "agent"} /\ customer.tickets > 50 -> "premium"
    [] OTHER -> "standard"

\* score_escalation; what reached 100 points is cut there.
ScoreOf(triage, tier, open, breached, flagged) ==
  LET base == IntentPoints[triage.intent] + PriorityPoints[triage.priority]
                + SentimentPoints[triage.sentiment]
      penalty == 5 * AtMost(open, 5) + (IF breached THEN 25 ELSE 0)
                   + (IF flagged THEN 15 ELSE 0)
  IN  AtMost(base * TierQuarters[tier] + 4 * penalty, 400)

LevelOf(score) ==
  CASE score >= 240 -> "critical"
    [] score >= 160 /\ score < 240 -> "high"
    [] score >= 80 /\ score < 160 -> "medium"
    [] OTHER -> "low"

RouteOf(triage, level) ==
  CASE level = "critical" -> "leadership"
    [] level # "critical" /\ triage.team # "" -> triage.team
    [] OTHER -> DefaultTeam[triage.intent]

\* build_escalation_intelligence
RiskOf(triage, tier, open, breached, flagged) ==
  LET score == ScoreOf(triage, tier, open, breached, flagged)
      level == LevelOf(score)
  IN  [score |-> score, level |-> level, route |-> RouteOf(triage, level)]

AtRisk(risk) == risk.level \in {"high", "critical"}
=============================================================================
