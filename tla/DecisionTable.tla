----------------------------- MODULE DecisionTable -----------------------------
(***************************************************************************)
(* The decisions table, shared by the handlers that write it (intents and  *)
(* approvals) and the one that reads it (payments).                        *)
(***************************************************************************)
EXTENDS NegotiationStates, Naturals

CONSTANTS
  Merchants,   \* authenticated merchant accounts
  IntentReqs,  \* POST /buyer-intents requests; one names the session and the
               \* decision it creates, whose ids are fresh uuids
  Terms,       \* frozen commercial terms a selected candidate may carry
  NoTerms,     \* the frozen columns of a decision without a selection
  NoRow        \* an absent row

DecisionRow ==
  [merchant : Merchants, terms : Terms \union {NoTerms}, requiresApproval : BOOLEAN,
   state : NegotiationState, expiresAt : Nat]

\* What a decision freezes: for whom, which terms, and whether they wait for an approval.
FrozenDeal == [merchant : Merchants, terms : Terms \union {NoTerms}, gated : BOOLEAN]

ASSUME RowAssumption ==
  /\ NoTerms \notin Terms
  /\ NoRow \notin NegotiationState
  /\ NoRow \notin DecisionRow
  /\ NoRow \notin FrozenDeal

\* The rows a finished negotiation may leave behind.
LegalRow(row) ==
  /\ row \in DecisionRow
  /\ \/ row.terms = NoTerms /\ ~row.requiresApproval /\ row.state = "CLOSED_REJECTED"
     \/ row.terms # NoTerms /\ row.requiresApproval /\ row.state = "PENDING_APPROVAL"
     \/ row.terms # NoTerms /\ ~row.requiresApproval
        /\ row.state = "AWAITING_BUYER_RESPONSE"

\* get_decision_scoped: the row, if there is one and it is this merchant's.
ScopedRow(decisions, m, d) == decisions[d] # NoRow /\ decisions[d].merchant = m

================================================================================
