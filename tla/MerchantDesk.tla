------------------------------ MODULE MerchantDesk ------------------------------
(***************************************************************************)
(* The tables of the service with their contents: what each buyer message  *)
(* writes, what the merchant's rulings and outcome reports add, and what   *)
(* the buyer and the merchant are shown.  A message goes through the       *)
(* strategy proposal and the offer pipeline; a request that commits is one *)
(* step, which is what Negotiation's transactions amount to (it implements *)
(* DecisionLedger, as this module does), and one that fails leaves no row. *)
(***************************************************************************)
EXTENDS DecisionTable, Benchmark, StrategyAdvice, FiniteSetsExt

CONSTANTS
  ApprovalReqs, OutcomeReqs,  \* the other requests
  PolicyOf, ProductOf,        \* merchant_policies and products, by id
  Deployments,                \* a provider, and the messages of its buyers
  ClaudeReplies,              \* what the Anthropic API may come back with
  Predictions,                \* predicted_p_conv, times Scale, or None
  RejectedPriceSets           \* prices turned down before a later round

VARIABLES
  provider,        \* "mock" or "claude", chosen when the server starts
  inbox,           \* the messages the buyers will send, or NoRow
  replies,         \* what the provider came back with for a message
  sessions, intents, offers, decisions, audits, authorizations, outcomes,  \* tables
  answers          \* what POST /buyer-intents answered

tables == <<sessions, intents, offers, decisions, audits, authorizations, outcomes>>
vars == <<provider, inbox, replies, tables, answers>>

Init ==
  /\ \E d \in Deployments : provider = d.provider /\ inbox = d.inbox
  /\ replies = [i \in IntentReqs |-> NoRow]
  /\ sessions = [i \in IntentReqs |-> NoRow]
  /\ intents = [i \in IntentReqs |-> NoRow]
  /\ offers = [i \in IntentReqs |-> <<>>]
  /\ decisions = [i \in IntentReqs |-> NoRow]
  /\ audits = [i \in IntentReqs |-> <<>>]
  /\ authorizations = [a \in ApprovalReqs |-> NoRow]
  /\ outcomes = [o \in OutcomeReqs |-> NoRow]
  /\ answers = [i \in IntentReqs |-> NoRow]

Actions == {"REJECT", "ESCALATE", "ACCEPT", "COUNTER"}

TermsRow ==
  [price : Int, discount : Nat, cashback : Int, quantity : Int,
   delivery : {"standard", "expedited"}]

--------------------------------------------------------------------------------
(* POST /buyer-intents. *)

\* get_product looks at the product's id only, not at whose it is.
Product(msg) == ProductOf[msg.product]

Policy(m) == PolicyOf[m]

\* The first and only round: handle_buyer_intent opens a session per message.
Deal(msg, expedited) ==
  [intent |-> [budget |-> msg.budget, quantity |-> msg.quantity, price |-> msg.price,
               cashback |-> msg.cashback, expedited |-> expedited, round |-> 1,
               expired |-> FALSE],
   product |-> Product(msg), policy |-> Policy(msg.merchant), rejected |-> {}]

\* A message of whole amounts, from an account.  (The API checks that the fields are
\* there, not what they hold.)
IsMessage(msg) ==
  /\ msg.merchant \in Merchants
  /\ {msg.budget, msg.quantity, msg.cashback} \subseteq Int
  /\ msg.price \in Int \union {None}

Waiting(i) == inbox[i] # NoRow /\ answers[i] = NoRow

\* What the provider may come back with for message i.
Replies(i) ==
  IF ~Waiting(i) THEN {}
  ELSE IF provider = "mock" THEN {Answer(MockRaw(inbox[i].words, inbox[i].context))}
  ELSE ClaudeReplies

\* Mutant: a provider that failed is reported as one that saw no signal.
AdviceOfSilentFailure(msg, reply) ==
  [agent |-> SelectedAgent(msg.context), strategy |-> ParseReply(reply).strategy,
   failed |-> FALSE, expedited |-> ParseReply(reply).expedited]

\* The proposal as it is recorded.  Only a failed call leaves the delivery preference
\* to the flag in the buyer's context; a proposal brings its own.
Advice(msg, reply) ==
  LET proposal == ParseReply(reply)
      failed == proposal.result = "error"
  IN  [agent |-> IF failed THEN "NONE" ELSE SelectedAgent(msg.context),
       strategy |-> proposal.strategy, failed |-> failed,
       expedited |-> IF failed THEN "wants_expedited_delivery" \in msg.context
                     ELSE proposal.expedited]

\* An exception inside the transaction: nothing is committed.
Raises(msg, reply) ==
  \/ ParseReply(reply).result = "escapes"
  \/ ~Computable(Deal(msg, Advice(msg, reply).expedited))

\* Mutant: an escalated offer is left for the buyer to answer.
NewStateSkipsApproval(run) ==
  IF run.selected = 0 THEN "CLOSED_REJECTED" ELSE "AWAITING_BUYER_RESPONSE"

NewState(run) ==
  IF run.action = "ESCALATE" THEN "PENDING_APPROVAL"
  ELSE IF run.selected = 0 THEN "CLOSED_REJECTED"
  ELSE "AWAITING_BUYER_RESPONSE"

TermsOf(offer) ==
  [price |-> offer.price, discount |-> offer.discount, cashback |-> offer.cashback,
   quantity |-> offer.quantity, delivery |-> offer.delivery]

\* The frozen columns; also all a buyer is shown of an offer.
FrozenTerms(run) ==
  IF run.selected = 0 THEN NoTerms ELSE TermsOf(run.offers[run.selected])

SessionRow(msg, state) ==
  [merchant |-> msg.merchant, product |-> msg.product, state |-> state]

IntentRow(msg, advice) ==
  [budget |-> msg.budget, quantity |-> msg.quantity, price |-> msg.price,
   cashback |-> msg.cashback, expedited |-> advice.expedited,
   strategy |-> advice.strategy]

NewDecision(msg, run) ==
  [merchant |-> msg.merchant, action |-> run.action, selected |-> run.selected,
   requiresApproval |-> run.action = "ESCALATE", state |-> NewState(run),
   terms |-> FrozenTerms(run)]

AnswerRow(run) ==
  [code |-> 200, action |-> run.action, offer |-> FrozenTerms(run)]

AuditTrail(msg, advice, run) ==
  [intent |-> msg.budget,
   proposal |-> [agent |-> advice.agent, strategy |-> advice.strategy,
                 failed |-> advice.failed],
   candidate_generation |-> Cardinality(DOMAIN run.offers),
   policy |-> Cardinality(Feasible(run.offers)),
   economic_evaluation |-> Cardinality(DOMAIN run.offers),
   selection |-> run.selected,
   decision |-> run.action]

Stages ==
  {"intent", "proposal", "candidate_generation", "policy", "economic_evaluation",
   "selection", "decision"}

Known(msg) == msg.product \in DOMAIN ProductOf /\ msg.merchant \in DOMAIN PolicyOf

Fail(i) ==
  /\ answers' = [answers EXCEPT ![i] = [code |-> 500]]
  /\ UNCHANGED <<provider, inbox, tables>>

\* No such product, or a merchant without a policy.
IntentRefused(i) ==
  /\ Waiting(i)
  /\ ~Known(inbox[i])
  /\ Fail(i)
  /\ UNCHANGED replies

Replied(i, reply) ==
  /\ Waiting(i)
  /\ Known(inbox[i])
  /\ replies' = [replies EXCEPT ![i] = reply]

IntentRaises(i, reply) == Replied(i, reply) /\ Raises(inbox[i], reply) /\ Fail(i)

IntentPublished(i, reply) ==
  LET msg == inbox[i]
      advice == Advice(msg, reply)
      run == RunPipeline(Deal(msg, advice.expedited))
  IN  /\ Replied(i, reply)
      /\ ~Raises(msg, reply)
      /\ sessions' = [sessions EXCEPT ![i] = SessionRow(msg, NewState(run))]
      /\ intents' = [intents EXCEPT ![i] = IntentRow(msg, advice)]
      /\ offers' = [offers EXCEPT ![i] = run.offers]
      /\ decisions' = [decisions EXCEPT ![i] = NewDecision(msg, run)]
      /\ audits' = [audits EXCEPT ![i] = AuditTrail(msg, advice, run)]
      /\ answers' = [answers EXCEPT ![i] = AnswerRow(run)]
      /\ UNCHANGED <<provider, inbox, authorizations, outcomes>>

--------------------------------------------------------------------------------
(* POST /approvals and POST /outcomes/record. *)

\* Mutant: the lookup without the merchant.
VisibleToAll(m, d) == decisions[d] # NoRow

Visible(m, d) == ScopedRow(decisions, m, d)

\* A ruling that finds the decision and may move it; any other changes nothing.
Rule(a, m, d, verdict) ==
  /\ authorizations[a] = NoRow
  /\ Visible(m, d)
  /\ <<decisions[d].state, verdict>> \in AllowedTransitions
  /\ decisions' = [decisions EXCEPT ![d].state = ClosedBy(verdict)]
  /\ authorizations' =
       [authorizations EXCEPT ![a] =
          [decision |-> d, merchant |-> m, previous |-> decisions[d].state,
           new |-> verdict, at |-> 0]]
  /\ UNCHANGED <<provider, inbox, replies, sessions, intents, offers, audits, outcomes,
                 answers>>

PredictionError(predicted, converted) ==
  IF predicted = None THEN None
  ELSE LET miss == predicted - (IF converted THEN Scale ELSE 0)
       IN  IF miss < 0 THEN -miss ELSE miss

\* The prediction is the caller's word, and neither the decision's state nor an earlier
\* outcome stands in the way.  `by` is the caller, whom the row does not name;
\* predicted_eov_paise and actual_contribution_paise, stored as given, are left out.
RecordOutcome(o, m, d, predicted, converted) ==
  /\ outcomes[o] = NoRow
  /\ Visible(m, d)
  /\ outcomes' =
       [outcomes EXCEPT ![o] =
          [decision |-> d, by |-> m, predicted |-> predicted, converted |-> converted,
           error |-> PredictionError(predicted, converted)]]
  /\ UNCHANGED <<provider, inbox, replies, sessions, intents, offers, decisions, audits,
                 authorizations, answers>>

\* Every message has been answered: nothing else need happen.
Idle == (\A i \in IntentReqs : ~Waiting(i)) /\ UNCHANGED vars

Next ==
  \/ \E i \in IntentReqs :
       \/ IntentRefused(i)
       \/ \E reply \in Replies(i) : IntentRaises(i, reply)
       \/ \E reply \in Replies(i) : IntentPublished(i, reply)
  \/ \E m \in Merchants, d \in IntentReqs :
       \/ \E a \in ApprovalReqs, verdict \in Verdict : Rule(a, m, d, verdict)
       \/ \E o \in OutcomeReqs, predicted \in Predictions, converted \in BOOLEAN :
            RecordOutcome(o, m, d, predicted, converted)
  \/ Idle

Spec == Init /\ [][Next]_vars

\* The database and the requests hold whole amounts, and the marker of an absent row is
\* none of the rows.
ASSUME DeskAssumption ==
  /\ \A p \in DOMAIN ProductOf : ProductOf[p] \in ProductRow
  /\ \A m \in DOMAIN PolicyOf : PolicyOf[m] \in PolicyRow
  /\ \A d \in Deployments, i \in IntentReqs :
       d.inbox[i] # NoRow => IsMessage(d.inbox[i])
  /\ Predictions \subseteq Int \union {None}
  /\ None \notin Int
  /\ NoTerms \notin TermsRow
  /\ NoRow \notin [merchant : Merchants, product : DOMAIN ProductOf,
                   state : NegotiationState]
  /\ NoRow \notin [merchant : Merchants, action : Actions, selected : 0 .. AskTurn,
                   requiresApproval : BOOLEAN, state : NegotiationState,
                   terms : TermsRow \union {NoTerms}]
  /\ NoRow \notin [decision : IntentReqs, merchant : Merchants,
                   previous : NegotiationState, new : Verdict, at : {0}]
  /\ NoRow \notin [code : {200}, action : Actions, offer : TermsRow \union {NoTerms}]

--------------------------------------------------------------------------------
(* What the GET endpoints show merchant m. *)

\* Mutant: the selected row is recognised by its price.
IsSelectedByPrice(i, n) ==
  decisions[i].terms # NoTerms /\ offers[i][n].price = decisions[i].terms.price

IsSelected(i, n) == n = decisions[i].selected

\* The ledger of session i, or 404.
LedgerView(m, i) ==
  IF sessions[i] = NoRow \/ sessions[i].merchant # m THEN NoRow
  ELSE [n \in DOMAIN offers[i] |->
          [offer |-> offers[i][n], selected |-> IsSelected(i, n)]]

\* The stages of session i; empty for a session that is not the merchant's.
TimelineView(m, i) ==
  IF sessions[i] # NoRow /\ sessions[i].merchant = m THEN audits[i] ELSE <<>>

DecisionCount(m, action) ==
  Cardinality({i \in IntentReqs : /\ ScopedRow(decisions, m, i)
                                  /\ decisions[i].action = action})

--------------------------------------------------------------------------------
(* Properties. *)

Published == {i \in IntentReqs : decisions[i] # NoRow}

\* The deal a published decision is about, and the row it selected.
DealOf(i) == Deal(inbox[i], intents[i].expedited)
Selected(i) == offers[i][decisions[i].selected]

OfferRow ==
  [price : Int, discount : Nat, cashback : Int, delivery : {"standard", "expedited"},
   quantity : Int, contribution : Int, violation : 0 .. 9, eov : Int \union {None}]

\* Every table holds rows of its kind, and a decision selects one of its own offers.
TypeOK ==
  /\ \A i \in IntentReqs : \A n \in DOMAIN offers[i] : offers[i][n] \in OfferRow
  /\ \A i \in IntentReqs : DOMAIN audits[i] \in {{}, Stages}
  /\ \A i \in Published :
       /\ decisions[i].merchant \in Merchants
       /\ decisions[i].action \in Actions
       /\ decisions[i].selected \in {0} \union DOMAIN offers[i]
       /\ decisions[i].terms \in TermsRow \union {NoTerms}
       /\ {sessions[i].state, decisions[i].state} \subseteq NegotiationState
       /\ intents[i].strategy \in Strategies
  /\ \A o \in OutcomeReqs :
       outcomes[o] # NoRow => outcomes[o].error \in Nat \union {None}

Bounded(deal, cs) ==
  /\ \A i, j \in DOMAIN cs : cs[i] = cs[j] => i = j
  /\ \A i \in DOMAIN cs :
       LET c == cs[i]
       IN  /\ c.price >= deal.product.cost
           /\ c.cashback <= deal.policy.maxCashback
           /\ c.delivery = "expedited" => deal.product.capacity > 0
           /\ deal.intent.round > 1 /\ c.price \in deal.rejected
                => c.price = deal.intent.price

\* candidate_generator's promise: no candidate twice, none below cost, never more cashback
\* than the policy allows, expedited only if there is capacity tomorrow, and after the
\* first round (which run_pipeline knows and the service never reaches) no price the
\* buyer turned down unless he asks for it.
CandidatesAreBounded ==
  \A i \in IntentReqs :
    /\ i \in Published => Bounded(DealOf(i), offers[i])
    /\ Waiting(i) /\ Known(inbox[i]) =>
         \A prices \in RejectedPriceSets :
           LET deal == [Deal(inbox[i], FALSE) EXCEPT !.intent.round = 2,
                                                     !.rejected = prices]
           IN  Bounded(deal, Candidates(deal))

\* No terms that leave the pipeline break the merchant's policy, whichever stage might
\* have let them through: margin after delivery, discount, cashback, what is left of
\* the incentive budget, stock, tomorrow's capacity.
OfferKeepsPolicy ==
  \A i \in Published :
    decisions[i].terms # NoTerms =>
      LET t == decisions[i].terms
          product == Product(inbox[i])
          policy == Policy(decisions[i].merchant)
          given == IF t.price < product.base THEN product.base - t.price ELSE 0
      IN  /\ (t.price - product.cost - product.delivery) * t.quantity
               >= policy.marginFloor
          /\ given <= policy.maxDiscount
          /\ given + t.cashback <= policy.incentiveBudget - policy.spend
          /\ t.quantity <= product.inventory
          /\ t.delivery = "expedited" => t.quantity <= product.capacity

\* The winner is worth at least as much as every feasible candidate, and of those worth
\* the same none contributes more, or as much at a lower price.
WinnerIsBest ==
  \A i \in Published :
    decisions[i].selected # 0 =>
      \A n \in Feasible(offers[i]) :
        LET row == offers[i][n]
            best == Selected(i)
        IN  /\ row.eov <= best.eov
            /\ row.eov = best.eov =>
                 /\ row.contribution <= best.contribution
                 /\ row.contribution = best.contribution => best.price <= row.price

\* A buyer who asks for what the policy allows is never turned away: if his own terms
\* pass, the merchant makes an offer worth at least as much to him as those terms.
AskIsHeard ==
  \A i \in Published :
    LET deal == DealOf(i)
        ask == Candidate(deal, AnchorKey(deal))
    IN  ValidAnchor(deal) /\ FirstViolation(deal, ask) = 0 =>
          decisions[i].selected # 0 /\ Selected(i).eov >= Value(deal, ask)

\* The approval gate: an offer that gives away more than the threshold, as discount and
\* cashback together, is the only thing that waits for a human, and nothing is rejected
\* that has a feasible candidate.
GateIsThreshold ==
  \A i \in Published :
    LET d == decisions[i]
        threshold == Policy(d.merchant).threshold
    IN  /\ d.action = "REJECT" <=> Feasible(offers[i]) = {}
        /\ d.requiresApproval <=>
             d.terms # NoTerms /\ d.terms.cashback + d.terms.discount > threshold

\* One story, told four times: what the buyer was answered, the row the ledger marks as
\* selected, the frozen terms and the audit trail agree, for as long as they are kept,
\* exactly one row is marked unless the answer was REJECT, and the dashboard counts as
\* escalated what waits for a ruling or has had one.
ViewsAgree ==
  \A i \in Published :
    LET d == decisions[i]
        ledger == LedgerView(d.merchant, i)
        trail == TimelineView(d.merchant, i)
        marked == {n \in DOMAIN ledger : ledger[n].selected}
    IN  /\ Cardinality(marked) = IF answers[i].action = "REJECT" THEN 0 ELSE 1
        /\ answers[i].offer = d.terms
        /\ \A n \in marked : TermsOf(ledger[n].offer) = d.terms /\ n = trail.selection
        /\ trail.decision = answers[i].action
        /\ trail.candidate_generation = Cardinality(DOMAIN ledger)
        /\ trail.policy =
             Cardinality({n \in DOMAIN ledger : ledger[n].offer.eov # None})
        /\ DecisionCount(d.merchant, "ESCALATE") =
             Cardinality({j \in Published :
                            /\ decisions[j].merchant = d.merchant
                            /\ \/ decisions[j].state = "PENDING_APPROVAL"
                               \/ \E a \in ApprovalReqs :
                                    /\ authorizations[a] # NoRow
                                    /\ authorizations[a].decision = j})

\* A merchant's requests and reads reach that merchant's own negotiations only: an
\* outcome or an authorization is on a decision of the merchant who sent it, and the
\* ledger, the timeline and the counts of the dashboard show nobody else's.
MerchantsAreIsolated ==
  /\ \A o \in OutcomeReqs :
       outcomes[o] # NoRow => ScopedRow(decisions, outcomes[o].by, outcomes[o].decision)
  /\ \A a \in ApprovalReqs :
       authorizations[a] # NoRow =>
         ScopedRow(decisions, authorizations[a].merchant, authorizations[a].decision)
  /\ \A m \in Merchants, i \in Published :
       m # decisions[i].merchant =>
         LedgerView(m, i) = NoRow /\ TimelineView(m, i) = <<>>

\* provider.py:11-13: a failed call never becomes a proposal.  The trail admits the
\* failure exactly when there was no valid answer, the strategy on record is the one
\* the provider gave or NONE, and then the delivery preference is the buyer's own.
ProposalIsGenuine ==
  \A i \in Published :
    LET told == audits[i].proposal
        valid == replies[i].kind = "object" /\ ValidRaw(replies[i].raw)
    IN  /\ told.failed <=> ~valid
        /\ told.strategy = intents[i].strategy
        /\ valid => told.strategy = replies[i].raw.strategy
        /\ ~valid => /\ told.agent = "NONE" /\ told.strategy = "NONE"
                     /\ intents[i].expedited <=>
                          "wants_expedited_delivery" \in inbox[i].context

\* What the benchmark is there to show, for every scenario: wherever a baseline sells at
\* a price the pipeline has a candidate for, within the whole policy, the pipeline makes
\* an offer of at least that expected value; and such a sale the benchmark does not
\* count as a policy violation.  (Half a gap, which baseline C may grant, need not be
\* such a price.)
EconexBeatsCompliantBaselines ==
  \A i \in Published :
    IsScenario(DealOf(i)) =>
      LET deal == DealOf(i)
          baselines == {BaselineA(deal), BaselineB(deal), BaselineC(deal)}
          prices == {offers[i][n].price : n \in DOMAIN offers[i]}
          Sale(price) ==
            Candidate(deal, [price |-> price, cashback |-> 0, delivery |-> "standard"])
      IN  \A price \in baselines \intersect prices :
            FirstViolation(deal, Sale(price)) = 0 =>
              /\ ~BreaksPolicy(deal, price)
              /\ decisions[i].selected # 0
              /\ Selected(i).eov >= BaselineValue(deal, price)

\* The tables, seen as DecisionLedger sees them, keep what it promises: the contents
\* and the views of this module are those of the decisions Negotiation makes.
Table == INSTANCE DecisionLedger WITH
  now <- 0,
  sessions <-
    [i \in IntentReqs |-> IF sessions[i] = NoRow THEN NoRow ELSE sessions[i].state],
  audits <- [i \in IntentReqs |-> DOMAIN audits[i]],
  decisions <-
    [i \in IntentReqs |->
       IF decisions[i] = NoRow THEN NoRow
       ELSE [merchant |-> decisions[i].merchant, terms |-> decisions[i].terms,
             requiresApproval |-> decisions[i].requiresApproval,
             state |-> decisions[i].state, expiresAt |-> 0]]
TablesImplementLedger == Table!LedgerSpec

\* decision_resolver.py:18-19 says that "ACCEPT vs COUNTER is decided by whether the
\* selected candidate's price/cashback/delivery exactly match what the buyer asked for":
\* of the offers that need no approval, those that are the buyer's ask are accepted, and
\* no other is.
AcceptIsExactMatch ==
  \A i \in Published :
    LET d == decisions[i]
    IN  d.action \in {"ACCEPT", "COUNTER"} =>
          (d.action = "ACCEPT"
             <=> /\ d.terms.price = intents[i].price
                 /\ d.terms.cashback = intents[i].cashback
                 /\ d.terms.delivery = "expedited" <=> intents[i].expedited)

GivenAway(d) == d.terms.discount + d.terms.cashback

Committed(m) ==
  {i \in Published : /\ decisions[i].merchant = m
                     /\ decisions[i].state = "CLOSED_ACCEPTED"}

\* merchant_repo.py:107-108 says of incentive_spend_to_date that the "budget accounting
\* reflects committed spend": what a new offer gives away, with the spend the policy row
\* started from and what the decisions closed as accepted gave away, is within the
\* incentive budget.
BudgetCountsCommitments ==
  [][\A i \in IntentReqs :
       decisions[i] = NoRow /\ decisions'[i] # NoRow /\ decisions'[i].terms # NoTerms =>
         LET m == decisions'[i].merchant
             spent == MapThenSumSet(LAMBDA j : GivenAway(decisions[j]), Committed(m))
         IN  Policy(m).spend + spent + GivenAway(decisions'[i])
               <= Policy(m).incentiveBudget]_vars

================================================================================
