# ECONEX: a TLA+ model of the negotiation and payment service

ECONEX (`src/`) lets a buyer's agent negotiate a price with a merchant's agent. A
language model may *suggest* how to negotiate; what is offered, whether a human must
approve it, and what is charged is decided by deterministic code in
`src/backend/app`. This directory holds the TLA+ model of that code: which states it
can reach when requests run side by side, calls fail and the process dies, and what it
computes, records and shows at the boundaries of a merchant's policy.

`PROJECT.json` maps every definition to the lines it models and lists the runs, the
hazards, the findings and the theorems.

## 1. The system

One Python process, `api/server.py`: a `ThreadingHTTPServer`, one thread per request,
each with a connection of its own to one SQLite file. There is no other shared state:
handlers meet in the tables and at SQLite's single write lock. Two services are called
over HTTP: an LLM provider and Razorpay; Razorpay also calls back with webhooks.

| Component | State | Operations | Hard behaviour |
|---|---|---|---|
| buyer intents (`services/negotiation_service.py`) | `negotiation_sessions`, `buyer_intents`, `offers`, `decisions`, `audit_events` | `handle_buyer_intent`: one request, one transaction | holds the write lock across the LLM call; may fail or die anywhere inside |
| approvals (`_handle_approval`) | `decisions.state`, `authorizations` | approve, deny | check, then act, with nothing locked in between |
| payment orders (`_handle_create_payment`, `payments_repo.process_payment`) | `payments` | look up the key, call Razorpay, insert | a remote side effect between the lookup and the insert; timeouts, retries, crashes |
| webhooks (`_handle_webhook`) | `webhook_events`, `payments.status`, `audit_events` | dedupe, verify, move the status | repeated, late and unordered deliveries; check, then act |
| negotiation and payment state tables (`core/*state_machine.py`) | none | `transition`, `transition_payment` | only as good as the value they are asked about |
| offer pipeline (`core/pipeline.py` and the five stages under it) | none (pure) | generate, check, value, rank, resolve | boundaries: floors, zero budgets, repeated grid points, ties |
| strategy agents and LLM providers (`agents/`, `llm/`) | none | choose an agent, ask, validate the answer | slow, failing, malformed answers |
| outcome recording (`POST /outcomes/record`) | `outcomes` | append a prediction and what came of it | the caller's word; whose decision it is |
| ledger, timeline, dashboard (GET endpoints), serializers | none (read only) | show a merchant's tables, show a buyer his offer | four copies of one choice; three columns that say whose it is |
| merchants, products, policies (`merchant_repo.py`) | static tables | `get_product`, `get_policy`, `increment_spend` (no caller) | what the policy checks read never moves |
| benchmark (`benchmark.py`) | none | three baselines against the pipeline | drawn at random: a systematic error hides in averages |
| Razorpay adapter (`core/razorpay_adapter.py`) | none | real and simulated orders, signature check | failures that do not say whether the order exists |
| SQLite (external, as the repositories use it) | the lock, open transactions | first write takes the lock, commit or close frees it, UNIQUE, 5 s busy timeout | everybody waits for one writer |

What makes it correct, per component: a negotiation is all or nothing and its decision
says what the pipeline concluded; an offer keeps its merchant's policy and is the best
of those that do; an escalated offer is charged only after its merchant approved it, and
a verdict is on record from the step that applies it; at most one charge is booked per
idempotency key, for the amount the server froze; a payment marked captured was
captured, by a signed event; what buyer, merchant and audit trail are shown is one
story, and nobody else's; a failed model call is never passed off as an answer; and no
request hangs because another failed.

Parts left out, with the reason, are in section 8.

## 2. Modules

| Module | What it is |
|---|---|
| `NegotiationStates` | the state table of `core/state_machine.py` |
| `DecisionTable` | rows of the decisions table, shared by its writers and its readers |
| `DecisionLedger` | abstract: what the negotiation side promises, without locks, transactions, failures |
| `Negotiation` | intents and approvals, lock, transactions, crash, clock; implements `DecisionLedger` |
| `NegotiationProofs` | the TLAPS proofs about `Negotiation` |
| `PaymentTable` | rows of the payments table and its state table |
| `PaymentBook` | abstract: what is booked for an idempotency key |
| `Payments` | the payment handler and Razorpay's order side; implements `PaymentBook` |
| `PaymentsProofs` | the TLAPS proofs about `Payments` |
| `Webhooks` | the webhook handler and the buyer's attempts to pay; implements `PaymentLife` |
| `PaymentLife` | abstract: a payment's status follows what became of the attempts to pay |
| `WebhooksProofs` | the TLAPS proofs about `Webhooks` |
| `Econex` | all handlers of one process composed, with fairness: extends `Negotiation`, instantiates `Payments` and `Webhooks`; implements `Sale` |
| `Sale` | abstract: the service as a whole, from frozen terms to captured money, and what follows from it |
| `SaleProofs` | the TLAPS proofs about `Sale` |
| `EconexProofs` | the TLAPS proofs about `Econex`: that it implements its three components, and what holds end to end |
| `ServiceProofs` | that the components' promises hold in the service, and that it implements `Sale` |
| `OfferPipeline` | `run_pipeline`, stage by stage: pure operators over one deal |
| `OfferPipelineProofs` | lemmas about each stage, for every deal |
| `StrategyAdvice` | the agents' router, both providers, the validation of an answer |
| `Benchmark` | the three baselines and the scenarios they are compared on |
| `MerchantDesk` | the tables with their contents: messages, rulings, outcomes, views; implements `DecisionLedger` |
| `MerchantDeskProofs` | the TLAPS proofs about `MerchantDesk` |
| `MCNegotiation`, `MCPayments`, `MCWebhooks`, `MCEconex`, `MCMerchantDesk` | the constants and symmetry sets of the TLC instances |

### How the code becomes actions

*One request is one process.* `intentReq`, `approvalReq`, `payReq` and `hookReq` hold
the local variables and the program counter of each handler. A request is used once; a
client that retries is another request with the same key. Ids are fresh uuids in the
code, so a row is named by the request that inserts it.

*A step is what SQLite lets nobody see inside.* Connections run in the default deferred
mode: a SELECT before the first write holds nothing, the first INSERT or UPDATE takes
the write lock, and commit or close frees it.

- An intent writes its session row and *then* calls the LLM, so it has several steps
  with the lock held: `IntentOpen`, `IntentPropose`, `IntentDecide`, `IntentCommit`.
  The rows it has not committed are in `txn`. `IntentFail` is any exception on the way;
  `IntentBusy` is the five-second busy timeout.
- An approval reads (`ApprovalCheck`, or `ApprovalUnknown`, `ApprovalConflict`) and
  later writes (`ApprovalWrite`). Its two UPDATEs, its INSERT and its commit are one
  step, as the lock is held through them and nothing else is called.
- A payment is `PayCheck`, the lookup (`PayDuplicate`, `PayFresh`), the Razorpay call
  (`PaySimulated`, `PayOrderCreated`, `PayOrderFailed`, `PayOrderRaises`,
  `PayNothingToCharge`) and the insert (`PayRecord`, `PayClash`, `PayBusy`). A failed or
  raising call may or may not have made an order.
- A delivery is `HookArrive`, the lookup (`HookDuplicate`, `HookFresh`), `HookRead` and
  one writing transaction (`HookWrite`, `HookClash`, `HookBusy`).

*Crash* loses every request in flight, rolls the open transaction back and keeps the
committed rows; the new process may run with or without Razorpay credentials (`live`).

*Composition.* `Payments` and `Webhooks` each state what they assume of the others as
actions of their own (`OtherHandlers`, `PaymentInserted`, `LockMoves`). `Econex`
takes the three modules over shared variables, without those assumptions: it extends
`Negotiation`, which owns the clock, the decisions and the lock (so that its lemmas can be
cited in the proofs), and instantiates the other two. That the composition is a behaviour
of each component's specification, that is, that the assumptions are what the others do,
is checked by the run `econex` and proved in `EconexProofs`.

*Abstraction.* Each component implements an abstract specification of its own
(`DecisionLedger`, `PaymentBook`, `PaymentLife`), and the composition implements one that
none of them could state: `Sale`. Its state is what was frozen, what was approved, what
Razorpay was asked for, what is booked and how the buyer's attempts went; it has no
requests, keys, deliveries, locks, clock or crashes. `Sale` says of a step to money what
must be true of the other components' tables at that moment: an order or a row is for the
frozen terms of a decision that is cleared *then*, although the handler read the decision
up to fifteen seconds earlier; a row says "created" only with its order, disclosed to its
caller; a status moves only to what an attempt on that order became. `Econex` defines the
mapping: `Frozen` reads the decisions table, `Ordered` says for which decision a request
had an order made, which Razorpay's orders themselves do not record.

*Two views of the negotiation side.* `Negotiation` has the interleavings and leaves the
outcome open: its pipeline concludes anything `resolve_decision` can return.
`MerchantDesk` has the contents and leaves the interleavings out: one
`handle_buyer_intent` that commits is one step, `IntentPublished`, which takes the
provider's reply, the proposal, the five stages of the pipeline and every row the
handler writes; one that fails (`IntentRefused`, `IntentRaises`) leaves no row. Both
implement the same abstract `DecisionLedger`, and that is why the one step is justified:
seen through the ledger, `Negotiation` publishes a decision, its session and its trail in
one step too, or not at all. That it does so through failures and crashes is
`ImplementsLedger`, of `Negotiation`; `TablesImplementLedger`, of `MerchantDesk`, adds that
the contents published are those of a ledger, and says nothing of what happens between
the inserts. Rulings (`Rule`) and outcomes (`RecordOutcome`) are the
handlers that add to what was published.

### Abstractions

- A token is checked before anything else in a handler, so a request arrives as some
  merchant. Merchants, products and policies are static in a running service: no
  handler writes them. They are constants of `MerchantDesk`.
- The frozen terms are a price and a quantity in `Payments`, all their columns in
  `MerchantDesk`, opaque elsewhere.
- `code` is the verdict a handler came to. Whether the client hears it makes no
  difference to the server, so a crash after the commit is not a case of its own.
- Requests refused before they touch the database are left out, as they change nothing: a
  missing field, a client's own `amount_paise` (400), a webhook body that is not JSON (400).
  So is the dedupe key of an event without a payment's id that has an id of its own: like
  the hash of the body it names that event alone.
- A 200 of Razorpay without an order id is left out, and so is a signed event about an
  order this service did not make.
- Expiry is a number of ticks of one clock, the database's and the handlers'.
- The conversion probability is a sigmoid of a float score. The score is exact here,
  over a common denominator, and the sigmoid any integer function of it (`Chance`);
  float rounding and saturation are left out.
- Candidate ids are compared as strings in the code ("C10" before "C2"): `IdOrder` keeps
  that order.
- A text is the set of keyword lists it matches, a buyer's context the set of its true
  flags, and a field of a model's answer one of the values its validation tells apart.
- Amounts in a message are whole numbers. The API checks that the fields are present and
  not what they hold; a text or a fraction there fails in Python's arithmetic or goes
  through it, and neither is modelled.

## 3. Runs

| Run | Instance | Question |
|---|---|---|
| `negotiation` | 2 merchants, 2 intents, 2 approvals, 1 terms, clock 0..1 | is a negotiation all or nothing, and is a decision exactly what its outcome and its authorizations say? |
| `payments` | 2 requests, 2 keys, 2 merchants, 1 decision, terms worth something and nothing | at most one truthful row per key, for the frozen amount? |
| `webhooks` | 3 deliveries, 2 attempts, 1 order | do the status, the audit trail and the events tell one story, and does the status follow the attempts? |
| `econex` | 1 intent, 2 approvals, 1 payment, 1 delivery, clock 0..1, fair handlers | do the components keep each other's assumptions; is the whole a sale of what was frozen and cleared; is there an approval behind every charge and a trail behind every capture; does every request end? |
| `merchant_desk` | 5 policies, 4 products, 7,776 messages one at a time, every context with every answer of both providers, pairs of messages, 2 rulings, 1 outcome | what is offered, recorded and shown, against what merchant, buyer and gate may expect |
| `negotiation_race` | 1 decision, 2 approvals | violated: a verdict is final |
| `payments_retry` | 2 requests, 1 key | violated: one Razorpay order per key |
| `webhooks_race` | 2 deliveries about 2 attempts | violated: a settled payment is final |
| `webhooks_dropped` | 2 deliveries about 1 attempt | violated: an acknowledged capture is applied |
| `econex_expiry` | 1 of each, offers live one tick, clock 0..2 | violated: an offer expires 15 minutes after its *authorization* |
| `merchant_desk_accept` | 1 message: the full price, delivery tomorrow | violated: an ACCEPT matches the buyer's price, cashback and delivery exactly |
| `merchant_desk_budget` | 2 messages to a merchant whose budget has room for one | violated: the budget accounting reflects committed spend |

The last seven are disagreements between the code and what its documents or comments say
(section 6).

**Why the bounds are enough to be interesting.** Every race in these handlers is
between two requests: the two that compete for the lock, a decision, a key, a dedupe key
or a status. Two requests of a kind reach each of them; webhooks get three, so that a
third delivery meets the row two others raced for. `econex` has one intent: that intents
compete for the lock is `negotiation`'s case, and here the intent's lock meets every other
kind of writer. Two keys and two requests give both the same key and different keys on
one decision. `OfferTtl = 0` with one tick lets an offer expire under a handler. `MaxTime`
bounds the clock; requests are finite in number and each runs once, so nothing else needs
a bound. Quantity 0 is among the inputs because nothing refuses it before `create_order`.

In `merchant_desk` amounts are in units of 50 rupees around the repository's hero
scenario: asks below cost, on the grid, between its steps, above the base price and beyond
ten times it; an empty purse and one below zero, a zero base price, odd and zero discount steps, a spent and
a nearly spent incentive budget, and stock and capacity at their limits. The inputs are
the choice of the first state, so each message is a short run of its own; pairs are of one
merchant and of two, about different products, and one is about a product nobody sells
(`get_product` looks at the id only). Messages of different requests meet in nothing but
the tables' merchant columns, which is why pairs need no more than that. The sigmoid of
the instance is a rational function; the proofs hold for any, as section 5 says.

Symmetry is used over merchants and requests in the safety runs only, where the instance
treats them alike; never in `econex`, which checks liveness, nor in `merchant_desk`, whose
merchants differ.

**Deadlock** is checked in every run. `Quiescent` (in `Negotiation`; `ServiceQuiescent` in `Econex`) and
`Idle` (in `MerchantDesk`) are the idle server after the last request of the instance,
enabled only then, so a handler that can never go on is reported. In `Payments` and
`Webhooks` the environment can always move, so there the check says nothing; that their
handlers never get stuck is shown in `Econex`, by the absence of deadlock and by
`EveryRequestEnds`.

**Fairness** (`Econex!FairServiceSpec`) is weak fairness of each handler's own step, and nothing
else: its thread is scheduled; the LLM and Razorpay calls have 15-second timeouts
(`urlopen(..., timeout=15)`); a wait for the lock ends after five seconds at the latest.
Clients, buyers, Razorpay's events, crashes and the clock are never obliged to act. The
mutant of `EveryRequestEnds` drops the LLM timeout, and then the property fails. The
safety properties of the run do not depend on the fairness.

Every property of a passing run has a mutant in `PROJECT.json`: a plausible bug in one
mapped definition that the property catches.

## 4. What holds

- **All or nothing** (`IntentIsAtomic`, `LockHeldByItsTransaction`): whatever fails, a
  visible session has its decision and its whole audit trail, and a failed request never
  keeps the lock.
- **The ledger** (`StateIsOnRecord`, `AuthorizationsAreTheOwners`, `HistoryIsKept`,
  `ImplementsLedger`): a decision's state is what its outcome and its authorizations
  call for; only its owner's verdicts move it; its terms and expiry never change.
- **The charge** (`OneRowPerKey`, `ServerDerivedAmount`, `OnlyPayableIsCharged`,
  `AcknowledgedIsRecorded`, `RowMatchesRazorpay`, `ImplementsBook`): one row per key for
  the frozen amount, true about Razorpay, behind every 200.
- **The status** (`OneRowPerDedupeKey`, `CapturedWasPaid`, `ProcessedIsAudited`,
  `StatusMovesOnRecord`, `ImplementsLife`): no capture without a captured attempt, no
  change without its audit row, even when deliveries race; each attempt moves its
  payment's status once at most, and to what became of it. Two attempts may move it
  twice, which is the disagreement of `webhooks_race`, and `PaymentLife` says so.
- **The whole** (`NoChargeBeforeApproval`, `CapturedIsTraceable`, `CapturedIsOwed`,
  `ImplementsSale`, `EveryRequestEnds`): what is ordered and booked is what a decision
  froze, cleared by then; money on the books was paid and is owed to that decision's
  merchant, and can be traced back; nothing waits for ever.
- **The offer** (`CandidatesAreBounded`, `OfferKeepsPolicy`, `WinnerIsBest`, `AskIsHeard`,
  `GateIsThreshold`): no terms are frozen that break the policy, the winner is the best
  that keeps it, a buyer whose own terms pass is never turned away, and exactly the
  offers over the threshold wait for a human. They are stated of the rows the service
  keeps, so that a slip between the pipeline and the tables is caught too. What an ACCEPT
  means is not among them: there docstring and code differ (7 in section 6).
- **One story** (`ViewsAgree`): the buyer's answer, the ledger's marked row, the frozen
  terms and the audit trail are written and read apart and agree for as long as they are
  kept; what the dashboard counts as escalated waits for a ruling or has had one. As a
  ledger the tables keep what the abstract one promises (`TablesImplementLedger`).
- **Nobody else's** (`MerchantsAreIsolated`): rulings, outcomes, ledgers and timelines
  reach the decisions of the merchant who asks. Session, audit row and decision each
  carry a merchant column of their own, and the three agree.
- **No invented advice** (`ProposalIsGenuine`): the trail admits a failed call exactly
  when there was no valid answer; a proposal on record is the provider's own. This is of
  negotiations that were published; a failure nobody catches publishes none
  (section 6).
- **The benchmark's claim** (`EconexBeatsCompliantBaselines`): in every scenario the
  benchmark can draw, wherever a baseline sells within the whole policy at a price the
  pipeline has a candidate for, the pipeline's offer is worth at least as much. Half a
  gap, which baseline C may grant, need not be on the pipeline's grid, and the benchmark
  then may find the baseline ahead; it counts urgency for the pipeline only. The margin
  floor must be no loss, as the benchmark's own is: a loss is worth *less* the likelier
  the sale, and urgency would count against the pipeline.

## 5. What is proved

For any sets of merchants, decisions, requests, keys, deliveries and terms, and any clock:

| Module | Theorem | Statement |
|---|---|---|
| `NegotiationProofs` | `SpecIInv` | the inductive invariant below holds always |
| | `TypeCorrect`, `LockIsOwned`, `IntentsAreAtomic`, `StatesAreOnRecord`, `OwnersAuthorize` | each safety invariant of the run `negotiation` |
| | `HistoryKept` | the action property `HistoryIsKept` |
| | `SpecImplementsLedger` | `Negotiation` implements `DecisionLedger` |
| `PaymentsProofs` | `SpecIInv` | the inductive invariant below holds always |
| | `TypeCorrect`, `KeysAreUnique`, `AmountsAreTheServers`, `PayableIsCharged`, `AcknowledgementsAreDurable`, `RowsAreTrue` | each safety invariant of the run `payments` |
| | `SpecImplementsBook` | `Payments` implements `PaymentBook` |
| `WebhooksProofs` | `TypeCorrect`, `OneRowPerDedupeKeyHolds`, `CapturedWasPaidHolds`, `ProcessedIsAuditedHolds` | each safety invariant of the run `webhooks` |
| | `StatusMovesOnRecordHolds` | the action property `StatusMovesOnRecord` |
| | `SpecImplementsLife` | `Webhooks` implements `PaymentLife` |
| `SaleProofs` | `SaleIsOwed` | in every sale, `CapturedIsOwed` |
| `OfferPipelineProofs` | `BestExists` | if any candidate is feasible, the optimizer's order has a first one and `SelectBest` is it |
| `MerchantDeskProofs` | `TypeCorrect`, `CandidatesAreBoundedHolds`, `OfferKeepsPolicyHolds`, `WinnerIsBestHolds`, `AskIsHeardHolds`, `GateIsThresholdHolds`, `ViewsAgreeHolds`, `MerchantsAreIsolatedHolds`, `ProposalIsGenuineHolds`, `EconexBeats` | each safety invariant of the run `merchant_desk` |
| | `DeskImplementsLedger` | `MerchantDesk` implements `DecisionLedger` |
| `EconexProofs` | `ServiceEInv` | the inductive invariant of the whole service |
| | `ServiceTypeCorrect`, `NoChargeUnapproved`, `CapturesAreTraceable` | safety invariants of the run `econex` |
| | `NegotiatesThere`, `PaysThere`, `ReportsThere` | `Econex` implements `Negotiation`, `Payments` and `Webhooks` |
| `ServiceProofs` | `NegotiationHolds`, `PaymentsHold`, `WebhooksHold` | every invariant, action property and refinement of each component holds in the service |
| | `ServiceImplementsSale` | `Econex` implements `Sale` |
| | `CapturesAreOwed` | the last safety invariant of the run `econex`, by way of `Sale` |

*Assumptions*, all evaluated by TLC in every run whose module extends them:
`DecisionTable!RowAssumption`, `Negotiation!NegotiationAssumption`,
`PaymentTable!PaymentRowAssumption`, `Payments!PaymentsAssumption`,
`Webhooks!WebhookAssumption`, `Econex!EconexAssumption` and `MerchantDesk!DeskAssumption`. They say that the bounds
of the clock are naturals, that the markers for an absent row, absent terms, an absent
order or an absent entity id are not rows, terms, deals, orders or ids, that terms have a
price and a quantity whose product is an amount, and that products, policies and messages hold
whole numbers. The sets may be empty or infinite. Three facts TLC cannot evaluate are
hypotheses of the theorems that need them instead: `ChanceIsInteger` (the conversion
chance of any score is an integer) for all of `MerchantDeskProofs`, `ChanceIsIncreasing`
(a higher score has no lower chance, as of any sigmoid) for `EconexBeats`, and
`TermsRow \subseteq Terms` for the refinement. The sigmoid of the runs has both
properties. `SaleIsOwed` has the part of `EconexAssumption` it needs as its hypothesis.

*Negotiation.* Its `IInv` is `TypeOK` and the four safety invariants, strengthened by
three facts none of them states:

- `IntentInv`: a request past its arrival knows its merchant, and has no answer before it
  answers. With `IntentIsAtomic` it follows that a request about to commit has published
  nothing yet, so a commit never overwrites a session.
- `TxnInv`: what the open transaction holds at each point, and that what it will publish
  at its commit is a legal decision with the full trail. `IntentIsAtomic` speaks of
  committed rows only; this is what `IntentCommit` turns into it.
- `ApprovalInv`: a handler about to write saw an escalated decision of its own merchant
  in the state PENDING_APPROVAL. The state may have moved since, and this does not say it
  has not: the owner, and that the decision was escalated, are the parts of what was read
  that cannot become stale. That is why `AuthorizationsAreTheOwners` holds in spite of the
  race that breaks `ClosedIsFinal`.

There is one lemma per action. `SpecImplementsLedger` maps `IntentCommit` to `Publish`,
`ApprovalWrite` to `Rule` and every other step to a stutter, using `IInv` before the step.

*Payments.* The invariants of the run speak of tables; none says what a request in the
middle of the handler knows. `RequestInv` does, one request at a time: `Charges` ties it
to the decision it read (its merchant's, with terms, not pending, worth the amount it
works with), `RowInv` and `OrderInv` tie its row and its order to it, and `RecordingInv`
says what the Razorpay call did while the answer is held in a local variable. With
`OneRowPerKey` and `Acknowledged` it is inductive: a step of one request leaves the others
alone (`HandlerStep`), a published or ruled decision keeps owner and terms and is never
pending again (`DecisionStep`), and a webhook moves a status only (`SettledKeepsRow`). In
`SpecImplementsBook` the row of a key is a CHOOSE; `OneRowPerKey` makes it the one row
there is, `PayRecord` is `Charge`, and everything else leaves the book as it was.

What `Payments` assumes of the other handlers are actions of its specification, so these
theorems hold for any negotiation and webhook side that does no more than that; that this
repository's sides do no more is `PaysInContext`, proved in `EconexProofs`.

*Webhooks.* The invariants of the run hold of committed rows; between its steps a handler
acts on what it saw earlier. `HandlerInv` says which of that stays true: it has answered
and stored nothing (so its audit row and its event are new); a status it saw came from a
row with an order at Razorpay, and such a row keeps its order whatever happens to its
status (`RowsStay`); and what a signed event reports of an attempt is what Razorpay did with it (`NewsIsTrue`), and
never takes back (`OutcomesStay`). That the status is *still* the one it saw is not among
them, and cannot be: `webhooks_race` refutes it. `WriteDoes` collects what the one writing
step amounts to, and the action property is read off it.

`SpecImplementsLife` calls an attempt *heard of* once a processed event about it is stored.
Two deliveries may hold the same news, both having found its dedupe key free; the UNIQUE
constraint rolls the second one's status update back with its row, and that is the
`p \notin heard` of `Hear`. The rest of `Hear`, that the status becomes what the attempt
became, on the row the attempt was made on, is `NewsOfEvent`; every other step leaves
status and news alone (`QuietStutters`).

*The whole.* `EconexProofs!EInv` is `Negotiation`'s `IInv`, the types of what payments and
webhooks write (`OthersTyped`), and what one component has to know of another:

- `ChargeInv`: a request past its checks, with an order or with a row charges for a
  decision of its own merchant, and that decision, if escalated, has an approval *on
  record*. The payment handler looks at the state only; that an escalated decision in a
  payable state has an approval behind it is `StateIsOnRecord` (`CheckedIsApproved`), and
  an approval never disappears (`ApprovalsStay`). So the gate needs no lock between
  the check and the charge.
- `DeliveryInv`: a delivery that is about to write, having seen a status, has the row with
  its order to write to, whichever of its competitors has moved the status since.
- `CapturedIsAudited`: a status says captured only together with the audit row of a
  delivery that is over. The rest of `CapturedIsTraceable` follows with `ChargeInv` and
  `IntentIsAtomic`.
- `ExpiryInv`: clock and expiry are in bounds, without which a step of the negotiation
  side is not one of the steps `Payments` expects of it.

With it each step of the service is, in the variables of `Payments`, a step of its own or
one of `OtherHandlers`: a commit publishes a decision where there was none
(`CommitPublishes`), a ruling moves a pending one (`WriteRules`), a webhook changes the
status of a row and nothing else of it (`HookWrites`). In the variables of `Webhooks` an
insert of the payment handler is `PaymentInserted`, and every lock taken or freed is
`LockMoves` (`OthersMoveLock`). In those of `Negotiation` the other two sides do
nothing; a crash that finds only payments or deliveries at work is a stutter, as the open
transaction belongs to an intent in flight (`CrashSeen`).

`ServiceProofs` uses that. It instantiates the proof modules of the other two components
over the service's variables, shows that the components' assumptions follow from the
service's (`InstancedRows`, `InstancedPaymentRows`, `InstancedComponents`) and that the
instances speak of the same handlers (`SamePayments`, `SameWebhooks`), and so has their
theorems, inductive invariants included, of the service (`PaymentsHold`, `WebhooksHold`,
and `NegotiationHolds` for the side that is extended).

*The sale.* No component's invariant is enough for `ServiceImplementsSale`; their
conjunction `SInv` is. Of the service's steps

- `IntentCommit` is `Freeze` if the negotiation has a decision (`CommitIsFreeze`), and
  `ApprovalWrite` is `Approve` if the verdict is to approve (`WriteApproves`);
- a call that makes an order is `Order`, whether the caller hears of it or not
  (`OrderIsOrder`), and `PayRecord` is `Book` (`RecordIsBook`). That the decision is
  cleared at that time is `ChargedIsCleared`: owner and amount come from `RequestInv`, the
  approval from `ChargeInv`, so it takes two components' invariants;
- `HookWrite` is `Settle` if it moves a status (`WriteIsSettle`), where `HandlerInv`
  supplies the attempt that became so; the buyer's steps are `Pay` and `Capture`;
- all others, crashes included, are stutters: a request keeps the decision it charges for
  from its check on (`SameDecisions`), so what an order is for never changes.

`CapturesAreOwed` is then a theorem about `Sale`, which is small enough for an invariant of
a few lines: deals are frozen, approvals and orders are never taken back, and a captured
attempt stays captured, so a row that was true to its deal when it was booked stays so
(`BookedStays`), and a status that says captured has its attempt.

*The pipeline.* `OfferPipelineProofs` has a lemma per stage, over any deal of whole
amounts: generation is injective and bounded (the grid by its turns, the ask by its own
clipping), the first violation is 0 exactly if all nine checks pass, and a feasible
candidate has a value. The optimizer is `min` over a key in the code and a CHOOSE of the
first in an order here, which needs a first to exist. `BestExists` finds it without an
induction: of the finitely many sets of candidates *ahead of* some candidate take one
that is least by inclusion (`WFMin` over the strict subsets of a finite set); if anybody
were in it, the set ahead of him would be smaller still. So it is empty, and its candidate
is the first, string order of ids included. `LeastNumber` is the same argument for numbers.

`EconexBeats` follows the money: a price the pipeline has a candidate for has one without
cashback (`PlainCandidate`: cashback is a second grid on top of the prices, and an ask
without it is clipped to one); it passes the nine checks if the baseline's sale does
(`PlainPasses`), and expects at least as much from it, because it may count the urgency
the baseline does not (`UrgencyHelps`, with `ChanceIsIncreasing`); and the winner is worth
no less (`WinnerIsBest`).

*The desk.* `MerchantDeskProofs!IInv` says that rows stay what they were written as:
`RowsOf` recomputes, from a message and the reply it was answered with, all that
`IntentPublished` writes, and a request is either unwritten or holds exactly that, up to
the state its authorizations moved its decision to (`OutcomeInv`, `AuthorizationInv`). The
properties are then statements about the pipeline (by its lemmas) or about what a ruling
may change. `DeskImplementsLedger` maps `IntentPublished` to `Publish` and `Rule` to
`Rule`.

Each `IInv` was checked with TLC on the instances of its run before it was proved.

*Only model-checked*: `EveryRequestEnds`, as liveness under fairness is beyond this
prover (it does not handle ENABLED).
Properties that need induction over data would stay with TLC too; there are none.

## 6. Where the code and its documents disagree

1. **A retry can make a second Razorpay order** (`payments_retry`). `docs/ARCHITECTURE.md:94-96`
   says "a retried request can never create two real orders". The key is looked up before
   the Razorpay call and inserted after it; two requests, or one retry after a timeout,
   both call. The UNIQUE constraint keeps the *table* to one row; the other order has none.
2. **A verdict can be overturned** (`negotiation_race`). `docs/SECURITY.md:159-161` says a
   second approve or deny fails. Two that read before either writes are both answered 200.
3. **A settled payment can change** (`webhooks_race`). `core/payment_state_machine.py:13-14`
   forbids CAPTURED -> FAILED and the reverse. Two deliveries that both read CREATED do it.
4. **A capture can be acknowledged and dropped** (`webhooks_dropped`). The dedupe key is the
   payment's id, shared by `payment.authorized` and `payment.captured`, and taken even by a
   delivery that failed its signature check.
5. **The approval eats the buyer's time** (`econex_expiry`). `docs/SECURITY.md:19-20` counts
   the 15 minutes from the authorization; `expires_at` is set when the decision is made.
6. **The budget is never drawn down** (`merchant_desk_budget`). `merchant_repo.py:107-108`
   says the accounting "reflects committed spend"; `increment_spend` has no caller, so the
   incentive budget bounds each offer and never their sum.

7. **ACCEPT without the delivery asked for** (`merchant_desk_accept`).
   `decision_resolver.py:18-19` says "price/cashback/delivery exactly match what the buyer
   asked for". The code compares the price, takes any cashback from the requested one up,
   and does not look at delivery. Candidates that differ in delivery alone are worth the
   same, and the first in the order of ids, standard, wins: in the hero scenario a buyer
   who pays 8,000 rupees and wants it tomorrow is told ACCEPT, with standard delivery.

Seen while modelling, without a run:

- `docs/SECURITY.md:114-118` says a malformed response of the provider is recorded as a
  failure and the pipeline goes on. A body that is not JSON, content blocks or a text that
  are not objects, an array for a strategy and a confidence too large for a float raise
  what `handle_buyer_intent` does not catch: 500, rolled back, nothing on record.
- `docs/SECURITY.md:118-120` calls the provider's answer advisory only, and
  `docs/ECONOMIC_MODEL.md:50` counts urgency if the *buyer* asked for it. A proposal's
  delivery preference replaces the buyer's flag and with it the urgency term of every
  candidate, so the price depends on the provider. (`agents/base_agent.py` does say that
  the signal is passed on.)
- A duplicate delivery with a bad signature is answered 200, not 401 (`docs/SECURITY.md:58`).
- A rejected state transition is raised and not audited, unlike `state_machine.py:63-65` says.
- Discount, cashback, budget and threshold are per unit while the contribution is per order.
- Candidate ids break ties as strings: C10 before C9.
- A quantity of zero or below is accepted; only `create_order` refuses the total.
- Idempotency is per key, not per decision: two keys charge one decision twice.
- `audit.py` has stages for authorizations and outcomes that nothing records, and its
  payment rows carry no session: a session's timeline ends with the decision, short of the
  "buyer request to Razorpay execution" its docstring aims at.
- Baseline C's docstring says it respects the margin floor; it clips to the cost only.
- After a ruling the decision is closed and the session still says PENDING_APPROVAL.
- `get_product` looks at the product's id and not at whose it is.
- Outcomes are accepted for any decision of the merchant, in any state, any number of times.
- Inventory and tomorrow's capacity are compared with each offer and never taken down.

## 7. What could follow

1. Isolation of merchants in the whole service as an action property: a step of one
   merchant's request leaves the decisions, verdicts and payments of the others alone.
2. A theorem that relates two deals, for instance that a larger incentive budget never
   leaves the merchant with an offer worth less.

## 8. Not modelled

| Part | Why |
|---|---|
| HTTP framing, routing, tokens | a request arrives authenticated; nothing here changes state |
| red-team suite (`redteam.py`) | seventeen scripted calls of functions modelled elsewhere, on constant inputs, each compared with its expected answer: no state and no choice to explore |
| money helpers (`core/money.py`) | no caller in the application; amounts are integers throughout |
| configuration, seed script | environment variables and demo rows; what they decide is `live` in `Payments` and `provider` in `MerchantDesk` |
| frontend | a static page that calls the API |
| prompts, rationales, diagnostic texts, the sentence in `message` | wording |
| `rank_all`, the dashboard's echo of the policy, the order of rows in views | display only |
| `resolve_round_limit_or_buyer_rejection`, `resolve_merchant_denial`, `is_terminal_payment_state`, `merchant_view_offer` | no caller |
| later rounds of a session | `handle_buyer_intent` opens a session per message; the pipeline's rules for later rounds are checked and proved as rules (`CandidatesAreBounded`) |
| the benchmark's random draws, sums over runs and report | what is compared in each draw is modelled, the averaging is not |
| float rounding in the sigmoid and the score | exact over a common denominator |
