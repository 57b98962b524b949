------------------------------ MODULE ServiceProofs ------------------------------
(***************************************************************************)
(* The service implements Sale, for any merchants, requests, deliveries,   *)
(* attempts, terms and time.                                               *)
(*                                                                         *)
(* EconexProofs shows that the service behaves as Payments and as          *)
(* Webhooks; so their inductive invariants, and all they promise, hold of  *)
(* it too.  That is what the refinement needs: a request works for the     *)
(* amount its decision froze, an order is its request's, a delivery about  *)
(* to settle a payment brings true news.  With EInv, every step of the     *)
(* service is then one step of Sale, or none.                              *)
(***************************************************************************)
EXTENDS EconexProofs

PayProofs == INSTANCE PaymentsProofs
HookProofs == INSTANCE WebhooksProofs

--------------------------------------------------------------------------------
(* What is proved of Payments and of Webhooks can be used: their assumptions hold, *)
(* and the proofs are about the handlers of the service.                           *)

\* The assumptions of the decisions table, about the instances of its rows.
LEMMA InstancedRows == PayProofs!RowAssumption /\ HookProofs!RowAssumption
BY RowAssumption
   DEF RowAssumption, PayProofs!RowAssumption, HookProofs!RowAssumption, DecisionRow,
       PayProofs!DecisionRow, HookProofs!DecisionRow, NegotiationState,
       PayProofs!NegotiationState, HookProofs!NegotiationState, FrozenDeal,
       PayProofs!FrozenDeal, HookProofs!FrozenDeal

\* Those of the payments table.
LEMMA InstancedPaymentRows ==
  PayProofs!PaymentRowAssumption /\ HookProofs!PaymentRowAssumption
BY PaymentRowAssumption
   DEF PaymentRow, PayProofs!PaymentRow, HookProofs!PaymentRow, BookedCharge,
       PayProofs!BookedCharge, HookProofs!BookedCharge, PaymentStatus,
       PayProofs!PaymentStatus, HookProofs!PaymentStatus, InitialPaymentStatus,
       PayProofs!InitialPaymentStatus, HookProofs!InitialPaymentStatus,
       PayProofs!PaymentRowAssumption, HookProofs!PaymentRowAssumption

\* Those of Payments and of Webhooks follow from those of the service.
LEMMA InstancedComponents ==
  PayProofs!PaymentsAssumption /\ HookProofs!WebhookAssumption
<1>1. NoRow \notin PayProofs!OrderRow
  BY EconexAssumption DEF Paying!OrderRow, PayProofs!OrderRow
<1>2. PayProofs!PaymentsAssumption
  BY <1>1, NegotiationAssumption, EconexAssumption
     DEF PayProofs!PaymentsAssumption, PayProofs!Amount, Paying!Amount
<1>3. NoRow \notin HookProofs!EventRow /\ NoRow \notin HookProofs!AuditRow
  BY EconexAssumption DEF Reporting!EventRow, HookProofs!EventRow, Reporting!Event,
                          HookProofs!Event, Reporting!AuditRow, HookProofs!AuditRow
<1>4. HookProofs!WebhookAssumption
  BY <1>3, EconexAssumption DEF HookProofs!WebhookAssumption
<1>5. QED
  BY <1>2, <1>4

\* The proofs about Payments speak of the payment handlers of the service.
LEMMA SamePayments == PayProofs!Spec <=> Paying!Spec
BY DEF PayProofs!Spec, Paying!Spec, PayProofs!vars, Paying!vars, PayProofs!Init,
       Paying!Init, PayProofs!Next, Paying!Next, PayProofs!PayArrive,
       Paying!PayArrive, PayProofs!PayStep, Paying!PayStep, PayProofs!Crash,
       Paying!Crash, PayProofs!Tick, Paying!Tick, PayProofs!OtherHandlers,
       Paying!OtherHandlers, PayProofs!PayCheck, Paying!PayCheck,
       PayProofs!PayRefuse, Paying!PayRefuse, PayProofs!PayDuplicate,
       Paying!PayDuplicate, PayProofs!PayFresh, Paying!PayFresh,
       PayProofs!PayNothingToCharge, Paying!PayNothingToCharge,
       PayProofs!PaySimulated, Paying!PaySimulated, PayProofs!PayOrderCreated,
       Paying!PayOrderCreated, PayProofs!PayOrderFailed, Paying!PayOrderFailed,
       PayProofs!PayOrderRaises, Paying!PayOrderRaises, PayProofs!PayRecord,
       Paying!PayRecord, PayProofs!PayClash, Paying!PayClash, PayProofs!PayBusy,
       Paying!PayBusy, PayProofs!PaysLost, Paying!PaysLost, PayProofs!ownTables,
       Paying!ownTables, PayProofs!DecisionPublished, Paying!DecisionPublished,
       PayProofs!DecisionRuled, Paying!DecisionRuled, PayProofs!LockMoves,
       Paying!LockMoves, PayProofs!PaymentSettled, Paying!PaymentSettled,
       PayProofs!CheckCode, Paying!CheckCode, PayProofs!ChargedAmount,
       Paying!ChargedAmount, PayProofs!environment, Paying!environment,
       PayProofs!KeyTaken, Paying!KeyTaken, PayProofs!PayAnswer,
       Paying!PayAnswer, PayProofs!PayOrdered, Paying!PayOrdered,
       PayProofs!OrderMade, Paying!OrderMade, PayProofs!NewPayment,
       Paying!NewPayment, PayProofs!ActivePays, Paying!ActivePays,
       PayProofs!NegotiationState, Paying!NegotiationState, PayProofs!LegalRow,
       Paying!LegalRow, PayProofs!Verdict, Paying!Verdict, PayProofs!ClosedBy,
       Paying!ClosedBy, PayProofs!ScopedRow, Paying!ScopedRow,
       PayProofs!Payable, Paying!Payable, PayProofs!Amount, Paying!Amount,
       PayProofs!OrderId, Paying!OrderId, PayProofs!ActivePcs, Paying!ActivePcs,
       PayProofs!DecisionRow, Paying!DecisionRow

\* The proofs about Webhooks speak of the webhook handlers of the service.
LEMMA SameWebhooks == HookProofs!Spec <=> Reporting!Spec
BY DEF HookProofs!Spec, Reporting!Spec, HookProofs!vars, Reporting!vars,
       HookProofs!Init, Reporting!Init, HookProofs!HookInit, Reporting!HookInit,
       HookProofs!NoHook, Reporting!NoHook, HookProofs!Next, Reporting!Next,
       HookProofs!HookArrive, Reporting!HookArrive, HookProofs!HookStep,
       Reporting!HookStep, HookProofs!AttemptMade, Reporting!AttemptMade,
       HookProofs!AttemptCaptured, Reporting!AttemptCaptured,
       HookProofs!PaymentInserted, Reporting!PaymentInserted, HookProofs!Crash,
       Reporting!Crash, HookProofs!LockMoves, Reporting!LockMoves,
       HookProofs!Deliverable, Reporting!Deliverable, HookProofs!tables,
       Reporting!tables, HookProofs!HookDuplicate, Reporting!HookDuplicate,
       HookProofs!HookFresh, Reporting!HookFresh, HookProofs!HookRead,
       Reporting!HookRead, HookProofs!HookWrite, Reporting!HookWrite,
       HookProofs!HookClash, Reporting!HookClash, HookProofs!HookBusy,
       Reporting!HookBusy, HookProofs!Paid, Reporting!Paid,
       HookProofs!PaymentRow, Reporting!PaymentRow,
       HookProofs!InitialPaymentStatus, Reporting!InitialPaymentStatus,
       HookProofs!HooksLost, Reporting!HooksLost, HookProofs!Event,
       Reporting!Event, HookProofs!Happened, Reporting!Happened,
       HookProofs!Recorded, Reporting!Recorded, HookProofs!DedupeKey,
       Reporting!DedupeKey, HookProofs!HookAnswer, Reporting!HookAnswer,
       HookProofs!TargetOf, Reporting!TargetOf, HookProofs!StatusOf,
       Reporting!StatusOf, HookProofs!Insertable, Reporting!Insertable,
       HookProofs!Processed, Reporting!Processed, HookProofs!Transitions,
       Reporting!Transitions, HookProofs!PaymentStatus, Reporting!PaymentStatus,
       HookProofs!ActiveHooks, Reporting!ActiveHooks,
       HookProofs!AllowedPaymentTransitions,
       Reporting!AllowedPaymentTransitions, HookProofs!HookPcs,
       Reporting!HookPcs

\* The write of a delivery, in particular.
LEMMA SameHookWrite ==
  ASSUME NEW h \in HookReqs
  PROVE  HookProofs!HookWrite(h) <=> Reporting!HookWrite(h)
BY DEF HookProofs!HookWrite, Reporting!HookWrite, HookProofs!TargetOf,
       Reporting!TargetOf, HookProofs!Insertable, Reporting!Insertable,
       HookProofs!Processed, Reporting!Processed, HookProofs!Transitions,
       Reporting!Transitions, HookProofs!HookAnswer, Reporting!HookAnswer,
       HookProofs!Recorded, Reporting!Recorded, HookProofs!DedupeKey,
       Reporting!DedupeKey, HookProofs!AllowedPaymentTransitions,
       Reporting!AllowedPaymentTransitions

\* What a payment handler knows, it knows whatever the rest of the service does.
LEMMA ServicePays == ServiceSpec => []PayProofs!IInv
<1>1. PayProofs!Spec => []PayProofs!IInv
  BY PayProofs!SpecIInv, InstancedRows, InstancedPaymentRows, InstancedComponents
<1>2. ServiceSpec => PayProofs!Spec
  BY PaysThere, SamePayments DEF PaysInContext
<1>3. QED
  BY <1>1, <1>2

\* So does a webhook handler.
LEMMA ServiceReports == ServiceSpec => []HookProofs!IInv
<1>1. HookProofs!Spec => []HookProofs!IInv
  BY HookProofs!SpecIInv, InstancedRows, InstancedPaymentRows, InstancedComponents
<1>2. ServiceSpec => HookProofs!Spec
  BY ReportsThere, SameWebhooks DEF ReportsInContext
<1>3. QED
  BY <1>1, <1>2

--------------------------------------------------------------------------------
(* What each component promises, the service keeps. *)

\* In the service too, an intent is all or nothing, the lock is owned, every decision's
\* state is on record, verdicts are the owner's, history stays, and the tables follow
\* the abstract ledger.
THEOREM NegotiationHolds == ServiceSpec => []Inv /\ HistoryIsKept /\ ImplementsLedger
<1>1. IInv => Inv
  BY DEF IInv
<1>2. QED
  BY <1>1, NegotiatesThere, SpecIInv, HistoryKept, SpecImplementsLedger, PTL
     DEF NegotiatesInContext

\* In the service too, a key has one row and its charge is booked once, for the server's
\* amount, on a payable decision, acknowledged only when stored, and true of Razorpay.
THEOREM PaymentsHold ==
  ServiceSpec => /\ [](/\ Paying!OneRowPerKey
                       /\ Paying!ServerDerivedAmount
                       /\ Paying!OnlyPayableIsCharged
                       /\ Paying!AcknowledgedIsRecorded
                       /\ Paying!RowMatchesRazorpay)
                 /\ Paying!ImplementsBook
<1> USE InstancedRows, InstancedPaymentRows, InstancedComponents
<1>1. PayProofs!Spec => []PayProofs!OneRowPerKey
  BY PayProofs!KeysAreUnique
<1>2. PayProofs!Spec => []PayProofs!ServerDerivedAmount
  BY PayProofs!AmountsAreTheServers
<1>3. PayProofs!Spec => []PayProofs!OnlyPayableIsCharged
  BY PayProofs!PayableIsCharged
<1>4. PayProofs!Spec => []PayProofs!AcknowledgedIsRecorded
  BY PayProofs!AcknowledgementsAreDurable
<1>5. PayProofs!Spec => []PayProofs!RowMatchesRazorpay
  BY PayProofs!RowsAreTrue
<1>6. PayProofs!Spec => PayProofs!ImplementsBook
  BY PayProofs!SpecImplementsBook
<1>7. PayProofs!OneRowPerKey <=> Paying!OneRowPerKey
  BY DEF PayProofs!OneRowPerKey, Paying!OneRowPerKey
<1>8. PayProofs!ServerDerivedAmount <=> Paying!ServerDerivedAmount
  BY DEF PayProofs!ServerDerivedAmount, Paying!ServerDerivedAmount, PayProofs!Amount,
         Paying!Amount, PayProofs!ScopedRow, Paying!ScopedRow
<1>9. PayProofs!OnlyPayableIsCharged <=> Paying!OnlyPayableIsCharged
  BY DEF PayProofs!OnlyPayableIsCharged, Paying!OnlyPayableIsCharged,
         PayProofs!ActivePcs, Paying!ActivePcs
<1>10. PayProofs!AcknowledgedIsRecorded <=> Paying!AcknowledgedIsRecorded
  BY DEF PayProofs!AcknowledgedIsRecorded, Paying!AcknowledgedIsRecorded,
         PayProofs!KeyTaken, Paying!KeyTaken
<1>11. PayProofs!RowMatchesRazorpay <=> Paying!RowMatchesRazorpay
  BY DEF PayProofs!RowMatchesRazorpay, Paying!RowMatchesRazorpay
<1>12. PayProofs!ImplementsBook <=> Paying!ImplementsBook
  BY DEF PayProofs!ImplementsBook, Paying!ImplementsBook, PayProofs!Book!BookSpec,
         Paying!Book!BookSpec, PayProofs!Book!BookInit, Paying!Book!BookInit,
         PayProofs!Book!BookNext, Paying!Book!BookNext, PayProofs!Book!Charge,
         Paying!Book!Charge, PayProofs!Booked, Paying!Booked, PayProofs!KeyTaken,
         Paying!KeyTaken, PayProofs!RowOf, Paying!RowOf
<1>13. ServiceSpec => PayProofs!Spec
  BY PaysThere, SamePayments DEF PaysInContext
<1>14. QED
  BY <1>1, <1>2, <1>3, <1>4, <1>5, <1>6, <1>7, <1>8, <1>9, <1>10, <1>11, <1>12, <1>13,
     PTL

\* In the service too, an event is stored once, what is marked captured was paid, events
\* and audit trail agree, a status moves on record, and payments live as PaymentLife says.
THEOREM WebhooksHold ==
  ServiceSpec => /\ [](/\ Reporting!OneRowPerDedupeKey
                       /\ Reporting!CapturedWasPaid
                       /\ Reporting!ProcessedIsAudited)
                 /\ Reporting!StatusMovesOnRecord
                 /\ Reporting!ImplementsLife
<1> USE InstancedRows, InstancedPaymentRows, InstancedComponents
<1>1. HookProofs!Spec => []HookProofs!OneRowPerDedupeKey
  BY HookProofs!OneRowPerDedupeKeyHolds
<1>2. HookProofs!Spec => []HookProofs!CapturedWasPaid
  BY HookProofs!CapturedWasPaidHolds
<1>3. HookProofs!Spec => []HookProofs!ProcessedIsAudited
  BY HookProofs!ProcessedIsAuditedHolds
<1>4. HookProofs!Spec => HookProofs!StatusMovesOnRecord
  BY HookProofs!StatusMovesOnRecordHolds
<1>5. HookProofs!Spec => HookProofs!ImplementsLife
  BY HookProofs!SpecImplementsLife
<1>6. HookProofs!OneRowPerDedupeKey <=> Reporting!OneRowPerDedupeKey
  BY DEF HookProofs!OneRowPerDedupeKey, Reporting!OneRowPerDedupeKey,
         HookProofs!DedupeKey, Reporting!DedupeKey
<1>7. HookProofs!CapturedWasPaid <=> Reporting!CapturedWasPaid
  BY DEF HookProofs!CapturedWasPaid, Reporting!CapturedWasPaid
<1>8. HookProofs!ProcessedIsAudited <=> Reporting!ProcessedIsAudited
  BY DEF HookProofs!ProcessedIsAudited, Reporting!ProcessedIsAudited,
         HookProofs!TargetOf, Reporting!TargetOf
<1>9. HookProofs!StatusMovesOnRecord <=> Reporting!StatusMovesOnRecord
  BY DEF HookProofs!StatusMovesOnRecord, Reporting!StatusMovesOnRecord,
         HookProofs!vars, Reporting!vars, HookProofs!tables, Reporting!tables
<1>10. HookProofs!ImplementsLife <=> Reporting!ImplementsLife
  BY DEF HookProofs!ImplementsLife, Reporting!ImplementsLife,
         HookProofs!Life!LifeSpec, Reporting!Life!LifeSpec,
         HookProofs!Life!LifeInit, Reporting!Life!LifeInit,
         HookProofs!Life!LifeNext, Reporting!Life!LifeNext,
         HookProofs!Life!lifeVars, Reporting!Life!lifeVars,
         HookProofs!Life!Book, Reporting!Life!Book,
         HookProofs!Life!Hear, Reporting!Life!Hear,
         HookProofs!Life!PaymentRow, Reporting!Life!PaymentRow,
         HookProofs!Life!PaymentStatus, Reporting!Life!PaymentStatus,
         HookProofs!Life!InitialPaymentStatus, Reporting!Life!InitialPaymentStatus,
         HookProofs!HeardOf, Reporting!HeardOf
<1>11. ServiceSpec => HookProofs!Spec
  BY ReportsThere, SameWebhooks DEF ReportsInContext
<1>12. QED
  BY <1>1, <1>2, <1>3, <1>4, <1>5, <1>6, <1>7, <1>8, <1>9, <1>10, <1>11, PTL

--------------------------------------------------------------------------------
(* The parts of Sale's state. *)

\* Without a commit or a verdict, what is frozen stays as it is.
LEMMA FrozenStays ==
  ASSUME UNCHANGED decisions
  PROVE  UNCHANGED [d \in IntentReqs |-> Frozen(d)]
BY DEF Frozen

LEMMA ApprovedStay ==
  ASSUME UNCHANGED authorizations
  PROVE  UNCHANGED {d \in IntentReqs : Approved(d)}
BY DEF Approved

\* No request is given another decision once it has an order.
LEMMA OrderedStay ==
  ASSUME UNCHANGED orders,
         \A r \in PayReqs : orders[r] # NoRow => payReq'[r].decision = payReq[r].decision
  PROVE  UNCHANGED [r \in PayReqs |-> Ordered(r)]
BY DEF Ordered

\* A step that leaves all of that alone is none of Sale's.
LEMMA Unsold ==
  ASSUME UNCHANGED <<decisions, authorizations, orders, payments, attempts>>,
         \A r \in PayReqs : orders[r] # NoRow => payReq'[r].decision = payReq[r].decision
  PROVE  UNCHANGED Selling!saleVars
BY FrozenStays, ApprovedStay, OrderedStay DEF Selling!saleVars

\* What a row froze is a deal, and a gated one was offered for.
LEMMA FrozenRow ==
  ASSUME TypeOK, NEW d \in IntentReqs, decisions[d] # NoRow
  PROVE  /\ Frozen(d) = [merchant |-> decisions[d].merchant,
                         terms |-> decisions[d].terms,
                         gated |-> decisions[d].requiresApproval]
         /\ Frozen(d) \in Selling!FrozenDeal
BY DEF TypeOK, DecisionRow, Frozen, Selling!FrozenDeal

--------------------------------------------------------------------------------
(* The steps that sell. *)

\* A commit freezes what the decision offers.
LEMMA CommitIsFreeze ==
  ASSUME EInv, EInv', NEW i \in IntentReqs, IntentCommit(i), Alone
  PROVE  Selling!Freeze(i)
<1>1. /\ decisions[i] = NoRow
      /\ decisions'[i] # NoRow
      /\ decisions' = [decisions EXCEPT ![i] = decisions'[i]]
      /\ LegalRow(decisions'[i])
      /\ UNCHANGED authorizations
  BY Published DEF EInv, Ledger!Publish, Ledger!LegalRow, LegalRow, Ledger!DecisionRow,
                   DecisionRow, Ledger!NegotiationState, NegotiationState
<1>2. /\ Frozen(i)' = [merchant |-> decisions'[i].merchant,
                       terms |-> decisions'[i].terms,
                       gated |-> decisions'[i].requiresApproval]
      /\ Frozen(i)' \in Selling!FrozenDeal
  BY <1>1 DEF Frozen, LegalRow, DecisionRow, Selling!FrozenDeal
<1>3. Frozen(i) = NoRow
  BY <1>1 DEF Frozen
<1>4. Frozen(i)'.gated => Frozen(i)'.terms # NoTerms
  BY <1>1, <1>2 DEF LegalRow
<1>5. ASSUME NEW d \in IntentReqs, d # i PROVE Frozen(d)' = Frozen(d)
  BY <1>1, <1>5 DEF Frozen, EInv, IInv, TypeOK
<1>6. [d \in IntentReqs |-> Frozen(d)]'
        = [[d \in IntentReqs |-> Frozen(d)] EXCEPT ![i] = Frozen(i)']
  BY <1>5
<1>7. UNCHANGED <<orders, payments, attempts, payReq>>
  BY DEF Alone, paymentVars, webhookVars
<1>8. UNCHANGED <<{d \in IntentReqs : Approved(d)}, [r \in PayReqs |-> Ordered(r)]>>
  BY <1>1, <1>7, ApprovedStay, OrderedStay
<1>9. QED
  BY <1>2, <1>3, <1>4, <1>6, <1>7, <1>8 DEF Selling!Freeze

\* A verdict approves its decision, or is none of Sale's business.
LEMMA WriteApproves ==
  ASSUME EInv, NEW a \in ApprovalReqs, ApprovalWrite(a), Alone
  PROVE  \/ \E d \in IntentReqs : Selling!Approve(d)
         \/ UNCHANGED Selling!saleVars
<1> DEFINE d == approvalReq[a].decision
           verdict == approvalReq[a].verdict
           approved == {e \in IntentReqs : Approved(e)}
           row == [decision |-> d, merchant |-> decisions[d].merchant,
                   previous |-> "PENDING_APPROVAL", new |-> verdict, at |-> now]
<1>1. /\ d \in IntentReqs
      /\ verdict \in Verdict
      /\ decisions[d] # NoRow
      /\ decisions[d].requiresApproval
      /\ authorizations[a] = NoRow
      /\ decisions' = [decisions EXCEPT ![d].state = ClosedBy(verdict)]
      /\ authorizations' = [authorizations EXCEPT ![a] = row]
  BY Ruled DEF EInv, Ledger!Rule, Ledger!ClosedBy, ClosedBy
<1>2. TypeOK
  BY DEF EInv, IInv
<1>3. ASSUME NEW e \in IntentReqs PROVE Frozen(e)' = Frozen(e)
  <2>1. CASE e # d
    BY <1>1, <1>2, <2>1 DEF TypeOK, Frozen
  <2>2. CASE e = d
    <3>1. decisions[d] \in DecisionRow
      BY <1>1, <1>2 DEF TypeOK
    <3>2. ClosedBy(verdict) \in NegotiationState
      BY <1>1 DEF ClosedBy, NegotiationState
    <3>3. decisions'[d] = [decisions[d] EXCEPT !.state = ClosedBy(verdict)]
      BY <1>1, <1>2 DEF TypeOK
    <3>4. /\ decisions'[d] \in DecisionRow
          /\ decisions'[d].merchant = decisions[d].merchant
          /\ decisions'[d].terms = decisions[d].terms
          /\ decisions'[d].requiresApproval = decisions[d].requiresApproval
      BY <3>1, <3>2, <3>3 DEF DecisionRow
    <3>5. decisions'[d] # NoRow
      BY <3>4, RowAssumption
    <3> HIDE DEF d
    <3>6. QED
      BY <1>1, <2>2, <3>4, <3>5 DEF Frozen
  <2>3. QED
    BY <2>1, <2>2
<1>4. UNCHANGED [e \in IntentReqs |-> Frozen(e)]
  BY <1>3
<1>5. /\ authorizations'[a] = row
      /\ \A b \in ApprovalReqs \ {a} : authorizations'[b] = authorizations[b]
      /\ row # NoRow
  <2>1. /\ authorizations'[a] = row
        /\ \A b \in ApprovalReqs \ {a} : authorizations'[b] = authorizations[b]
    BY <1>1, <1>2 DEF TypeOK
  <2>2. row \in AuthorizationRow
    BY <1>1, <1>2 DEF AuthorizationRow, TypeOK, DecisionRow, NegotiationState
  <2>3. QED
    BY <2>1, <2>2, NegotiationAssumption
<1>6. ASSUME NEW e \in IntentReqs
      PROVE  Approved(e)' <=> Approved(e) \/ (e = d /\ verdict = "APPROVED")
  <2>1. row.decision = d /\ row.new = verdict
    OBVIOUS
  <2> HIDE DEF row
  <2>2. Approved(e)' <=> \E b \in ApprovalReqs : /\ authorizations'[b] # NoRow
                                                 /\ authorizations'[b].decision = e
                                                 /\ authorizations'[b].new = "APPROVED"
    BY DEF Approved
  <2>3. Approved(e) <=> \E b \in ApprovalReqs \ {a} :
                          /\ authorizations[b] # NoRow
                          /\ authorizations[b].decision = e
                          /\ authorizations[b].new = "APPROVED"
    BY <1>1 DEF Approved
  <2>4. QED
    BY <1>5, <2>1, <2>2, <2>3
<1>7. approved' = {e \in IntentReqs : Approved(e)'}
  OBVIOUS
<1>8. UNCHANGED <<orders, payments, attempts, payReq>>
  BY DEF Alone, paymentVars, webhookVars
<1>9. UNCHANGED [r \in PayReqs |-> Ordered(r)]
  BY <1>8, OrderedStay
<1>10. CASE verdict = "APPROVED"
  <2>1. approved' = approved \union {d}
    <3> HIDE DEF d, verdict
    <3>1. QED
      BY <1>1, <1>6, <1>7, <1>10
  <2>2. Frozen(d) \in Selling!FrozenDeal /\ Frozen(d).gated
    BY <1>1, <1>2, FrozenRow
  <2>3. Selling!Approve(d)
    BY <1>1, <1>4, <1>8, <1>9, <2>1, <2>2 DEF Selling!Approve
  <2>4. QED
    BY <1>1, <2>3
<1>11. CASE verdict # "APPROVED"
  <2>1. approved' = approved
    BY <1>6, <1>7, <1>11
  <2>2. QED
    BY <1>4, <1>8, <1>9, <2>1 DEF Selling!saleVars
<1>12. QED
  BY <1>10, <1>11

\* What holds of the service whenever a step of it is taken.
SInv == EInv /\ PayProofs!IInv /\ HookProofs!IInv

\* A request keeps the decision it charges for.
LEMMA SameDecisions ==
  ASSUME EInv, NEW r \in PayReqs, ServePay(r)
  PROVE  \A q \in PayReqs : payReq'[q].decision = payReq[q].decision
<1>1. payReq \in [PayReqs -> Paying!PayState]
  BY DEF EInv, OthersTyped
<1>2. ASSUME NEW code \in {200, 500}, NEW dup \in BOOLEAN, Paying!PayAnswer(r, code, dup)
      PROVE  \A q \in PayReqs : payReq'[q].decision = payReq[q].decision
  BY <1>2, PayAnswered DEF EInv, PayMoved, SameRequest
<1>3. CASE Paying!PayFresh(r)
  BY <1>1, <1>3 DEF Paying!PayFresh, Paying!PayState
<1>4. ASSUME NEW status, Paying!PayOrdered(r, status)
      PROVE  \A q \in PayReqs : payReq'[q].decision = payReq[q].decision
  BY <1>1, <1>4 DEF Paying!PayOrdered, Paying!PayState
<1>5. CASE \/ Paying!PaySimulated(r) \/ Paying!PayOrderCreated(r)
           \/ Paying!PayOrderFailed(r)
  BY <1>4, <1>5
     DEF Paying!PaySimulated, Paying!PayOrderCreated, Paying!PayOrderFailed
<1>6. CASE \/ Paying!PayDuplicate(r) \/ Paying!PayNothingToCharge(r)
           \/ Paying!PayOrderRaises(r) \/ Paying!PayClash(r) \/ Paying!PayBusy(r)
           \/ Paying!PayRecord(r)
  BY <1>2, <1>6, EndsInAnswer
<1>7. QED
  BY <1>3, <1>5, <1>6 DEF ServePay, Paying!PayStep

\* A request at work on a positive amount charges for a cleared deal of its merchant,
\* and for what that deal comes to.
LEMMA ChargedIsCleared ==
  ASSUME SInv, NEW r \in PayReqs, payReq[r].pc \in Paying!ActivePcs, payReq[r].amount > 0
  PROVE  LET d == payReq[r].decision
         IN  /\ d \in IntentReqs
             /\ Selling!Cleared(d)
             /\ Selling!OrderFor(d) = [decision |-> d, amount |-> payReq[r].amount]
             /\ Frozen(d).merchant = payReq[r].merchant
<1> DEFINE d == payReq[r].decision
<1>1. /\ d \in IntentReqs
      /\ decisions[d] # NoRow
      /\ decisions[d].merchant = payReq[r].merchant
      /\ decisions[d].requiresApproval => Approved(d)
  BY DEF SInv, EInv, ChargeInv, Chargeable, ScopedRow
<1>2. PayProofs!Charges(r)
  BY DEF SInv, PayProofs!IInv, PayProofs!RequestInv, PayProofs!ActivePcs, Paying!ActivePcs
<1>3. /\ decisions[d].terms # NoTerms
      /\ payReq[r].amount = decisions[d].terms.price * decisions[d].terms.quantity
  BY <1>2 DEF PayProofs!Charges, PayProofs!Amount
<1>4. /\ Frozen(d) = [merchant |-> decisions[d].merchant, terms |-> decisions[d].terms,
                      gated |-> decisions[d].requiresApproval]
      /\ Frozen(d) \in Selling!FrozenDeal
  BY <1>1, FrozenRow DEF SInv, EInv, IInv
<1>5. /\ Frozen(d).merchant = decisions[d].merchant
      /\ Frozen(d).terms = decisions[d].terms
      /\ Frozen(d).gated = decisions[d].requiresApproval
  BY <1>4
<1> HIDE DEF d
<1>6. Selling!Cleared(d)
  BY <1>1, <1>3, <1>4, <1>5 DEF Selling!Cleared
<1>7. Selling!OrderFor(d) = [decision |-> d, amount |-> payReq[r].amount]
  BY <1>1, <1>3, <1>5 DEF Selling!OrderFor
<1>8. QED
  BY <1>1, <1>5, <1>6, <1>7 DEF d

\* A call that makes an order, whatever the service hears of it, is Order.
LEMMA OrderIsOrder ==
  ASSUME SInv, NEW r \in PayReqs, ServePay(r), payReq[r].pc = "ordering",
         payReq[r].amount > 0, Paying!OrderMade(r), UNCHANGED payments
  PROVE  Selling!Order(r)
<1> DEFINE d == payReq[r].decision
           made == [amount |-> payReq[r].amount, receipt |-> payReq[r].key]
<1>1. /\ d \in IntentReqs
      /\ Selling!Cleared(d)
      /\ Selling!OrderFor(d) = [decision |-> d, amount |-> payReq[r].amount]
  BY ChargedIsCleared DEF Paying!ActivePcs
<1>2. payments[r] = NoRow /\ orders[r] = NoRow
  BY DEF SInv, PayProofs!IInv, PayProofs!RequestInv, PayProofs!OrderInv, PayProofs!RowInv
<1>3. orders' = [orders EXCEPT ![r] = made] /\ made # NoRow
  <2>1. Chargeable(r)
    BY DEF SInv, EInv, ChargeInv, Paying!ActivePcs
  <2>2. made \in Paying!OrderRow
    BY <2>1 DEF Chargeable, Paying!OrderRow
  <2>3. QED
    BY <2>2, EconexAssumption DEF Paying!OrderMade
<1>4. \A q \in PayReqs : payReq'[q].decision = payReq[q].decision
  BY SameDecisions DEF SInv
<1>5. orders'[r] = made /\ \A q \in PayReqs \ {r} : orders'[q] = orders[q]
  BY <1>3 DEF SInv, EInv, OthersTyped
<1>6. Ordered(r)' = [decision |-> d, amount |-> payReq[r].amount]
  BY <1>3, <1>4, <1>5 DEF Ordered
<1>7. ASSUME NEW q \in PayReqs, q # r PROVE Ordered(q)' = Ordered(q)
  BY <1>4, <1>5, <1>7 DEF Ordered
<1>8. [q \in PayReqs |-> Ordered(q)]'
        = [[q \in PayReqs |-> Ordered(q)] EXCEPT ![r] = Selling!OrderFor(d)]
  BY <1>1, <1>6, <1>7
<1>9. UNCHANGED <<decisions, authorizations, attempts>>
  BY PayLeaves DEF ServePay, negotiationVars, webhookVars
<1>10. Ordered(r) = NoRow
  BY <1>2 DEF Ordered
<1> HIDE DEF d
<1>11. QED
  BY <1>1, <1>2, <1>8, <1>9, <1>10, FrozenStays, ApprovedStay DEF Selling!Order

\* The insert of a payment is Book.
LEMMA RecordIsBook ==
  ASSUME SInv, NEW r \in PayReqs, ServePay(r), Paying!PayRecord(r)
  PROVE  Selling!Book(r)
<1> DEFINE d == payReq[r].decision
           row == Paying!NewPayment(r)
<1>1. /\ payReq[r].pc = "recording"
      /\ payments' = [payments EXCEPT ![r] = row]
      /\ UNCHANGED orders
  BY DEF Paying!PayRecord
<1>2. /\ payReq[r].amount > 0
      /\ payReq[r].status = "created" => orders[r] # NoRow
      /\ payReq[r].status = "simulated" => orders[r] = NoRow
      /\ payments[r] = NoRow
      /\ orders[r] # NoRow => orders[r].amount = payReq[r].amount
  <2>1. /\ PayProofs!OrderInv(r)
        /\ PayProofs!RowInv(r)
        /\ PayProofs!RecordingInv(r)
    BY DEF SInv, PayProofs!IInv, PayProofs!RequestInv
  <2>2. payments[r] = NoRow
    BY <1>1, <2>1 DEF PayProofs!RowInv
  <2>3. orders[r] # NoRow => orders[r].amount = payReq[r].amount
    BY <2>1 DEF PayProofs!OrderInv
  <2>4. QED
    BY <1>1, <2>1, <2>2, <2>3 DEF PayProofs!RecordingInv
<1>3. /\ d \in IntentReqs
      /\ Selling!Cleared(d)
      /\ Selling!OrderFor(d) = [decision |-> d, amount |-> payReq[r].amount]
      /\ Frozen(d).merchant = payReq[r].merchant
  BY <1>1, <1>2, ChargedIsCleared DEF Paying!ActivePcs
<1>4. /\ row \in PaymentRow
      /\ row.decision = d
      /\ row.merchant = payReq[r].merchant
      /\ row.status \in InitialPaymentStatus
      /\ row.status = "created" <=> row.order = r
  BY <1>1, NewRow DEF SInv
<1>5. row.status = payReq[r].status /\ row.amount = payReq[r].amount
  BY DEF Paying!NewPayment
<1>6. Ordered(r) = IF orders[r] = NoRow THEN NoRow
                   ELSE [decision |-> d, amount |-> orders[r].amount]
  BY DEF Ordered
<1> HIDE DEF row, d
<1>7. payments'[r] = row /\ payments' = [payments EXCEPT ![r] = payments'[r]]
  BY <1>1 DEF SInv, EInv, OthersTyped
<1>8. /\ row.status = "created" => Ordered(r) = Selling!OrderFor(d)
      /\ row.status = "simulated" => Ordered(r) = NoRow
  BY <1>2, <1>3, <1>5, <1>6
<1>9. Selling!PaymentRow = PaymentRow /\ Selling!InitialPaymentStatus = InitialPaymentStatus
  BY DEF Selling!PaymentRow, PaymentRow, Selling!PaymentStatus, PaymentStatus,
         Selling!InitialPaymentStatus, InitialPaymentStatus
<1>10. Selling!OrderFor(d).amount = payReq[r].amount
  BY <1>3
<1>11. UNCHANGED <<decisions, authorizations, attempts>>
  BY PayLeaves DEF ServePay, negotiationVars, webhookVars
<1>12. \A q \in PayReqs : payReq'[q].decision = payReq[q].decision
  BY SameDecisions DEF SInv
<1>13. /\ UNCHANGED [e \in IntentReqs |-> Frozen(e)]
       /\ UNCHANGED {e \in IntentReqs : Approved(e)}
       /\ UNCHANGED [q \in PayReqs |-> Ordered(q)]
  BY <1>1, <1>11, <1>12, FrozenStays, ApprovedStay, OrderedStay
<1>14. QED
  BY <1>2, <1>3, <1>4, <1>5, <1>7, <1>8, <1>9, <1>10, <1>11, <1>13 DEF Selling!Book

\* Any other step of a payment handler sells nothing.
LEMMA PaySells ==
  ASSUME SInv, NEW r \in PayReqs, ServePay(r)
  PROVE  \/ Selling!Order(r) \/ Selling!Book(r)
         \/ UNCHANGED Selling!saleVars
<1>1. CASE Paying!PayRecord(r)
  BY <1>1, RecordIsBook
<1>2. CASE /\ Paying!PayOrderCreated(r) \/ Paying!PayOrderFailed(r)
              \/ Paying!PayOrderRaises(r)
           /\ Paying!OrderMade(r)
  BY <1>2, OrderIsOrder
     DEF Paying!PayOrderCreated, Paying!PayOrderFailed, Paying!PayOrderRaises,
         Paying!PayOrdered
<1>3. CASE UNCHANGED <<orders, payments>>
  <2>1. UNCHANGED <<decisions, authorizations, attempts>>
    BY PayLeaves DEF ServePay, negotiationVars, webhookVars
  <2>2. \A q \in PayReqs : payReq'[q].decision = payReq[q].decision
    BY SameDecisions DEF SInv
  <2>3. QED
    BY <1>3, <2>1, <2>2, Unsold
<1>4. QED
  BY <1>1, <1>2, <1>3
     DEF ServePay, Paying!PayStep, Paying!PayDuplicate, Paying!PayFresh,
         Paying!PayNothingToCharge, Paying!PaySimulated, Paying!PayOrderCreated,
         Paying!PayOrderFailed, Paying!PayOrderRaises, Paying!PayClash, Paying!PayBusy,
         Paying!ownTables

\* The write of a delivery is Settle, or moves no payment.
LEMMA WriteIsSettle ==
  ASSUME SInv, NEW h \in HookReqs, ServeHook(h), Reporting!HookWrite(h)
  PROVE  \/ \E r \in PayReqs : Selling!Settle(r)
         \/ UNCHANGED Selling!saleVars
<1> DEFINE e == hookReq[h].event
           status == HookProofs!TargetOf(e)
<1>1. HookProofs!WriteEffect(h)
  BY HookProofs!WriteDoes, SameHookWrite, InstancedRows, InstancedPaymentRows,
     InstancedComponents DEF SInv
<1>2. UNCHANGED <<decisions, authorizations, orders, payReq, attempts>>
  BY <1>1 DEF ServeHook, negotiationVars, paymentVars, HookProofs!WriteEffect
<1>3. CASE ~HookProofs!Transitions(h)
  <2>1. UNCHANGED payments
    BY <1>1, <1>3 DEF HookProofs!WriteEffect
  <2>2. QED
    BY <1>2, <2>1, Unsold
<1>4. CASE HookProofs!Transitions(h)
  <2>1. /\ e.payment \in Attempts
        /\ e.order \in PayReqs
        /\ status \in {"captured", "failed"}
        /\ payments[e.order] \in HookProofs!PaymentRow
        /\ payments[e.order].order = e.order
        /\ payments' = [payments EXCEPT ![e.order].status = status]
        /\ attempts[e.payment] = [order |-> e.order, status |-> status]
    BY <1>1, <1>4 DEF HookProofs!WriteEffect
  <2>2. payments[e.order] # NoRow
    BY <2>1, InstancedPaymentRows DEF HookProofs!PaymentRowAssumption
  <2>3. /\ UNCHANGED [d \in IntentReqs |-> Frozen(d)]
        /\ UNCHANGED {d \in IntentReqs : Approved(d)}
        /\ UNCHANGED [r \in PayReqs |-> Ordered(r)]
    BY <1>2, FrozenStays, ApprovedStay, OrderedStay
  <2> HIDE DEF e, status
  <2>4. Selling!Settle(e.order)
    BY <1>2, <2>1, <2>2, <2>3 DEF Selling!Settle, Selling!Payable
  <2>5. QED
    BY <2>1, <2>4
<1>5. QED
  BY <1>3, <1>4

\* Any other step of a delivery sells nothing.
LEMMA HookSells ==
  ASSUME SInv, NEW h \in HookReqs, ServeHook(h)
  PROVE  \/ \E r \in PayReqs : Selling!Settle(r)
         \/ UNCHANGED Selling!saleVars
<1>1. CASE Reporting!HookWrite(h)
  BY <1>1, WriteIsSettle
<1>2. CASE ~Reporting!HookWrite(h)
  <2>1. UNCHANGED <<payments, attempts>>
    BY <1>2 DEF ServeHook, Reporting!HookStep, Reporting!HookDuplicate,
                Reporting!HookFresh, Reporting!HookRead, Reporting!HookClash,
                Reporting!HookBusy, Reporting!tables
  <2>2. QED
    BY <2>1, Unsold DEF ServeHook, negotiationVars, paymentVars
<1>3. QED
  BY <1>1, <1>2

\* An attempt to pay is Pay, and its capture is Capture.
LEMMA PurchaseIsPaying ==
  ASSUME Purchase
  PROVE  \E p \in Attempts : Selling!Pay(p) \/ Selling!Capture(p)
<1>1. UNCHANGED <<decisions, authorizations, orders, payments, payReq>>
  BY DEF Purchase, negotiationVars, paymentVars, Reporting!AttemptMade,
         Reporting!AttemptCaptured, Reporting!tables
<1>2. /\ UNCHANGED [d \in IntentReqs |-> Frozen(d)]
      /\ UNCHANGED {d \in IntentReqs : Approved(d)}
      /\ UNCHANGED [r \in PayReqs |-> Ordered(r)]
  BY <1>1, FrozenStays, ApprovedStay, OrderedStay
<1>3. ASSUME NEW p \in Attempts, Reporting!AttemptMade(p) PROVE Selling!Pay(p)
  BY <1>1, <1>2, <1>3
     DEF Reporting!AttemptMade, Reporting!Paid, Selling!Pay, Selling!Payable
<1>4. ASSUME NEW p \in Attempts, Reporting!AttemptCaptured(p) PROVE Selling!Capture(p)
  BY <1>1, <1>2, <1>4 DEF Reporting!AttemptCaptured, Selling!Capture
<1>5. QED
  BY <1>3, <1>4 DEF Purchase

--------------------------------------------------------------------------------
(* The steps that sell nothing. *)

\* Requests and deliveries arrive; a request has no order yet, whatever it names.
LEMMA ArrivalsSell ==
  ASSUME SInv, Arrive
  PROVE  UNCHANGED Selling!saleVars
<1>1. CASE /\ \/ \E i \in IntentReqs, m \in Merchants : IntentArrive(i, m)
              \/ \E a \in ApprovalReqs : ApprovalArrive(a)
           /\ Alone
  <2>1. ASSUME NEW i \in IntentReqs, NEW m \in Merchants, IntentArrive(i, m)
        PROVE  UNCHANGED <<decisions, authorizations>>
    BY <2>1 DEF IntentArrive, tables
  <2>2. ASSUME NEW a \in ApprovalReqs, ApprovalArrive(a)
        PROVE  UNCHANGED <<decisions, authorizations>>
    BY <2>2 DEF ApprovalArrive, ApprovalUnknown, ApprovalConflict, ApprovalCheck, tables
  <2>3. QED
    BY <1>1, <2>1, <2>2, Unsold DEF Alone, paymentVars, webhookVars
<1>2. ASSUME UNCHANGED <<negotiationVars, webhookVars>>,
             NEW r \in PayReqs, Paying!PayArrive(r)
      PROVE  UNCHANGED Selling!saleVars
  <2>1. UNCHANGED <<decisions, orders, payments>>
    BY <1>2 DEF Paying!PayArrive, Paying!PayCheck, Paying!PayRefuse, Paying!environment,
                Paying!ownTables
  <2>2. orders[r] = NoRow
    BY <1>2 DEF SInv, EInv, ChargeInv, Paying!PayArrive, Paying!PayCheck, Paying!PayRefuse
  <2>3. \A q \in PayReqs \ {r} : payReq'[q] = payReq[q]
    BY <1>2 DEF SInv, EInv, OthersTyped, Paying!PayArrive, Paying!PayCheck,
                Paying!PayRefuse
  <2>4. QED
    BY <1>2, <2>1, <2>2, <2>3, Unsold DEF negotiationVars, webhookVars
<1>3. ASSUME UNCHANGED <<now, decisions, negotiationVars, paymentVars>>,
             NEW h \in HookReqs, Reporting!HookArrive(h)
      PROVE  UNCHANGED Selling!saleVars
  BY <1>3, Unsold DEF negotiationVars, paymentVars, Reporting!HookArrive, Reporting!tables
<1>4. QED
  BY <1>1, <1>2, <1>3 DEF Arrive

\* The dead process loses its requests, not the decisions they charge for.
LEMMA CrashSells ==
  ASSUME SInv, ServerCrash
  PROVE  UNCHANGED Selling!saleVars
<1>1. UNCHANGED <<decisions, authorizations, orders, payments, attempts>>
  BY DEF ServerCrash, RequestsLost, tables
<1>2. \A r \in PayReqs : payReq'[r].decision = payReq[r].decision
  BY DEF SInv, EInv, OthersTyped, ServerCrash, Paying!PaysLost, Paying!PayState
<1>3. QED
  BY <1>1, <1>2, Unsold

\* Every step of the service is a step of Sale, or none of it.
LEMMA Sells ==
  ASSUME SInv, SInv', [ServiceNext]_serviceVars
  PROVE  [Selling!SaleNext]_(Selling!saleVars)
<1>1. CASE Arrive
  BY <1>1, ArrivalsSell
<1>2. ASSUME NEW i \in IntentReqs, ServeIntent(i)
      PROVE  [Selling!SaleNext]_(Selling!saleVars)
  <2>1. CASE IntentCommit(i)
    BY <1>2, <2>1, CommitIsFreeze DEF SInv, ServeIntent, Selling!SaleNext
  <2>2. CASE ~IntentCommit(i)
    <3>1. UNCHANGED <<decisions, authorizations>>
      BY <1>2, <2>2 DEF ServeIntent, IntentStep, IntentRefuse, IntentOpen, IntentBusy,
                        IntentPropose, IntentDecide, IntentFail, tables
    <3>2. QED
      BY <1>2, <3>1, Unsold DEF ServeIntent, Alone, paymentVars, webhookVars
  <2>3. QED
    BY <2>1, <2>2
<1>3. ASSUME NEW a \in ApprovalReqs, ServeApproval(a)
      PROVE  [Selling!SaleNext]_(Selling!saleVars)
  <2>1. CASE ApprovalWrite(a)
    BY <1>3, <2>1, WriteApproves DEF SInv, ServeApproval, Selling!SaleNext
  <2>2. CASE ApprovalBusy(a)
    BY <1>3, <2>2, Unsold
       DEF ServeApproval, ApprovalBusy, tables, Alone, paymentVars, webhookVars
  <2>3. QED
    BY <1>3, <2>1, <2>2 DEF ServeApproval, ApprovalStep
<1>4. ASSUME NEW r \in PayReqs, ServePay(r)
      PROVE  [Selling!SaleNext]_(Selling!saleVars)
  BY <1>4, PaySells DEF Selling!SaleNext
<1>5. ASSUME NEW h \in HookReqs, ServeHook(h)
      PROVE  [Selling!SaleNext]_(Selling!saleVars)
  BY <1>5, HookSells DEF Selling!SaleNext
<1>6. CASE Purchase
  BY <1>6, PurchaseIsPaying DEF Selling!SaleNext
<1>7. CASE ServerCrash
  BY <1>7, CrashSells
<1>8. CASE ClockTick
  BY <1>8, Unsold DEF ClockTick, Tick, tables, Alone, paymentVars, webhookVars
<1>9. CASE ServiceQuiescent \/ UNCHANGED serviceVars
  BY <1>9, Unsold DEF ServiceQuiescent, serviceVars, negotiationVars, paymentVars,
                      webhookVars
<1>10. QED
  BY <1>1, <1>2, <1>3, <1>4, <1>5, <1>6, <1>7, <1>8, <1>9 DEF ServiceNext

\* Nothing is frozen, approved, ordered or paid before the first request.
LEMMA InitSells == ServiceInit => Selling!SaleInit
<1> SUFFICES ASSUME ServiceInit PROVE Selling!SaleInit
  OBVIOUS
<1>1. Init /\ Paying!Init /\ Reporting!HookInit
  BY DEF ServiceInit
<1>2. [d \in IntentReqs |-> Frozen(d)] = [d \in IntentReqs |-> NoRow]
  BY <1>1 DEF Init, Frozen
<1>3. {d \in IntentReqs : Approved(d)} = {}
  BY <1>1 DEF Init, Approved
<1>4. [r \in PayReqs |-> Ordered(r)] = [r \in PayReqs |-> NoRow]
  BY <1>1 DEF Paying!Init, Ordered
<1>5. QED
  BY <1>1, <1>2, <1>3, <1>4 DEF Paying!Init, Reporting!HookInit, Selling!SaleInit

\* With any number of requests, deliveries and attempts, repeated, late, interleaved and
\* lost in crashes, the service sells as Sale says: it orders and books frozen terms of
\* cleared decisions only, for their own amount and merchant, and its books follow what
\* was paid.
THEOREM ServiceImplementsSale == ServiceSpec => ImplementsSale
<1>1. ServiceSpec => []SInv
  BY ServiceEInv, ServicePays, ServiceReports, PTL DEF SInv
<1>2. SInv /\ SInv' /\ [ServiceNext]_serviceVars => [Selling!SaleNext]_(Selling!saleVars)
  BY Sells
<1>3. QED
  BY <1>1, <1>2, InitSells, PTL DEF ServiceSpec, ImplementsSale, Selling!SaleSpec

--------------------------------------------------------------------------------
(* What follows from that for the service. *)

SaleSide == INSTANCE SaleProofs WITH
  deals <- [d \in IntentReqs |-> Frozen(d)],
  approved <- {d \in IntentReqs : Approved(d)},
  orders <- [r \in PayReqs |-> Ordered(r)]

\* The proofs about Sale speak of what the service implements.
LEMMA SameSale ==
  /\ SaleSide!SaleSpec <=> Selling!SaleSpec
  /\ SaleSide!CapturedIsOwed <=> Selling!CapturedIsOwed
<1> USE DEF SaleSide!Cleared, Selling!Cleared, SaleSide!OrderFor, Selling!OrderFor,
            SaleSide!FrozenDeal, Selling!FrozenDeal
<1>1. SaleSide!SaleInit <=> Selling!SaleInit
  BY DEF SaleSide!SaleInit, Selling!SaleInit
<1>2. SaleSide!SaleNext <=> Selling!SaleNext
  BY DEF SaleSide!SaleNext, Selling!SaleNext, SaleSide!Freeze, Selling!Freeze,
         SaleSide!Approve, Selling!Approve, SaleSide!Order, Selling!Order,
         SaleSide!Book, Selling!Book, SaleSide!Payable, Selling!Payable, SaleSide!Pay,
         Selling!Pay, SaleSide!Capture, Selling!Capture, SaleSide!Settle,
         Selling!Settle, SaleSide!PaymentRow, Selling!PaymentRow,
         SaleSide!PaymentStatus, Selling!PaymentStatus,
         SaleSide!InitialPaymentStatus, Selling!InitialPaymentStatus
<1>3. [SaleSide!SaleNext]_(SaleSide!saleVars) <=> [Selling!SaleNext]_(Selling!saleVars)
  BY <1>2 DEF SaleSide!saleVars, Selling!saleVars
<1>4. SaleSide!SaleSpec <=> Selling!SaleSpec
  BY <1>1, <1>3, PTL DEF SaleSide!SaleSpec, Selling!SaleSpec
<1>5. SaleSide!CapturedIsOwed <=> Selling!CapturedIsOwed
  BY DEF SaleSide!CapturedIsOwed, Selling!CapturedIsOwed
<1>6. QED
  BY <1>4, <1>5

\* Its assumptions hold.
LEMMA InstancedSale == SaleSide!RowAssumption /\ SaleSide!PaymentRowAssumption
BY RowAssumption, PaymentRowAssumption
   DEF RowAssumption, SaleSide!RowAssumption, DecisionRow, SaleSide!DecisionRow,
       NegotiationState, SaleSide!NegotiationState, FrozenDeal, SaleSide!FrozenDeal,
       PaymentRowAssumption, SaleSide!PaymentRowAssumption, PaymentRow,
       SaleSide!PaymentRow, BookedCharge, SaleSide!BookedCharge, PaymentStatus,
       SaleSide!PaymentStatus, InitialPaymentStatus, SaleSide!InitialPaymentStatus

\* Whatever the service marks captured is owed: paid, on an order for exactly what its
\* cleared decision froze, to the merchant of that decision.
THEOREM CapturesAreOwed == ServiceSpec => []CapturedIsOwed
<1>1. Terms \subseteq [price : Int, quantity : Int]
  BY EconexAssumption
<1>2. SaleSide!SaleSpec => []SaleSide!CapturedIsOwed
  BY <1>1, SaleSide!SaleIsOwed, InstancedSale
<1>3. QED
  BY <1>2, ServiceImplementsSale, SameSale, PTL DEF ImplementsSale, CapturedIsOwed

================================================================================
