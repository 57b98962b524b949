------------------------------ MODULE EconexProofs ------------------------------
(***************************************************************************)
(* Proofs about the composed service, for any merchants, requests,         *)
(* deliveries, terms and time.  A step of the service is a step of         *)
(* Negotiation or leaves its variables alone, so the invariant of          *)
(* NegotiationProofs holds of the service too.  EInv adds what the other   *)
(* handlers rely on across module boundaries: a request for payment on an  *)
(* escalated decision has an approval on record, a delivery about to write *)
(* has a payment to write to, and a captured payment has its audit row.    *)
(* With it every step is a step of Payments, and of Webhooks, or none.     *)
(***************************************************************************)
EXTENDS Econex, NegotiationProofs

\* The clock, and the expiry of the decision about to be committed, are in bounds.
ExpiryInv ==
  /\ now <= MaxTime
  /\ txn # NoRow /\ intentReq[txn.by].pc = "committing" =>
       txn.decision.expiresAt <= MaxTime + OfferTtl

\* The decision a request charges for is its merchant's, and approved if it had to be.
Chargeable(r) ==
  LET req == payReq[r]
  IN  /\ req.merchant \in Merchants
      /\ req.decision \in IntentReqs
      /\ req.key \in Keys
      /\ req.amount \in Amounts
      /\ ScopedRow(decisions, req.merchant, req.decision)
      /\ decisions[req.decision].requiresApproval => Approved(req.decision)

\* What a payment request has passed, ordered and booked.
ChargeInv(r) ==
  /\ payReq[r].pc \in Paying!ActivePcs \/ orders[r] # NoRow \/ payments[r] # NoRow =>
       Chargeable(r)
  /\ orders[r] # NoRow => payReq[r].pc # "idle"
  /\ payReq[r].pc = "recording" => payReq[r].status \in InitialPaymentStatus
  /\ payments[r] # NoRow =>
       /\ payReq[r].pc = "answered"
       /\ payments[r].decision = payReq[r].decision
       /\ payments[r].merchant = payReq[r].merchant

\* A delivery that is being handled is about an event, and one that saw a status saw it
\* on a row with the order the event is about.
DeliveryInv(h) ==
  LET req == hookReq[h]
      order == req.event.order
  IN  /\ req.pc \in Reporting!HookPcs => req.event \in Reporting!Event
      /\ req.pc \in {"idle", "lookup", "reading"} => req.seen = "none"
      /\ req.pc = "reading" => Reporting!TargetOf(req.event) # "none"
      /\ req.pc = "writing" /\ req.seen # "none" =>
           /\ order \in PayReqs
           /\ payments[order] # NoRow
           /\ payments[order].order = order

\* A captured payment has the audit row of a delivery that is over.
CapturedIsAudited ==
  \A r \in PayReqs :
    payments[r] # NoRow /\ payments[r].status = "captured" =>
      \E h \in HookReqs :
        /\ hookReq[h].pc = "answered"
        /\ paymentAudit[h] = [payment |-> r, status |-> "captured"]

\* What only payments and webhooks write is of its kind.
OthersTyped ==
  /\ live \in BOOLEAN
  /\ payments \in [PayReqs -> PaymentRow \union {NoRow}]
  /\ orders \in [PayReqs -> Paying!OrderRow \union {NoRow}]
  /\ payReq \in [PayReqs -> Paying!PayState]
  /\ attempts \in
       [Attempts -> [order : PayReqs \union {NoOrder}, status : Reporting!AttemptStatus]]
  /\ events \in [HookReqs -> Reporting!EventRow \union {NoRow}]
  /\ paymentAudit \in [HookReqs -> Reporting!AuditRow \union {NoRow}]
  /\ hookReq \in [HookReqs -> Reporting!HookState]

EInv ==
  /\ IInv
  /\ OthersTyped
  /\ ExpiryInv
  /\ \A r \in PayReqs : ChargeInv(r)
  /\ \A h \in HookReqs : DeliveryInv(h)
  /\ CapturedIsAudited

--------------------------------------------------------------------------------
(* The modules speak of the same tables. *)

\* The rows and states of Payments and Webhooks are those of the service.
LEMMA SameRows ==
  /\ Paying!DecisionRow = DecisionRow
  /\ Paying!PaymentRow = PaymentRow
  /\ Reporting!PaymentRow = PaymentRow
  /\ Paying!InitialPaymentStatus = InitialPaymentStatus
  /\ Reporting!InitialPaymentStatus = InitialPaymentStatus
  /\ Reporting!PaymentStatus = PaymentStatus
BY DEF Paying!DecisionRow, DecisionRow, Paying!NegotiationState, NegotiationState,
       Paying!PaymentRow, Reporting!PaymentRow, PaymentRow, PaymentStatus,
       Paying!PaymentStatus, Reporting!PaymentStatus, InitialPaymentStatus,
       Paying!InitialPaymentStatus, Reporting!InitialPaymentStatus

\* The types of all three components, from Negotiation's and these.
LEMMA TypesTogether == TypeOK /\ OthersTyped <=> ServiceTypeOK
<1>1. TypeOK => /\ now \in Nat
                /\ decisions \in [IntentReqs -> Paying!DecisionRow \union {NoRow}]
  BY SameRows DEF TypeOK
<1>2. lockFree \in BOOLEAN
  BY DEF lockFree, LockFree
<1>3. TypeOK /\ OthersTyped => Paying!TypeOK
  BY <1>1, <1>2, SameRows DEF OthersTyped, Paying!TypeOK
<1>4. OthersTyped => Reporting!TypeOK
  BY <1>2, SameRows DEF OthersTyped, Reporting!TypeOK
<1>5. Paying!TypeOK /\ Reporting!TypeOK => OthersTyped
  BY SameRows DEF OthersTyped, Paying!TypeOK, Reporting!TypeOK
<1>6. QED
  BY <1>3, <1>4, <1>5 DEF ServiceTypeOK

--------------------------------------------------------------------------------
(* The service as Negotiation sees it. *)

\* A payment handler writes neither the clock nor the decisions nor the lock.
LEMMA PayLeaves ==
  ASSUME NEW r \in PayReqs, Paying!PayStep(r) \/ Paying!PayArrive(r)
  PROVE  UNCHANGED <<now, decisions, lockFree, live>>
<1> USE DEF Paying!environment
<1>1. CASE Paying!PayArrive(r)
  <2>1. ASSUME NEW m \in Merchants, NEW d \in IntentReqs, NEW k \in Keys,
               Paying!PayCheck(r, m, d, k)
        PROVE  UNCHANGED <<now, decisions, lockFree, live>>
    BY <2>1 DEF Paying!PayCheck
  <2>2. ASSUME NEW m \in Merchants, NEW d \in IntentReqs, NEW k \in Keys,
               Paying!PayRefuse(r, m, d, k)
        PROVE  UNCHANGED <<now, decisions, lockFree, live>>
    BY <2>2 DEF Paying!PayRefuse
  <2>3. QED
    BY <1>1, <2>1, <2>2 DEF Paying!PayArrive
<1>2. CASE Paying!PayStep(r)
  <2>1. CASE Paying!PayDuplicate(r) \/ Paying!PayFresh(r) \/ Paying!PayNothingToCharge(r)
    BY <2>1 DEF Paying!PayDuplicate, Paying!PayFresh, Paying!PayNothingToCharge
  <2>2. CASE Paying!PaySimulated(r) \/ Paying!PayOrderCreated(r)
               \/ Paying!PayOrderFailed(r) \/ Paying!PayOrderRaises(r)
    BY <2>2 DEF Paying!PaySimulated, Paying!PayOrderCreated, Paying!PayOrderFailed,
                Paying!PayOrderRaises
  <2>3. CASE Paying!PayRecord(r) \/ Paying!PayClash(r) \/ Paying!PayBusy(r)
    BY <2>3 DEF Paying!PayRecord, Paying!PayClash, Paying!PayBusy
  <2>4. QED
    BY <1>2, <2>1, <2>2, <2>3 DEF Paying!PayStep
<1>3. QED
  BY <1>1, <1>2

\* When the process dies with no intent and no approval in flight, the lock is free.
LEMMA CrashSeen ==
  ASSUME IInv, ServerCrash
  PROVE  Crash \/ UNCHANGED vars
<1>1. RequestsLost /\ UNCHANGED now
  BY DEF ServerCrash
<1>2. CASE ActiveIntents # {} \/ ActiveApprovals # {}
  BY <1>1, <1>2 DEF Crash
<1>3. CASE ActiveIntents = {} /\ ActiveApprovals = {}
  <2>1. txn = NoRow
    <3> SUFFICES ASSUME txn # NoRow PROVE FALSE
      OBVIOUS
    <3>1. txn.by \in IntentReqs
      BY DEF IInv, TypeOK, Transaction
    <3>2. intentReq[txn.by].pc \in InTransaction
      BY <3>1 DEF IInv, Inv, LockHeldByItsTransaction
    <3>3. QED
      BY <1>3, <3>1, <3>2 DEF ActiveIntents, InTransaction, Finished
  <2>2. intentReq' = intentReq
    BY <1>1, <1>3 DEF RequestsLost, IInv, TypeOK
  <2>3. approvalReq' = approvalReq
    BY <1>1, <1>3 DEF RequestsLost, IInv, TypeOK
  <2>4. QED
    BY <1>1, <2>1, <2>2, <2>3 DEF RequestsLost, vars
<1>4. QED
  BY <1>2, <1>3

\* Every step of the service is a step of Negotiation, or none of it.
LEMMA NegotiationSeen ==
  ASSUME IInv, [ServiceNext]_serviceVars
  PROVE  [Next]_vars
<1> USE DEF negotiationVars, tables
<1>1. CASE Arrive
  <2>1. CASE \/ \E i \in IntentReqs, m \in Merchants : IntentArrive(i, m)
             \/ \E a \in ApprovalReqs : ApprovalArrive(a)
    BY <2>1 DEF Next
  <2>2. CASE /\ UNCHANGED <<negotiationVars, webhookVars>>
             /\ \E r \in PayReqs : Paying!PayArrive(r)
    <3>1. UNCHANGED <<now, decisions>>
      BY <2>2, PayLeaves
    <3>2. QED
      BY <2>2, <3>1 DEF vars
  <2>3. CASE UNCHANGED <<now, decisions, negotiationVars, paymentVars>>
    BY <2>3 DEF vars
  <2>4. QED
    BY <1>1, <2>1, <2>2, <2>3 DEF Arrive
<1>2. ASSUME NEW i \in IntentReqs, ServeIntent(i) PROVE Next
  BY <1>2 DEF ServeIntent, Next
<1>3. ASSUME NEW a \in ApprovalReqs, ServeApproval(a) PROVE Next
  BY <1>3 DEF ServeApproval, Next
<1>4. ASSUME NEW r \in PayReqs, ServePay(r) PROVE UNCHANGED vars
  <2>1. UNCHANGED <<now, decisions>>
    BY <1>4, PayLeaves DEF ServePay
  <2>2. QED
    BY <1>4, <2>1 DEF ServePay, vars
<1>5. ASSUME NEW h \in HookReqs, ServeHook(h) PROVE UNCHANGED vars
  BY <1>5 DEF ServeHook, vars
<1>6. CASE Purchase
  BY <1>6 DEF Purchase, vars
<1>7. CASE ServerCrash
  BY <1>7, CrashSeen DEF Next
<1>8. CASE ClockTick
  BY <1>8 DEF ClockTick, Next
<1>9. CASE ServiceQuiescent \/ UNCHANGED serviceVars
  BY <1>9 DEF ServiceQuiescent, serviceVars, vars
<1>10. QED
  BY <1>1, <1>2, <1>3, <1>4, <1>5, <1>6, <1>7, <1>8, <1>9 DEF ServiceNext

--------------------------------------------------------------------------------
(* What a step of Negotiation means to a charge. *)

\* A decision keeps its owner, its terms and its need of an approval.
LEMMA DecisionsStay ==
  ASSUME IInv, [Next]_vars, NEW d \in IntentReqs, decisions[d] # NoRow
  PROVE  /\ decisions'[d] # NoRow
         /\ decisions'[d].merchant = decisions[d].merchant
         /\ decisions'[d].requiresApproval = decisions[d].requiresApproval
<1>1. decisions[d] \in DecisionRow /\ decisions \in [IntentReqs -> DecisionRow \union {NoRow}]
  BY DEF IInv, TypeOK
<1>2. ASSUME NEW i \in IntentReqs, IntentCommit(i)
      PROVE  decisions'[d] = decisions[d]
  <2>1. decisions[i] = NoRow /\ decisions' = [decisions EXCEPT ![i] = decisions'[i]]
    BY <1>2, Published DEF Ledger!Publish
  <2>2. QED
    BY <1>1, <2>1
<1>3. ASSUME NEW a \in ApprovalReqs, ApprovalWrite(a)
      PROVE  \/ decisions'[d] = decisions[d]
             \/ \E state \in NegotiationState :
                  decisions'[d] = [decisions[d] EXCEPT !.state = state]
  <2>1. /\ approvalReq[a].decision \in IntentReqs
        /\ approvalReq[a].verdict \in Verdict
    BY <1>3, Ruled
  <2>2. /\ decisions' = [decisions EXCEPT ![approvalReq[a].decision].state =
                           ClosedBy(approvalReq[a].verdict)]
        /\ ClosedBy(approvalReq[a].verdict) \in NegotiationState
    BY <1>3, <2>1 DEF ApprovalWrite, ClosedBy, NegotiationState
  <2>3. QED
    BY <1>1, <2>1, <2>2
<1>4. CASE /\ \A i \in IntentReqs : ~IntentCommit(i)
           /\ \A a \in ApprovalReqs : ~ApprovalWrite(a)
  BY <1>4, OtherStepsKeepTables DEF tables
<1>5. ASSUME NEW state \in NegotiationState
      PROVE  /\ [decisions[d] EXCEPT !.state = state] \in DecisionRow
             /\ [decisions[d] EXCEPT !.state = state].merchant = decisions[d].merchant
             /\ [decisions[d] EXCEPT !.state = state].requiresApproval
                  = decisions[d].requiresApproval
  BY <1>1 DEF DecisionRow
<1>6. ASSUME NEW state \in NegotiationState,
             decisions'[d] = [decisions[d] EXCEPT !.state = state]
      PROVE  /\ decisions'[d] # NoRow
             /\ decisions'[d].merchant = decisions[d].merchant
             /\ decisions'[d].requiresApproval = decisions[d].requiresApproval
  BY <1>5, <1>6, RowAssumption
<1>7. QED
  BY <1>2, <1>3, <1>4, <1>6

\* An approval on record stays on record.
LEMMA ApprovalsStay ==
  ASSUME IInv, [Next]_vars, NEW d \in IntentReqs, Approved(d)
  PROVE  Approved(d)'
<1>1. PICK b \in ApprovalReqs : /\ authorizations[b] # NoRow
                                /\ authorizations[b].decision = d
                                /\ authorizations[b].new = "APPROVED"
  BY DEF Approved
<1>2. ASSUME NEW i \in IntentReqs, IntentCommit(i)
      PROVE  authorizations'[b] = authorizations[b]
  BY <1>2 DEF IntentCommit
<1>3. ASSUME NEW a \in ApprovalReqs, ApprovalWrite(a)
      PROVE  authorizations'[b] = authorizations[b]
  <2>1. authorizations[a] = NoRow
    BY <1>3, Ruled DEF Ledger!Rule
  <2>2. QED
    BY <1>1, <1>3, <2>1 DEF ApprovalWrite, IInv, TypeOK
<1>4. ASSUME \A i \in IntentReqs : ~IntentCommit(i),
             \A a \in ApprovalReqs : ~ApprovalWrite(a)
      PROVE  authorizations'[b] = authorizations[b]
  BY <1>4, OtherStepsKeepTables DEF tables
<1>5. authorizations'[b] = authorizations[b]
  BY <1>2, <1>3, <1>4
<1>6. QED
  BY <1>1, <1>5 DEF Approved

\* What a request works on is the same after a step.
SameRequest(r) ==
  /\ payReq'[r].merchant = payReq[r].merchant
  /\ payReq'[r].decision = payReq[r].decision
  /\ payReq'[r].key = payReq[r].key
  /\ payReq'[r].amount = payReq[r].amount

\* What may be charged may still be charged after any step.
LEMMA ChargeableStays ==
  ASSUME IInv, [Next]_vars, NEW r \in PayReqs, Chargeable(r), SameRequest(r)
  PROVE  Chargeable(r)'
<1>1. PICK d \in IntentReqs : d = payReq[r].decision
  BY DEF Chargeable
<1>2. /\ decisions[d] # NoRow
      /\ decisions[d].requiresApproval => Approved(d)
  BY <1>1 DEF Chargeable, ScopedRow
<1>3. /\ decisions'[d] # NoRow
      /\ decisions'[d].merchant = decisions[d].merchant
      /\ decisions'[d].requiresApproval = decisions[d].requiresApproval
  BY <1>2, DecisionsStay
<1>4. decisions'[d].requiresApproval => Approved(d)'
  BY <1>2, <1>3, ApprovalsStay
<1>5. payReq'[r].decision = d
  BY <1>1 DEF SameRequest
<1>6. decisions'[payReq'[r].decision].requiresApproval => Approved(payReq[r].decision)'
  BY <1>4, <1>5 DEF Approved
<1>7. ScopedRow(decisions', payReq'[r].merchant, payReq'[r].decision)
  BY <1>1, <1>3, <1>5 DEF Chargeable, SameRequest, ScopedRow
<1>8. QED
  BY <1>6, <1>7 DEF Chargeable, SameRequest, ScopedRow

\* The clock stops at MaxTime, and what is decided before that expires OfferTtl later.
LEMMA ExpiryStays ==
  ASSUME IInv, ExpiryInv, [Next]_vars
  PROVE  ExpiryInv'
<1> USE DEF ExpiryInv
<1>0. txn # NoRow => /\ txn.by \in IntentReqs
                     /\ intentReq[txn.by].pc \in InTransaction
  BY DEF IInv, TypeOK, Transaction, Inv, LockHeldByItsTransaction
<1>1. ASSUME NEW i \in IntentReqs, NEW m \in Merchants, IntentArrive(i, m)
      PROVE  ExpiryInv'
  BY <1>0, <1>1 DEF IntentArrive, IntentSet, InTransaction, IInv, TypeOK
<1>2. ASSUME NEW i \in IntentReqs, IntentRefuse(i) \/ IntentBusy(i)
      PROVE  ExpiryInv'
  BY <1>0, <1>2 DEF IntentRefuse, IntentBusy, IntentAnswer, IntentSet, InTransaction,
                    IInv, TypeOK
<1>3. ASSUME NEW i \in IntentReqs, IntentOpen(i)
      PROVE  ExpiryInv'
  BY <1>3 DEF IntentOpen, IInv, TypeOK, IntentState
<1>4. ASSUME NEW i \in IntentReqs, IntentPropose(i)
      PROVE  ExpiryInv'
  <2>1. txn \in Transaction /\ txn.by = i
    BY <1>4, Owner DEF IntentPropose, InTransaction
  <2>2. txn'.by = i
    BY <1>4, <2>1 DEF IntentPropose, Transaction
  <2>3. intentReq'[i].pc = "deciding"
    BY <1>4 DEF IntentPropose, IInv, TypeOK, IntentState
  <2>4. QED
    BY <1>4, <2>2, <2>3 DEF IntentPropose
<1>5. ASSUME NEW i \in IntentReqs, NEW outcome \in Outcome, IntentDecide(i, outcome)
      PROVE  ExpiryInv'
  <2>1. txn \in Transaction
    BY <1>5, Owner DEF IntentDecide, InTransaction
  <2>2. txn'.decision = NewDecision(i, outcome)
    BY <1>5, <2>1 DEF IntentDecide, Transaction
  <2>3. txn'.decision.expiresAt = now + OfferTtl
    BY <2>2 DEF NewDecision
  <2>4. now \in Nat /\ now' = now
    BY <1>5 DEF IntentDecide, IInv, TypeOK
  <2>5. QED
    BY <1>5, <2>3, <2>4, NegotiationAssumption DEF IntentDecide
<1>6. ASSUME NEW i \in IntentReqs, IntentFail(i) \/ IntentCommit(i)
      PROVE  ExpiryInv'
  BY <1>6 DEF IntentFail, IntentCommit
<1>7. ASSUME NEW i \in IntentReqs, IntentStep(i)
      PROVE  ExpiryInv'
  BY <1>2, <1>3, <1>4, <1>5, <1>6, <1>7 DEF IntentStep
<1>8. ASSUME NEW a \in ApprovalReqs, ApprovalArrive(a) \/ ApprovalStep(a)
      PROVE  ExpiryInv'
  <2>1. UNCHANGED <<now, txn, intentReq>>
    BY <1>8 DEF ApprovalArrive, ApprovalUnknown, ApprovalConflict, ApprovalCheck,
                ApprovalStep, ApprovalWrite, ApprovalBusy
  <2>2. QED
    BY <2>1
<1>9. CASE Crash
  BY <1>9 DEF Crash, RequestsLost
<1>10. CASE Tick
  BY <1>10, NegotiationAssumption DEF Tick, IInv, TypeOK
<1>11. CASE Quiescent \/ UNCHANGED vars
  BY <1>11 DEF Quiescent, vars
<1>12. QED
  BY <1>1, <1>7, <1>8, <1>9, <1>10, <1>11 DEF Next

--------------------------------------------------------------------------------
(* The invariant, step by step. *)

\* The negotiation side of the invariant is kept by every step of the service.
LEMMA NegotiationSide ==
  ASSUME EInv, [ServiceNext]_serviceVars
  PROVE  [Next]_vars /\ IInv' /\ ExpiryInv'
BY NegotiationSeen, NextIInv, ExpiryStays DEF EInv

\* The invariant of one request for payment is kept by a step that does not touch it.
LEMMA RequestStays ==
  ASSUME EInv, [Next]_vars, NEW r \in PayReqs,
         payReq'[r] = payReq[r], orders'[r] = orders[r],
         payments'[r] # NoRow =>
           /\ payments[r] # NoRow
           /\ payments'[r].decision = payments[r].decision
           /\ payments'[r].merchant = payments[r].merchant
  PROVE  ChargeInv(r)'
<1>1. ChargeInv(r) /\ IInv /\ SameRequest(r)
  BY DEF EInv, SameRequest
<1>2. Chargeable(r) => Chargeable(r)'
  BY <1>1, ChargeableStays
<1>3. QED
  BY <1>1, <1>2 DEF ChargeInv

\* The rows a delivery has seen stay where they are.
RowsStay ==
  \A r \in PayReqs :
    payments[r] # NoRow => payments'[r] # NoRow /\ payments'[r].order = payments[r].order

\* The invariant of one delivery is kept by a step that does not touch it.
LEMMA DeliveryStays ==
  ASSUME EInv, RowsStay, NEW h \in HookReqs, hookReq'[h] = hookReq[h]
  PROVE  DeliveryInv(h)'
BY DEF EInv, DeliveryInv, RowsStay

\* A step that leaves payments and webhooks alone keeps their side of the invariant.
LEMMA QuietStep ==
  ASSUME EInv, [ServiceNext]_serviceVars,
         UNCHANGED <<payments, paymentVars, webhookVars>>
  PROVE  EInv'
<1> USE DEF paymentVars, webhookVars
<1>1. [Next]_vars /\ IInv' /\ ExpiryInv'
  BY NegotiationSide
<1>2. OthersTyped'
  BY DEF EInv, OthersTyped
<1>3. ASSUME NEW r \in PayReqs PROVE ChargeInv(r)'
  BY <1>1, RequestStays
<1>4. ASSUME NEW h \in HookReqs PROVE DeliveryInv(h)'
  BY DeliveryStays DEF RowsStay
<1>5. CapturedIsAudited'
  BY DEF EInv, CapturedIsAudited
<1>6. QED
  BY <1>1, <1>2, <1>3, <1>4, <1>5 DEF EInv

--------------------------------------------------------------------------------
(* The steps of a request for payment. *)

\* Of the payment handlers only this one moves.
PayMoved(r) ==
  /\ payReq' \in [PayReqs -> Paying!PayState]
  /\ \A q \in PayReqs \ {r} : payReq'[q] = payReq[q]

\* The step of one payment handler keeps the invariant if it keeps what holds of its
\* request, and inserts no captured row.
LEMMA PaymentStep ==
  ASSUME EInv, [ServiceNext]_serviceVars, NEW r \in PayReqs,
         PayMoved(r), UNCHANGED <<live, webhookVars>>,
         payments' \in [PayReqs -> PaymentRow \union {NoRow}],
         orders' \in [PayReqs -> Paying!OrderRow \union {NoRow}],
         \A q \in PayReqs \ {r} : payments'[q] = payments[q] /\ orders'[q] = orders[q],
         \/ payments'[r] = payments[r]
         \/ /\ payments[r] = NoRow
            /\ payments'[r] # NoRow
            /\ payments'[r].status \in InitialPaymentStatus,
         ChargeInv(r)'
  PROVE  EInv'
<1> USE DEF webhookVars, PayMoved
<1>1. [Next]_vars /\ IInv' /\ ExpiryInv'
  BY NegotiationSide
<1>2. OthersTyped'
  BY DEF EInv, OthersTyped
<1>3. ASSUME NEW q \in PayReqs PROVE ChargeInv(q)'
  BY <1>1, RequestStays
<1>4. RowsStay
  BY DEF RowsStay
<1>5. ASSUME NEW h \in HookReqs PROVE DeliveryInv(h)'
  BY <1>4, DeliveryStays
<1>6. CapturedIsAudited'
  BY DEF EInv, CapturedIsAudited, InitialPaymentStatus
<1>7. QED
  BY <1>1, <1>2, <1>3, <1>5, <1>6 DEF EInv

\* A request at work goes on, or is answered without a row; it may make its order.
LEMMA WorkingStep ==
  ASSUME EInv, [ServiceNext]_serviceVars, NEW r \in PayReqs,
         payReq[r].pc \in Paying!ActivePcs, PayMoved(r), SameRequest(r),
         payReq'[r].pc \in {"ordering", "recording", "answered"},
         payReq'[r].pc = "recording" => payReq'[r].status \in InitialPaymentStatus,
         UNCHANGED <<live, webhookVars, payments>>,
         UNCHANGED orders \/ Paying!OrderMade(r)
  PROVE  EInv'
<1>1. ChargeInv(r) /\ Chargeable(r) /\ payments[r] = NoRow
  BY DEF EInv, ChargeInv, Paying!ActivePcs
<1>2. Chargeable(r)'
  BY <1>1, NegotiationSide, ChargeableStays DEF EInv
<1>3. /\ payments \in [PayReqs -> PaymentRow \union {NoRow}]
      /\ orders \in [PayReqs -> Paying!OrderRow \union {NoRow}]
  BY DEF EInv, OthersTyped
<1>4. [amount |-> payReq[r].amount, receipt |-> payReq[r].key] \in Paying!OrderRow
  BY <1>1 DEF Chargeable, Paying!OrderRow
<1>5. /\ orders' \in [PayReqs -> Paying!OrderRow \union {NoRow}]
      /\ \A q \in PayReqs \ {r} : orders'[q] = orders[q]
  BY <1>3, <1>4 DEF Paying!OrderMade
<1>6. ChargeInv(r)'
  BY <1>1, <1>2 DEF ChargeInv
<1>7. QED
  BY <1>3, <1>5, <1>6, PaymentStep

\* An answer changes a request's pc, its code and its duplicate flag.
LEMMA PayAnswered ==
  ASSUME OthersTyped, NEW r \in PayReqs, NEW code \in {200, 500}, NEW dup \in BOOLEAN,
         Paying!PayAnswer(r, code, dup)
  PROVE  PayMoved(r) /\ SameRequest(r) /\ payReq'[r].pc = "answered"
<1>1. payReq[r] \in Paying!PayState /\ payReq \in [PayReqs -> Paying!PayState]
  BY DEF OthersTyped
<1> DEFINE a == [payReq[r] EXCEPT !.pc = "answered"]
           b == [a EXCEPT !.code = code]
           c == [b EXCEPT !.duplicate = dup]
<1>2. payReq'[r] = c
  BY <1>1 DEF Paying!PayAnswer, Paying!PayState
<1>3. c \in Paying!PayState
  <2>1. a \in Paying!PayState
    BY <1>1 DEF Paying!PayState, Paying!Finished
  <2> HIDE DEF a
  <2>2. b \in Paying!PayState
    BY <2>1 DEF Paying!PayState
  <2> HIDE DEF b
  <2>3. QED
    BY <2>2 DEF Paying!PayState
<1>4. SameRequest(r) /\ payReq'[r].pc = "answered"
  BY <1>1, <1>2 DEF Paying!PayState, SameRequest
<1> HIDE DEF c
<1>5. PayMoved(r)
  BY <1>1, <1>2, <1>3 DEF Paying!PayAnswer, PayMoved
<1>6. QED
  BY <1>4, <1>5

\* Whether it books a payment or not, a request that ends here is answered.
LEMMA EndsInAnswer ==
  ASSUME NEW r \in PayReqs,
         \/ Paying!PayDuplicate(r) \/ Paying!PayNothingToCharge(r)
         \/ Paying!PayOrderRaises(r) \/ Paying!PayClash(r) \/ Paying!PayBusy(r)
         \/ Paying!PayRecord(r)
  PROVE  \E code \in {200, 500}, dup \in BOOLEAN : Paying!PayAnswer(r, code, dup)
<1>1. CASE Paying!PayDuplicate(r)
  <2> WITNESS 200 \in {200, 500}, TRUE \in BOOLEAN
  <2> QED
    BY <1>1 DEF Paying!PayDuplicate
<1>2. CASE Paying!PayNothingToCharge(r)
  <2> WITNESS 500 \in {200, 500}, FALSE \in BOOLEAN
  <2> QED
    BY <1>2 DEF Paying!PayNothingToCharge
<1>3. CASE Paying!PayOrderRaises(r)
  <2> WITNESS 500 \in {200, 500}, FALSE \in BOOLEAN
  <2> QED
    BY <1>3 DEF Paying!PayOrderRaises
<1>4. CASE Paying!PayClash(r)
  <2> WITNESS 500 \in {200, 500}, FALSE \in BOOLEAN
  <2> QED
    BY <1>4 DEF Paying!PayClash
<1>5. CASE Paying!PayBusy(r)
  <2> WITNESS 500 \in {200, 500}, FALSE \in BOOLEAN
  <2> QED
    BY <1>5 DEF Paying!PayBusy
<1>6. CASE Paying!PayRecord(r)
  <2> WITNESS 200 \in {200, 500}, FALSE \in BOOLEAN
  <2> QED
    BY <1>6 DEF Paying!PayRecord
<1>7. QED
  BY <1>1, <1>2, <1>3, <1>4, <1>5, <1>6

\* A duplicate, an exception, a clash or a busy lock: answered, and no row.
LEMMA UnbookedKeeps ==
  ASSUME EInv, NEW r \in PayReqs, ServePay(r),
         \/ Paying!PayDuplicate(r) \/ Paying!PayNothingToCharge(r)
         \/ Paying!PayOrderRaises(r) \/ Paying!PayClash(r) \/ Paying!PayBusy(r)
  PROVE  EInv'
<1> USE DEF Paying!environment, Paying!ownTables
<1>1. PICK code \in {200, 500}, dup \in BOOLEAN : Paying!PayAnswer(r, code, dup)
  BY EndsInAnswer
<1>2. /\ payReq[r].pc \in Paying!ActivePcs
      /\ UNCHANGED <<live, payments>>
      /\ UNCHANGED orders \/ Paying!OrderMade(r)
  <2>1. CASE Paying!PayDuplicate(r) \/ Paying!PayNothingToCharge(r)
    BY <2>1 DEF Paying!PayDuplicate, Paying!PayNothingToCharge, Paying!ActivePcs
  <2>2. CASE Paying!PayOrderRaises(r)
    BY <2>2 DEF Paying!PayOrderRaises, Paying!ActivePcs
  <2>3. CASE Paying!PayClash(r) \/ Paying!PayBusy(r)
    BY <2>3 DEF Paying!PayClash, Paying!PayBusy, Paying!ActivePcs
  <2>4. QED
    BY <2>1, <2>2, <2>3
<1>3. PayMoved(r) /\ SameRequest(r) /\ payReq'[r].pc = "answered"
  BY <1>1, PayAnswered DEF EInv
<1>4. ServiceNext /\ UNCHANGED webhookVars
  BY DEF ServiceNext, ServePay
<1>5. QED
  BY <1>2, <1>3, <1>4, WorkingStep

\* A key that is not taken: the request goes on to Razorpay.
LEMMA FreshKeeps ==
  ASSUME EInv, NEW r \in PayReqs, ServePay(r), Paying!PayFresh(r)
  PROVE  EInv'
<1>1. payReq[r] \in Paying!PayState /\ payReq \in [PayReqs -> Paying!PayState]
  BY DEF EInv, OthersTyped
<1>2. payReq' = [payReq EXCEPT ![r].pc = "ordering"]
  BY DEF Paying!PayFresh
<1>3. payReq'[r] = [payReq[r] EXCEPT !.pc = "ordering"]
  BY <1>1, <1>2
<1>4. /\ payReq'[r] \in Paying!PayState
      /\ payReq'[r].pc = "ordering"
      /\ SameRequest(r)
  BY <1>1, <1>3 DEF Paying!PayState, Paying!ActivePcs, SameRequest
<1>5. PayMoved(r)
  BY <1>1, <1>2, <1>4 DEF PayMoved
<1>6. /\ payReq[r].pc \in Paying!ActivePcs
      /\ UNCHANGED <<live, payments, orders>>
  BY DEF Paying!PayFresh, Paying!environment, Paying!ownTables, Paying!ActivePcs
<1>7. ServiceNext /\ UNCHANGED webhookVars
  BY DEF ServiceNext, ServePay
<1>8. QED
  BY <1>4, <1>5, <1>6, <1>7, WorkingStep

\* Razorpay answered, or the call failed: the request goes on to its row.
LEMMA OrderedKeeps ==
  ASSUME EInv, NEW r \in PayReqs, ServePay(r),
         Paying!PaySimulated(r) \/ Paying!PayOrderCreated(r) \/ Paying!PayOrderFailed(r)
  PROVE  EInv'
<1>1. payReq[r] \in Paying!PayState /\ payReq \in [PayReqs -> Paying!PayState]
  BY DEF EInv, OthersTyped
<1>2. PICK status \in InitialPaymentStatus : Paying!PayOrdered(r, status)
  BY DEF Paying!PaySimulated, Paying!PayOrderCreated, Paying!PayOrderFailed,
         InitialPaymentStatus
<1> DEFINE a == [payReq[r] EXCEPT !.pc = "recording"]
           b == [a EXCEPT !.status = status]
<1>3. payReq'[r] = b
  BY <1>1, <1>2 DEF Paying!PayOrdered, Paying!PayState
<1>4. b \in Paying!PayState
  <2>1. a \in Paying!PayState
    BY <1>1 DEF Paying!PayState, Paying!ActivePcs
  <2> HIDE DEF a
  <2>2. QED
    BY <2>1, SameRows DEF Paying!PayState
<1>5. /\ SameRequest(r)
      /\ payReq'[r].pc = "recording"
      /\ payReq'[r].status = status
  BY <1>1, <1>3 DEF Paying!PayState, SameRequest
<1> HIDE DEF b
<1>6. PayMoved(r)
  BY <1>1, <1>2, <1>3, <1>4 DEF Paying!PayOrdered, PayMoved
<1>7. /\ payReq[r].pc \in Paying!ActivePcs
      /\ UNCHANGED <<live, payments>>
      /\ UNCHANGED orders \/ Paying!OrderMade(r)
  BY DEF Paying!PaySimulated, Paying!PayOrderCreated, Paying!PayOrderFailed,
         Paying!PayOrdered, Paying!environment, Paying!ownTables, Paying!ActivePcs
<1>8. ServiceNext /\ UNCHANGED webhookVars
  BY DEF ServiceNext, ServePay
<1>9. QED
  BY <1>5, <1>6, <1>7, <1>8, WorkingStep

\* The row a request inserts is one of the table, with an order id only of its own.
LEMMA NewRow ==
  ASSUME EInv, NEW r \in PayReqs, payReq[r].pc = "recording"
  PROVE  LET row == Paying!NewPayment(r)
         IN  /\ row \in PaymentRow
             /\ row.decision = payReq[r].decision
             /\ row.merchant = payReq[r].merchant
             /\ row.key = payReq[r].key
             /\ row.status \in InitialPaymentStatus
             /\ row.order \in PayReqs => row.order = r
             /\ row.status = "created" <=> row.order = r
<1>1. ChargeInv(r) /\ Chargeable(r) /\ payReq[r].status \in InitialPaymentStatus
  BY DEF EInv, ChargeInv, Paying!ActivePcs
<1>2. /\ Paying!OrderId(r) \in PayReqs \union {NoOrder, SimOrder}
      /\ Paying!OrderId(r) \in PayReqs => Paying!OrderId(r) = r
      /\ payReq[r].status = "created" <=> Paying!OrderId(r) = r
  <2>1. CASE payReq[r].status = "created"
    BY <2>1 DEF Paying!OrderId
  <2>2. CASE payReq[r].status = "simulated"
    BY <2>2, PaymentRowAssumption DEF Paying!OrderId
  <2>3. CASE payReq[r].status = "failed"
    BY <2>3, PaymentRowAssumption DEF Paying!OrderId
  <2>4. QED
    BY <1>1, <2>1, <2>2, <2>3 DEF InitialPaymentStatus
<1>3. Paying!NewPayment(r) \in PaymentRow
  BY <1>1, <1>2 DEF Paying!NewPayment, Chargeable, PaymentRow, PaymentStatus
<1>4. QED
  BY <1>1, <1>2, <1>3 DEF Paying!NewPayment

\* The insert: the row is the request's, and the request is over.
LEMMA RecordKeeps ==
  ASSUME EInv, NEW r \in PayReqs, ServePay(r), Paying!PayRecord(r)
  PROVE  EInv'
<1> DEFINE row == Paying!NewPayment(r)
<1>1. /\ payReq[r].pc = "recording"
      /\ payments' = [payments EXCEPT ![r] = row]
      /\ UNCHANGED <<live, orders>>
      /\ Paying!PayAnswer(r, 200, FALSE)
  BY DEF Paying!PayRecord, Paying!environment
<1>2. /\ row \in PaymentRow
      /\ row.decision = payReq[r].decision
      /\ row.merchant = payReq[r].merchant
      /\ row.status \in InitialPaymentStatus
  BY <1>1, NewRow
<1>3. PayMoved(r) /\ SameRequest(r) /\ payReq'[r].pc = "answered"
  BY <1>1, PayAnswered DEF EInv
<1>4. ChargeInv(r) /\ Chargeable(r) /\ payments[r] = NoRow
  BY <1>1 DEF EInv, ChargeInv, Paying!ActivePcs
<1>5. ServiceNext /\ UNCHANGED webhookVars
  BY DEF ServiceNext, ServePay
<1>6. Chargeable(r)'
  BY <1>3, <1>4, <1>5, NegotiationSide, ChargeableStays DEF EInv
<1> HIDE DEF row
<1>7. /\ payments' \in [PayReqs -> PaymentRow \union {NoRow}]
      /\ payments'[r] = row
      /\ row # NoRow
      /\ \A q \in PayReqs \ {r} : payments'[q] = payments[q]
  BY <1>1, <1>2, PaymentRowAssumption DEF EInv, OthersTyped
<1>8. orders' \in [PayReqs -> Paying!OrderRow \union {NoRow}]
  BY <1>1 DEF EInv, OthersTyped
<1>9. ChargeInv(r)'
  BY <1>2, <1>3, <1>6, <1>7 DEF ChargeInv, SameRequest
<1>10. QED
  BY <1>1, <1>2, <1>3, <1>4, <1>5, <1>7, <1>8, <1>9, PaymentStep

\* The checks at the head of the handler let an escalated decision through only when
\* an approval is on record.
LEMMA CheckedIsApproved ==
  ASSUME EInv, NEW m \in Merchants, NEW d \in IntentReqs, Paying!CheckCode(m, d) = 200
  PROVE  /\ ScopedRow(decisions, m, d)
         /\ decisions[d].requiresApproval => Approved(d)
         /\ Paying!ChargedAmount(d) \in Amounts
<1>1. /\ ScopedRow(decisions, m, d)
      /\ decisions[d].state \in Paying!Payable
      /\ decisions[d].terms # NoTerms
  BY DEF Paying!CheckCode, Paying!ScopedRow, ScopedRow
<1>2. decisions[d] \in DecisionRow /\ decisions[d] # NoRow
  BY <1>1 DEF EInv, IInv, TypeOK, ScopedRow
<1>3. ASSUME decisions[d].requiresApproval PROVE Approved(d)
  <2>1. decisions[d].state # "PENDING_APPROVAL"
    BY <1>1 DEF Paying!Payable
  <2>2. PICK verdict \in Verdict :
          /\ \E a \in ApprovalReqs : /\ authorizations[a] # NoRow
                                     /\ authorizations[a].decision = d
                                     /\ authorizations[a].new = verdict
          /\ decisions[d].state = ClosedBy(verdict)
    BY <1>2, <1>3, <2>1 DEF EInv, IInv, Inv, StateIsOnRecord
  <2>3. verdict = "APPROVED"
    BY <1>1, <2>2 DEF Paying!Payable, ClosedBy, Verdict
  <2>4. QED
    BY <2>2, <2>3 DEF Approved
<1>4. decisions[d].terms \in Terms
  BY <1>1, <1>2 DEF DecisionRow
<1>5. QED
  BY <1>1, <1>3, <1>4, EconexAssumption DEF Paying!ChargedAmount

\* A request arrives and passes the checks.
LEMMA CheckKeeps ==
  ASSUME EInv, [ServiceNext]_serviceVars, UNCHANGED webhookVars,
         NEW r \in PayReqs, NEW m \in Merchants, NEW d \in IntentReqs, NEW k \in Keys,
         Paying!PayCheck(r, m, d, k)
  PROVE  EInv'
<1> USE DEF Paying!environment, Paying!ownTables
<1>1. /\ ScopedRow(decisions, m, d)
      /\ decisions[d].requiresApproval => Approved(d)
      /\ Paying!ChargedAmount(d) \in Amounts
  BY CheckedIsApproved DEF Paying!PayCheck
<1>2. payReq[r] \in Paying!PayState /\ payReq \in [PayReqs -> Paying!PayState]
  BY DEF EInv, OthersTyped
<1> DEFINE a == [payReq[r] EXCEPT !.pc = "lookup"]
           b == [a EXCEPT !.merchant = m]
           c == [b EXCEPT !.decision = d]
           e == [c EXCEPT !.key = k]
           f == [e EXCEPT !.amount = Paying!ChargedAmount(d)]
<1>3. payReq'[r] = f
  BY <1>2 DEF Paying!PayCheck, Paying!PayState
<1>4. f \in Paying!PayState
  <2>1. a \in Paying!PayState
    BY <1>2 DEF Paying!PayState, Paying!ActivePcs
  <2> HIDE DEF a
  <2>2. b \in Paying!PayState
    BY <2>1 DEF Paying!PayState
  <2> HIDE DEF b
  <2>3. c \in Paying!PayState
    BY <2>2 DEF Paying!PayState
  <2> HIDE DEF c
  <2>4. e \in Paying!PayState
    BY <2>3 DEF Paying!PayState
  <2> HIDE DEF e
  <2>5. QED
    BY <1>1, <2>4 DEF Paying!PayState
<1>5. /\ payReq'[r].pc = "lookup"
      /\ payReq'[r].merchant = m
      /\ payReq'[r].decision = d
      /\ payReq'[r].key = k
      /\ payReq'[r].amount = Paying!ChargedAmount(d)
  BY <1>2, <1>3 DEF Paying!PayState
<1> HIDE DEF f
<1>6. PayMoved(r)
  <2>1. payReq'[r] \in Paying!PayState
    BY <1>3, <1>4
  <2>2. QED
    BY <1>2, <2>1 DEF Paying!PayCheck, PayMoved
<1>7. UNCHANGED <<decisions, live, payments, orders>>
  BY DEF Paying!PayCheck
<1>8. payments[r] = NoRow /\ orders[r] = NoRow
  BY DEF EInv, ChargeInv, Paying!PayCheck
<1>9. Approved(d) => Approved(d)'
  BY NegotiationSide, ApprovalsStay DEF EInv
<1>10. Chargeable(r)'
  <2>1. ScopedRow(decisions', payReq'[r].merchant, payReq'[r].decision)
    BY <1>1, <1>5, <1>7 DEF ScopedRow
  <2>2. decisions'[payReq'[r].decision].requiresApproval => Approved(payReq[r].decision)'
    BY <1>1, <1>5, <1>7, <1>9 DEF Approved
  <2>3. QED
    BY <1>1, <1>5, <2>1, <2>2 DEF Chargeable
<1>11. ChargeInv(r)'
  BY <1>5, <1>7, <1>8, <1>10 DEF ChargeInv
<1>12. QED
  BY <1>6, <1>7, <1>11, PaymentStep DEF EInv, OthersTyped

\* A request that fails a check is answered, and has done nothing.
LEMMA RefuseKeeps ==
  ASSUME EInv, [ServiceNext]_serviceVars, UNCHANGED webhookVars,
         NEW r \in PayReqs, NEW m \in Merchants, NEW d \in IntentReqs, NEW k \in Keys,
         Paying!PayRefuse(r, m, d, k)
  PROVE  EInv'
<1> USE DEF Paying!environment, Paying!ownTables
<1>1. payReq[r] \in Paying!PayState /\ payReq \in [PayReqs -> Paying!PayState]
  BY DEF EInv, OthersTyped
<1>2. Paying!CheckCode(m, d) \in {404, 409, 410}
  BY DEF Paying!PayRefuse, Paying!CheckCode
<1> DEFINE a == [payReq[r] EXCEPT !.pc = "answered"]
           b == [a EXCEPT !.merchant = m]
           c == [b EXCEPT !.decision = d]
           e == [c EXCEPT !.key = k]
           f == [e EXCEPT !.code = Paying!CheckCode(m, d)]
<1>3. payReq'[r] = f
  BY <1>1 DEF Paying!PayRefuse, Paying!PayState
<1>4. f \in Paying!PayState
  <2>1. a \in Paying!PayState
    BY <1>1 DEF Paying!PayState, Paying!Finished
  <2> HIDE DEF a
  <2>2. b \in Paying!PayState
    BY <2>1 DEF Paying!PayState
  <2> HIDE DEF b
  <2>3. c \in Paying!PayState
    BY <2>2 DEF Paying!PayState
  <2> HIDE DEF c
  <2>4. e \in Paying!PayState
    BY <2>3 DEF Paying!PayState
  <2> HIDE DEF e
  <2>5. QED
    BY <1>2, <2>4 DEF Paying!PayState
<1>5. payReq'[r].pc = "answered"
  BY <1>1, <1>3 DEF Paying!PayState
<1> HIDE DEF f
<1>6. PayMoved(r)
  BY <1>1, <1>3, <1>4 DEF Paying!PayRefuse, PayMoved
<1>7. UNCHANGED <<live, payments, orders>>
  BY DEF Paying!PayRefuse
<1>8. payments[r] = NoRow /\ orders[r] = NoRow
  BY DEF EInv, ChargeInv, Paying!PayRefuse
<1>9. ChargeInv(r)'
  BY <1>5, <1>7, <1>8 DEF ChargeInv, Paying!ActivePcs
<1>10. QED
  BY <1>6, <1>7, <1>9, PaymentStep DEF EInv, OthersTyped

\* Every step of a payment handler keeps the invariant.
LEMMA PayStepKeeps ==
  ASSUME EInv, NEW r \in PayReqs, ServePay(r)
  PROVE  EInv'
BY UnbookedKeeps, FreshKeeps, OrderedKeeps, RecordKeeps DEF ServePay, Paying!PayStep

--------------------------------------------------------------------------------
(* The steps of a delivery. *)

\* Of the webhook handlers only this one moves.
HookMoved(h) ==
  /\ hookReq' \in [HookReqs -> Reporting!HookState]
  /\ \A g \in HookReqs \ {h} : hookReq'[g] = hookReq[g]

\* The step of one delivery keeps the invariant if it keeps what holds of the delivery,
\* moves rows in their status only, and audits what it captures.
LEMMA DeliveryStep ==
  ASSUME EInv, [ServiceNext]_serviceVars, UNCHANGED paymentVars,
         NEW h \in HookReqs, HookMoved(h), DeliveryInv(h)', UNCHANGED attempts,
         payments' \in [PayReqs -> PaymentRow \union {NoRow}],
         events' \in [HookReqs -> Reporting!EventRow \union {NoRow}],
         paymentAudit' \in [HookReqs -> Reporting!AuditRow \union {NoRow}],
         \A r \in PayReqs :
           /\ payments'[r] # NoRow <=> payments[r] # NoRow
           /\ payments'[r].order = payments[r].order
           /\ payments'[r].decision = payments[r].decision
           /\ payments'[r].merchant = payments[r].merchant,
         CapturedIsAudited'
  PROVE  EInv'
<1> USE DEF paymentVars, HookMoved
<1>1. [Next]_vars /\ IInv' /\ ExpiryInv'
  BY NegotiationSide
<1>2. OthersTyped'
  BY DEF EInv, OthersTyped
<1>3. ASSUME NEW r \in PayReqs PROVE ChargeInv(r)'
  BY <1>1, RequestStays
<1>4. RowsStay
  BY DEF RowsStay
<1>5. ASSUME NEW g \in HookReqs PROVE DeliveryInv(g)'
  BY <1>4, DeliveryStays
<1>6. QED
  BY <1>1, <1>2, <1>3, <1>5 DEF EInv

\* A delivery that is not over moves, and writes nothing.
LEMMA LookingStep ==
  ASSUME EInv, [ServiceNext]_serviceVars, NEW h \in HookReqs, HookMoved(h),
         hookReq[h].pc # "answered", DeliveryInv(h)',
         UNCHANGED <<payments, paymentVars, attempts, events, paymentAudit>>
  PROVE  EInv'
<1>1. CapturedIsAudited'
  BY DEF EInv, CapturedIsAudited, HookMoved
<1>2. QED
  BY <1>1, DeliveryStep DEF EInv, OthersTyped

\* The service's write to webhooks, as one delivery makes it.
LEMMA ServesHook ==
  ASSUME EInv, NEW h \in HookReqs, ServeHook(h)
  PROVE  /\ ServiceNext
         /\ UNCHANGED paymentVars
         /\ Reporting!HookStep(h)
         /\ hookReq[h] \in Reporting!HookState
         /\ hookReq \in [HookReqs -> Reporting!HookState]
BY DEF ServeHook, ServiceNext, EInv, OthersTyped

\* An answer changes a delivery's pc, its code and its duplicate flag.
LEMMA HookAnswered ==
  ASSUME OthersTyped, NEW h \in HookReqs, NEW code \in {200, 401, 500},
         NEW dup \in BOOLEAN, Reporting!HookAnswer(h, code, dup)
  PROVE  HookMoved(h) /\ hookReq'[h].pc = "answered" /\ DeliveryInv(h)'
<1>1. hookReq[h] \in Reporting!HookState /\ hookReq \in [HookReqs -> Reporting!HookState]
  BY DEF OthersTyped
<1> DEFINE a == [hookReq[h] EXCEPT !.pc = "answered"]
           b == [a EXCEPT !.code = code]
           c == [b EXCEPT !.duplicate = dup]
<1>2. hookReq'[h] = c
  BY <1>1 DEF Reporting!HookAnswer, Reporting!HookState
<1>3. c \in Reporting!HookState
  <2>1. a \in Reporting!HookState
    BY <1>1 DEF Reporting!HookState, Reporting!HookFinished
  <2> HIDE DEF a
  <2>2. b \in Reporting!HookState
    BY <2>1 DEF Reporting!HookState
  <2> HIDE DEF b
  <2>3. QED
    BY <2>2 DEF Reporting!HookState
<1>4. hookReq'[h].pc = "answered"
  BY <1>1, <1>2 DEF Reporting!HookState
<1> HIDE DEF c
<1>5. HookMoved(h)
  BY <1>1, <1>2, <1>3 DEF Reporting!HookAnswer, HookMoved
<1>6. DeliveryInv(h)'
  BY <1>4 DEF DeliveryInv, Reporting!HookPcs
<1>7. QED
  BY <1>4, <1>5, <1>6

\* A duplicate, a clash or a busy lock: answered, and nothing stored.
LEMMA UnstoredKeeps ==
  ASSUME EInv, NEW h \in HookReqs, ServeHook(h),
         Reporting!HookDuplicate(h) \/ Reporting!HookClash(h) \/ Reporting!HookBusy(h)
  PROVE  EInv'
<1>1. PICK code \in {200, 401, 500}, dup \in BOOLEAN : Reporting!HookAnswer(h, code, dup)
  <2>1. CASE Reporting!HookDuplicate(h)
    <3> WITNESS 200 \in {200, 401, 500}, TRUE \in BOOLEAN
    <3> QED
      BY <2>1 DEF Reporting!HookDuplicate
  <2>2. CASE Reporting!HookClash(h)
    <3> WITNESS 500 \in {200, 401, 500}, FALSE \in BOOLEAN
    <3> QED
      BY <2>2 DEF Reporting!HookClash
  <2>3. CASE Reporting!HookBusy(h)
    <3> WITNESS 500 \in {200, 401, 500}, FALSE \in BOOLEAN
    <3> QED
      BY <2>3 DEF Reporting!HookBusy
  <2>4. QED
    BY <2>1, <2>2, <2>3
<1>2. HookMoved(h) /\ DeliveryInv(h)'
  BY <1>1, HookAnswered DEF EInv
<1>3. /\ hookReq[h].pc # "answered"
      /\ UNCHANGED <<payments, attempts, events, paymentAudit>>
  BY DEF Reporting!HookDuplicate, Reporting!HookClash, Reporting!HookBusy, Reporting!tables
<1>4. QED
  BY <1>2, <1>3, ServesHook, LookingStep

\* An event that asks for a status is about an order, and asks for one of two.
LEMMA AskingEvents ==
  ASSUME NEW e \in Reporting!Event, Reporting!TargetOf(e) # "none"
  PROVE  e.order \in PayReqs /\ Reporting!TargetOf(e) \in {"captured", "failed"}
<1>1. e.type \in {"payment.captured", "payment.failed"}
  BY DEF Reporting!TargetOf
<1>2. e \in [type : {"payment.authorized", "payment.captured", "payment.failed"},
             payment : Attempts, order : PayReqs]
  BY <1>1 DEF Reporting!Event
<1>3. Reporting!TargetOf(e) \in {"captured", "failed"}
  BY <1>1 DEF Reporting!TargetOf
<1>4. QED
  BY <1>2, <1>3

\* A new key: the delivery goes on to read the payment, or straight to its row.
LEMMA HookFreshKeeps ==
  ASSUME EInv, NEW h \in HookReqs, ServeHook(h), Reporting!HookFresh(h)
  PROVE  EInv'
<1> DEFINE asks == hookReq[h].valid /\ Reporting!TargetOf(hookReq[h].event) # "none"
           pc == IF asks THEN "reading" ELSE "writing"
<1>1. hookReq[h] \in Reporting!HookState /\ hookReq \in [HookReqs -> Reporting!HookState]
  BY ServesHook
<1>2. hookReq[h].pc = "lookup" /\ hookReq' = [hookReq EXCEPT ![h].pc = pc]
  BY DEF Reporting!HookFresh
<1>3. hookReq'[h] = [hookReq[h] EXCEPT !.pc = pc] /\ pc \in Reporting!HookPcs
  BY <1>1, <1>2 DEF Reporting!HookPcs
<1>4. hookReq'[h] \in Reporting!HookState
  BY <1>1, <1>3 DEF Reporting!HookState
<1>5. /\ hookReq'[h].pc = pc
      /\ hookReq'[h].event = hookReq[h].event
      /\ hookReq'[h].seen = hookReq[h].seen
  BY <1>1, <1>3 DEF Reporting!HookState
<1>6. HookMoved(h)
  BY <1>1, <1>2, <1>4 DEF HookMoved
<1>7. DeliveryInv(h)'
  BY <1>2, <1>5 DEF EInv, DeliveryInv, Reporting!HookPcs
<1>8. UNCHANGED <<payments, attempts, events, paymentAudit>>
  BY DEF Reporting!HookFresh, Reporting!tables
<1>9. QED
  BY <1>2, <1>6, <1>7, <1>8, ServesHook, LookingStep

\* The read: what it sees is the status of a row with the order asked about, or none.
LEMMA HookReadKeeps ==
  ASSUME EInv, NEW h \in HookReqs, ServeHook(h), Reporting!HookRead(h)
  PROVE  EInv'
<1> DEFINE order == hookReq[h].event.order
           seen == Reporting!StatusOf(order)
           a == [hookReq[h] EXCEPT !.pc = "writing"]
           b == [a EXCEPT !.seen = seen]
<1>1. hookReq[h] \in Reporting!HookState /\ hookReq \in [HookReqs -> Reporting!HookState]
  BY ServesHook
<1>2. /\ hookReq[h].pc = "reading"
      /\ hookReq' = [hookReq EXCEPT ![h].pc = "writing", ![h].seen = seen]
  BY DEF Reporting!HookRead
<1>3. order \in PayReqs
  BY <1>2, AskingEvents DEF EInv, DeliveryInv, Reporting!HookPcs
<1>4. /\ seen \in PaymentStatus \union {"none"}
      /\ seen # "none" => payments[order] # NoRow /\ payments[order].order = order
  <2>1. payments[order] # NoRow => payments[order].status \in PaymentStatus
    BY <1>3 DEF EInv, OthersTyped, PaymentRow
  <2>2. QED
    BY <2>1 DEF Reporting!StatusOf
<1> HIDE DEF seen
<1>5. hookReq'[h] = b
  BY <1>1, <1>2 DEF Reporting!HookState
<1>6. b \in Reporting!HookState
  <2>1. a \in Reporting!HookState
    BY <1>1 DEF Reporting!HookState, Reporting!HookPcs
  <2> HIDE DEF a
  <2>2. QED
    BY <1>4, <2>1, SameRows DEF Reporting!HookState
<1>7. /\ hookReq'[h].pc = "writing"
      /\ hookReq'[h].event = hookReq[h].event
      /\ hookReq'[h].seen = seen
  BY <1>1, <1>5 DEF Reporting!HookState
<1> HIDE DEF b
<1>8. HookMoved(h)
  BY <1>1, <1>2, <1>5, <1>6 DEF HookMoved
<1>9. UNCHANGED <<payments, attempts, events, paymentAudit>>
  BY DEF Reporting!HookRead, Reporting!tables
<1>10. DeliveryInv(h)'
  BY <1>2, <1>3, <1>4, <1>7, <1>9 DEF EInv, DeliveryInv, Reporting!HookPcs
<1>11. QED
  BY <1>2, <1>8, <1>9, <1>10, ServesHook, LookingStep

\* What a delivery writes to the payments: a status, on a row it has seen.
LEMMA HookWrites ==
  ASSUME EInv, NEW h \in HookReqs, ServeHook(h), Reporting!HookWrite(h)
  PROVE  LET order == hookReq[h].event.order
             status == Reporting!TargetOf(hookReq[h].event)
         IN  \/ UNCHANGED <<payments, paymentAudit>>
             \/ /\ order \in PayReqs
                /\ status \in {"captured", "failed"}
                /\ payments[order] \in PaymentRow
                /\ payments[order].order = order
                /\ payments' = [payments EXCEPT ![order].status = status]
                /\ paymentAudit' =
                     [paymentAudit EXCEPT ![h] = [payment |-> order, status |-> status]]
<1> DEFINE order == hookReq[h].event.order
           status == Reporting!TargetOf(hookReq[h].event)
<1>1. hookReq[h].pc = "writing" /\ hookReq[h].event \in Reporting!Event
  BY DEF Reporting!HookWrite, EInv, DeliveryInv, Reporting!HookPcs
<1>2. CASE ~Reporting!Transitions(h)
  BY <1>2 DEF Reporting!HookWrite
<1>3. CASE Reporting!Transitions(h)
  <2>1. hookReq[h].seen = "created" /\ status \in {"captured", "failed"}
    BY <1>3 DEF Reporting!Transitions, Reporting!AllowedPaymentTransitions
  <2>2. order \in PayReqs /\ payments[order] # NoRow /\ payments[order].order = order
    BY <1>1, <2>1 DEF EInv, DeliveryInv
  <2>3. payments[order] \in PaymentRow
    BY <2>2 DEF EInv, OthersTyped
  <2>4. /\ payments' = [payments EXCEPT ![order].status = status]
        /\ paymentAudit' =
             [paymentAudit EXCEPT ![h] = [payment |-> order, status |-> status]]
    BY <1>3 DEF Reporting!HookWrite
  <2>5. QED
    BY <2>1, <2>2, <2>3, <2>4
<1>4. QED
  BY <1>2, <1>3

\* A row with another status is a row, and otherwise the same.
LEMMA RowWithStatus ==
  ASSUME NEW row \in PaymentRow, NEW status \in {"captured", "failed"}
  PROVE  LET new == [row EXCEPT !.status = status]
         IN  /\ new \in PaymentRow
             /\ new # NoRow
             /\ new.status = status
             /\ new.order = row.order
             /\ new.decision = row.decision
             /\ new.merchant = row.merchant
<1>1. [row EXCEPT !.status = status] \in PaymentRow
  BY DEF PaymentRow, PaymentStatus, InitialPaymentStatus
<1>2. QED
  BY <1>1, PaymentRowAssumption DEF PaymentRow

\* The write: the status, the audit row and the event together.
LEMMA HookWriteKeeps ==
  ASSUME EInv, NEW h \in HookReqs, ServeHook(h), Reporting!HookWrite(h)
  PROVE  EInv'
<1> DEFINE order == hookReq[h].event.order
           status == Reporting!TargetOf(hookReq[h].event)
<1>1. /\ hookReq[h].pc = "writing"
      /\ hookReq[h].event \in Reporting!Event
      /\ hookReq[h].valid \in BOOLEAN
  BY ServesHook DEF Reporting!HookWrite, EInv, DeliveryInv, Reporting!HookPcs,
                    Reporting!HookState
<1>2. HookMoved(h) /\ hookReq'[h].pc = "answered" /\ DeliveryInv(h)' /\ UNCHANGED attempts
  <2>1. PICK code \in {200, 401, 500}, dup \in BOOLEAN :
          Reporting!HookAnswer(h, code, dup)
    <3>1. CASE hookReq[h].valid
      <4> WITNESS 200 \in {200, 401, 500}, FALSE \in BOOLEAN
      <4> QED
        BY <3>1 DEF Reporting!HookWrite
    <3>2. CASE ~hookReq[h].valid
      <4> WITNESS 401 \in {200, 401, 500}, FALSE \in BOOLEAN
      <4> QED
        BY <3>2 DEF Reporting!HookWrite
    <3>3. QED
      BY <3>1, <3>2
  <2>2. HookMoved(h) /\ hookReq'[h].pc = "answered" /\ DeliveryInv(h)'
    BY <2>1, HookAnswered DEF EInv
  <2>3. UNCHANGED attempts
    BY DEF Reporting!HookWrite
  <2>4. QED
    BY <2>2, <2>3
<1>3. events' \in [HookReqs -> Reporting!EventRow \union {NoRow}]
  <2>1. Reporting!Processed(h) \in BOOLEAN
    BY DEF Reporting!Processed, Reporting!Transitions
  <2>2. [event |-> hookReq[h].event, valid |-> hookReq[h].valid,
         processed |-> Reporting!Processed(h)] \in Reporting!EventRow
    BY <1>1, <2>1 DEF Reporting!EventRow
  <2>3. QED
    BY <2>2 DEF Reporting!HookWrite, EInv, OthersTyped
<1>4. /\ payments \in [PayReqs -> PaymentRow \union {NoRow}]
      /\ paymentAudit \in [HookReqs -> Reporting!AuditRow \union {NoRow}]
  BY DEF EInv, OthersTyped
<1>5. CASE UNCHANGED <<payments, paymentAudit>>
  <2>1. CapturedIsAudited'
    BY <1>1, <1>2, <1>5 DEF EInv, CapturedIsAudited, HookMoved
  <2>2. QED
    BY <1>2, <1>3, <1>4, <1>5, <2>1, ServesHook, DeliveryStep
<1>6. CASE /\ order \in PayReqs
           /\ status \in {"captured", "failed"}
           /\ payments[order] \in PaymentRow
           /\ payments' = [payments EXCEPT ![order].status = status]
           /\ paymentAudit' =
                [paymentAudit EXCEPT ![h] = [payment |-> order, status |-> status]]
  <2> DEFINE new == [payments[order] EXCEPT !.status = status]
  <2>1. /\ new \in PaymentRow
        /\ new # NoRow
        /\ new.status = status
        /\ new.order = payments[order].order
        /\ new.decision = payments[order].decision
        /\ new.merchant = payments[order].merchant
    BY <1>6, RowWithStatus
  <2>2. /\ payments'[order] = new
        /\ \A r \in PayReqs \ {order} : payments'[r] = payments[r]
    BY <1>4, <1>6
  <2>3. payments[order] # NoRow
    BY <1>6, PaymentRowAssumption
  <2>4. payments' = [payments EXCEPT ![order] = new]
    BY <1>6
  <2> HIDE DEF new, order, status
  <2>5. payments' \in [PayReqs -> PaymentRow \union {NoRow}]
    BY <1>4, <2>1, <2>4
  <2>6. /\ paymentAudit'[h] = [payment |-> order, status |-> status]
        /\ \A g \in HookReqs \ {h} : paymentAudit'[g] = paymentAudit[g]
        /\ paymentAudit' \in [HookReqs -> Reporting!AuditRow \union {NoRow}]
    BY <1>4, <1>6 DEF Reporting!AuditRow
  <2>7. CapturedIsAudited'
    <3> SUFFICES ASSUME NEW r \in PayReqs, payments'[r] # NoRow,
                        payments'[r].status = "captured"
                 PROVE  \E g \in HookReqs :
                          /\ hookReq'[g].pc = "answered"
                          /\ paymentAudit'[g] = [payment |-> r, status |-> "captured"]
      BY DEF CapturedIsAudited
    <3>1. CASE r = order
      BY <1>2, <2>1, <2>2, <2>6, <3>1
    <3>2. CASE r # order
      <4>1. PICK g \in HookReqs :
              /\ hookReq[g].pc = "answered"
              /\ paymentAudit[g] = [payment |-> r, status |-> "captured"]
        BY <2>2, <3>2 DEF EInv, CapturedIsAudited
      <4>2. g # h
        BY <1>1, <4>1
      <4>3. QED
        BY <1>2, <2>6, <4>1, <4>2 DEF HookMoved
    <3>3. QED
      BY <3>1, <3>2
  <2>8. \A r \in PayReqs :
          /\ payments'[r] # NoRow <=> payments[r] # NoRow
          /\ payments'[r].order = payments[r].order
          /\ payments'[r].decision = payments[r].decision
          /\ payments'[r].merchant = payments[r].merchant
    BY <2>1, <2>2, <2>3
  <2>9. QED
    BY <1>2, <1>3, <2>5, <2>6, <2>7, <2>8, ServesHook, DeliveryStep
<1>7. QED
  BY <1>5, <1>6, HookWrites

\* Every step of a webhook handler keeps the invariant.
LEMMA HookStepKeeps ==
  ASSUME EInv, NEW h \in HookReqs, ServeHook(h)
  PROVE  EInv'
BY UnstoredKeeps, HookFreshKeeps, HookReadKeeps, HookWriteKeeps
   DEF ServeHook, Reporting!HookStep

\* A delivery arrives with an event.
LEMMA HookArriveKeeps ==
  ASSUME EInv, [ServiceNext]_serviceVars, UNCHANGED paymentVars,
         NEW h \in HookReqs, Reporting!HookArrive(h)
  PROVE  EInv'
<1>1. hookReq[h] \in Reporting!HookState /\ hookReq \in [HookReqs -> Reporting!HookState]
  BY DEF EInv, OthersTyped
<1>2. PICK valid \in BOOLEAN : \E e \in Reporting!Deliverable(valid) :
        hookReq' = [hookReq EXCEPT ![h].pc = "lookup", ![h].event = e, ![h].valid = valid]
  BY DEF Reporting!HookArrive
<1>3. PICK e \in Reporting!Deliverable(valid) :
        hookReq' = [hookReq EXCEPT ![h].pc = "lookup", ![h].event = e, ![h].valid = valid]
  BY <1>2
<1>4. e \in Reporting!Event
  BY DEF Reporting!Deliverable
<1> DEFINE a == [hookReq[h] EXCEPT !.pc = "lookup"]
           b == [a EXCEPT !.event = e]
           c == [b EXCEPT !.valid = valid]
<1>5. hookReq'[h] = c
  BY <1>1, <1>3 DEF Reporting!HookState
<1>6. c \in Reporting!HookState
  <2>1. a \in Reporting!HookState
    BY <1>1 DEF Reporting!HookState, Reporting!HookPcs
  <2> HIDE DEF a
  <2>2. b \in Reporting!HookState
    BY <1>4, <2>1 DEF Reporting!HookState
  <2> HIDE DEF b
  <2>3. QED
    BY <2>2 DEF Reporting!HookState
<1>7. /\ hookReq'[h].pc = "lookup"
      /\ hookReq'[h].event = e
      /\ hookReq'[h].seen = hookReq[h].seen
  BY <1>1, <1>5 DEF Reporting!HookState
<1> HIDE DEF c
<1>8. HookMoved(h)
  BY <1>1, <1>3, <1>5, <1>6 DEF HookMoved
<1>9. /\ hookReq[h].pc = "idle"
      /\ hookReq[h].seen = "none"
      /\ UNCHANGED <<payments, attempts, events, paymentAudit>>
  BY DEF Reporting!HookArrive, Reporting!tables, EInv, DeliveryInv
<1>10. DeliveryInv(h)'
  BY <1>4, <1>7, <1>9 DEF DeliveryInv
<1>11. QED
  BY <1>8, <1>9, <1>10, LookingStep

--------------------------------------------------------------------------------
(* The buyer, Razorpay, and the process. *)

\* An attempt to pay, and its capture, touch nothing of the service.
LEMMA PurchaseKeeps ==
  ASSUME EInv, Purchase
  PROVE  EInv'
<1> DEFINE Attempt == [order : PayReqs \union {NoOrder}, status : Reporting!AttemptStatus]
<1>1. PICK p \in Attempts : Reporting!AttemptMade(p) \/ Reporting!AttemptCaptured(p)
  BY DEF Purchase
<1>2. attempts \in [Attempts -> Attempt]
  BY DEF EInv, OthersTyped
<1>3. attempts' \in [Attempts -> Attempt]
  <2>1. CASE Reporting!AttemptMade(p)
    <3>1. PICK order \in PayReqs, status \in {"authorized", "failed"} :
            attempts' = [attempts EXCEPT ![p] = [order |-> order, status |-> status]]
      BY <2>1 DEF Reporting!AttemptMade
    <3>2. QED
      BY <1>2, <3>1 DEF Reporting!AttemptStatus
  <2>2. CASE Reporting!AttemptCaptured(p)
    <3>1. attempts' = [attempts EXCEPT ![p].status = "captured"] /\ attempts[p] \in Attempt
      BY <1>2, <2>2 DEF Reporting!AttemptCaptured
    <3>2. [attempts[p] EXCEPT !.status = "captured"] \in Attempt
      BY <3>1 DEF Reporting!AttemptStatus
    <3>3. QED
      BY <1>2, <3>1, <3>2
  <2>3. QED
    BY <1>1, <2>1, <2>2
<1>4. UNCHANGED <<payments, paymentVars, events, paymentAudit, hookReq>>
  BY <1>1 DEF Purchase, Reporting!AttemptMade, Reporting!AttemptCaptured, Reporting!tables
<1>5. [Next]_vars /\ IInv' /\ ExpiryInv'
  BY NegotiationSide DEF ServiceNext
<1>6. OthersTyped'
  BY <1>3, <1>4 DEF EInv, OthersTyped, paymentVars
<1>7. ASSUME NEW r \in PayReqs PROVE ChargeInv(r)'
  BY <1>4, <1>5, RequestStays DEF paymentVars
<1>8. ASSUME NEW h \in HookReqs PROVE DeliveryInv(h)'
  BY <1>4, DeliveryStays DEF RowsStay
<1>9. CapturedIsAudited'
  BY <1>4 DEF EInv, CapturedIsAudited
<1>10. QED
  BY <1>5, <1>6, <1>7, <1>8, <1>9 DEF EInv

\* The process dies: rows, orders and events stay, and what was at work is lost.
LEMMA ServerCrashKeeps ==
  ASSUME EInv, ServerCrash
  PROVE  EInv'
<1>1. /\ live' \in BOOLEAN
      /\ UNCHANGED <<payments, orders, attempts, events, paymentAudit>>
  BY DEF ServerCrash
<1>2. ASSUME NEW r \in PayReqs
      PROVE  /\ payReq'[r] \in Paying!PayState
             /\ SameRequest(r)
             /\ \/ payReq'[r] = payReq[r]
                \/ payReq[r].pc \in Paying!ActivePcs /\ payReq'[r].pc = "lost"
  <2>1. payReq'[r] = IF r \in Paying!ActivePays
                     THEN [payReq[r] EXCEPT !.pc = "lost"] ELSE payReq[r]
    BY DEF ServerCrash, Paying!PaysLost
  <2>2. payReq[r] \in Paying!PayState
    BY DEF EInv, OthersTyped
  <2>3. QED
    BY <2>1, <2>2 DEF Paying!PayState, Paying!ActivePays, Paying!Finished, SameRequest
<1>3. ASSUME NEW h \in HookReqs
      PROVE  /\ hookReq'[h] \in Reporting!HookState
             /\ \/ hookReq'[h] = hookReq[h]
                \/ hookReq[h].pc \in Reporting!HookPcs /\ hookReq'[h].pc = "lost"
  <2>1. hookReq'[h] = IF h \in Reporting!ActiveHooks
                      THEN [hookReq[h] EXCEPT !.pc = "lost"] ELSE hookReq[h]
    BY DEF ServerCrash, Reporting!HooksLost
  <2>2. hookReq[h] \in Reporting!HookState
    BY DEF EInv, OthersTyped
  <2>3. QED
    BY <2>1, <2>2 DEF Reporting!HookState, Reporting!ActiveHooks, Reporting!HookFinished
<1>4. payReq' \in [PayReqs -> Paying!PayState]
  BY <1>2 DEF ServerCrash, Paying!PaysLost
<1>5. hookReq' \in [HookReqs -> Reporting!HookState]
  BY <1>3 DEF ServerCrash, Reporting!HooksLost
<1>6. [Next]_vars /\ IInv' /\ ExpiryInv'
  BY NegotiationSide DEF ServiceNext
<1>7. OthersTyped'
  BY <1>1, <1>4, <1>5 DEF EInv, OthersTyped
<1>8. ASSUME NEW r \in PayReqs PROVE ChargeInv(r)'
  <2>1. ChargeInv(r)
    BY DEF EInv
  <2>2. Chargeable(r) => Chargeable(r)'
    BY <1>2, <1>6, ChargeableStays DEF EInv
  <2>3. QED
    BY <1>1, <1>2, <2>1, <2>2 DEF ChargeInv, Paying!ActivePcs, SameRequest
<1>9. ASSUME NEW h \in HookReqs PROVE DeliveryInv(h)'
  <2>1. CASE hookReq'[h] = hookReq[h]
    BY <1>1, <2>1, DeliveryStays DEF RowsStay
  <2>2. CASE hookReq'[h].pc = "lost"
    BY <2>2 DEF DeliveryInv, Reporting!HookPcs
  <2>3. QED
    BY <1>3, <2>1, <2>2
<1>10. CapturedIsAudited'
  BY <1>1, <1>3 DEF EInv, CapturedIsAudited, Reporting!HookPcs
<1>11. QED
  BY <1>6, <1>7, <1>8, <1>9, <1>10 DEF EInv

--------------------------------------------------------------------------------
(* The invariant holds. *)

\* Before the first request nothing is stored and nothing is at work.
LEMMA InitEInv == ServiceInit => EInv
<1> SUFFICES ASSUME ServiceInit PROVE EInv
  OBVIOUS
<1> USE DEF ServiceInit
<1>1. IInv
  BY InitIInv
<1>2. OthersTyped
  BY DEF Paying!Init, Reporting!HookInit, OthersTyped, Paying!PayState,
         Reporting!HookState, Reporting!NoHook, Reporting!AttemptStatus
<1>3. ExpiryInv
  BY NegotiationAssumption DEF Init, ExpiryInv
<1>4. ASSUME NEW r \in PayReqs PROVE ChargeInv(r)
  BY DEF Paying!Init, ChargeInv, Paying!ActivePcs
<1>5. ASSUME NEW h \in HookReqs PROVE DeliveryInv(h)
  BY DEF Reporting!HookInit, Reporting!NoHook, DeliveryInv, Reporting!HookPcs
<1>6. CapturedIsAudited
  BY DEF Paying!Init, CapturedIsAudited
<1>7. QED
  BY <1>1, <1>2, <1>3, <1>4, <1>5, <1>6 DEF EInv

\* Every step of the service keeps the invariant.
LEMMA NextEInv == EInv /\ [ServiceNext]_serviceVars => EInv'
<1> SUFFICES ASSUME EInv, [ServiceNext]_serviceVars PROVE EInv'
  OBVIOUS
<1>1. CASE Arrive
  <2>1. CASE Alone
    BY <2>1, QuietStep DEF Alone
  <2>2. ASSUME NEW r \in PayReqs, Paying!PayArrive(r), UNCHANGED webhookVars
        PROVE  EInv'
    BY <2>2, CheckKeeps, RefuseKeeps DEF Paying!PayArrive
  <2>3. ASSUME NEW h \in HookReqs, Reporting!HookArrive(h), UNCHANGED paymentVars
        PROVE  EInv'
    BY <2>3, HookArriveKeeps
  <2>4. QED
    BY <1>1, <2>1, <2>2, <2>3 DEF Arrive
<1>2. ASSUME NEW i \in IntentReqs, ServeIntent(i) PROVE EInv'
  BY <1>2, QuietStep DEF ServeIntent, Alone
<1>3. ASSUME NEW a \in ApprovalReqs, ServeApproval(a) PROVE EInv'
  BY <1>3, QuietStep DEF ServeApproval, Alone
<1>4. ASSUME NEW r \in PayReqs, ServePay(r) PROVE EInv'
  BY <1>4, PayStepKeeps
<1>5. ASSUME NEW h \in HookReqs, ServeHook(h) PROVE EInv'
  BY <1>5, HookStepKeeps
<1>6. CASE Purchase
  BY <1>6, PurchaseKeeps
<1>7. CASE ServerCrash
  BY <1>7, ServerCrashKeeps
<1>8. CASE ClockTick
  BY <1>8, QuietStep DEF ClockTick, Alone
<1>9. CASE ServiceQuiescent \/ UNCHANGED serviceVars
  BY <1>9, QuietStep DEF ServiceQuiescent, serviceVars
<1>10. QED
  BY <1>1, <1>2, <1>3, <1>4, <1>5, <1>6, <1>7, <1>8, <1>9 DEF ServiceNext

\* EInv holds in every reachable state of the service.
THEOREM ServiceEInv == ServiceSpec => []EInv
<1>1. QED
  BY InitEInv, NextEInv, PTL DEF ServiceSpec

--------------------------------------------------------------------------------
(* The properties of the service. *)

\* Every component's variables hold values of their kind, whatever the others do.
THEOREM ServiceTypeCorrect == ServiceSpec => []ServiceTypeOK
<1>1. EInv => ServiceTypeOK
  BY TypesTogether DEF EInv, IInv
<1>2. QED
  BY <1>1, ServiceEInv, PTL

\* No order is made and no payment booked for an escalated decision without an approval
\* of its merchant on record.
THEOREM NoChargeUnapproved == ServiceSpec => []NoChargeBeforeApproval
<1>1. EInv => NoChargeBeforeApproval
  BY DEF EInv, ChargeInv, Chargeable, NoChargeBeforeApproval
<1>2. QED
  BY <1>1, ServiceEInv, PTL

\* Behind every captured payment there are its audit row, the full audit trail of the
\* negotiation, its merchant's decision and, if there had to be one, the approval.
THEOREM CapturesAreTraceable == ServiceSpec => []CapturedIsTraceable
<1>1. EInv => CapturedIsTraceable
  <2> SUFFICES ASSUME EInv, NEW r \in PayReqs, payments[r] # NoRow,
                      payments[r].status = "captured"
               PROVE  LET d == payments[r].decision
                      IN  /\ \E h \in HookReqs :
                               paymentAudit[h] = [payment |-> r, status |-> "captured"]
                          /\ audits[d] = Stages
                          /\ decisions[d].merchant = payments[r].merchant
                          /\ decisions[d].requiresApproval => Approved(d)
    BY DEF CapturedIsTraceable
  <2>1. \E h \in HookReqs : paymentAudit[h] = [payment |-> r, status |-> "captured"]
    BY DEF EInv, CapturedIsAudited
  <2>2. /\ Chargeable(r)
        /\ payments[r].decision = payReq[r].decision
        /\ payments[r].merchant = payReq[r].merchant
    BY DEF EInv, ChargeInv
  <2>3. audits[payments[r].decision] = Stages
    BY <2>2 DEF Chargeable, ScopedRow, EInv, IInv, Inv, IntentIsAtomic
  <2>4. QED
    BY <2>1, <2>2, <2>3 DEF Chargeable, ScopedRow
<1>2. QED
  BY <1>1, ServiceEInv, PTL

--------------------------------------------------------------------------------
(* The service implements each of its components. *)

\* Seen through the variables of Negotiation, the service behaves as Negotiation, so
\* that what NegotiationProofs proves holds of it.
THEOREM NegotiatesThere == ServiceSpec => NegotiatesInContext
<1>1. ServiceInit => Init
  BY DEF ServiceInit
<1>2. EInv /\ [ServiceNext]_serviceVars => [Next]_vars
  BY NegotiationSide
<1>3. QED
  BY <1>1, <1>2, ServiceEInv, PTL DEF ServiceSpec, NegotiatesInContext, Spec

\* A commit publishes a legal row, within the bounds of the clock, and frees the lock.
LEMMA CommitPublishes ==
  ASSUME EInv, NEW i \in IntentReqs, IntentCommit(i), Alone
  PROVE  Paying!DecisionPublished(i)
<1>1. /\ txn # NoRow /\ txn.by = i
      /\ LegalRow(txn.decision)
      /\ txn.decision.expiresAt <= MaxTime + OfferTtl
      /\ intentReq[i].pc = "committing"
  BY Owner DEF IntentCommit, InTransaction, EInv, IInv, TxnInv, ExpiryInv
<1>2. txn.decision \in DecisionRow
  BY <1>1 DEF LegalRow
<1> DEFINE row == txn.decision
<1>3. /\ row.merchant \in Merchants
      /\ row.terms \in Terms \union {NoTerms}
      /\ row.requiresApproval \in BOOLEAN
      /\ row.state \in Paying!NegotiationState
      /\ row.expiresAt \in 0 .. (MaxTime + OfferTtl)
      /\ row = [merchant |-> row.merchant, terms |-> row.terms,
                requiresApproval |-> row.requiresApproval, state |-> row.state,
                expiresAt |-> row.expiresAt]
  BY <1>1, <1>2, NegotiationAssumption DEF DecisionRow, NegotiationState, Paying!NegotiationState
<1>4. Paying!LegalRow(row)
  BY <1>1, SameRows DEF LegalRow, Paying!LegalRow
<1>5. decisions' = [decisions EXCEPT ![i] = row] /\ lockFree'
  BY DEF IntentCommit, lockFree, LockFree
<1>6. decisions[i] = NoRow
  BY Published DEF EInv, Ledger!Publish
<1>7. UNCHANGED <<now, live, Paying!ownTables, payReq>>
  BY DEF IntentCommit, Alone, paymentVars, Paying!ownTables
<1> HIDE DEF row
<1>8. QED
  BY <1>3, <1>4, <1>5, <1>6, <1>7 DEF Paying!DecisionPublished

\* An approval rules on an escalated decision, and leaves the lock as it was.
LEMMA WriteRules ==
  ASSUME EInv, NEW a \in ApprovalReqs, ApprovalWrite(a), Alone
  PROVE  \E d \in IntentReqs : Paying!DecisionRuled(d)
<1>1. /\ approvalReq[a].decision \in IntentReqs
      /\ approvalReq[a].verdict \in Verdict
      /\ decisions[approvalReq[a].decision] # NoRow
      /\ decisions[approvalReq[a].decision].requiresApproval
  BY Ruled DEF EInv, Ledger!Rule
<1>2. decisions' = [decisions EXCEPT ![approvalReq[a].decision].state =
                      Paying!ClosedBy(approvalReq[a].verdict)]
  BY DEF ApprovalWrite, ClosedBy, Paying!ClosedBy
<1>3. approvalReq[a].verdict \in Paying!Verdict
  BY <1>1 DEF Verdict, Paying!Verdict
<1>4. UNCHANGED <<now, lockFree, live, Paying!ownTables, payReq>>
  BY DEF ApprovalWrite, Alone, paymentVars, Paying!ownTables, lockFree, LockFree
<1>5. QED
  BY <1>1, <1>2, <1>3, <1>4 DEF Paying!DecisionRuled

\* Any other step of an intent or an approval at most takes the lock or frees it.
LEMMA OthersMoveLock ==
  ASSUME EInv,
         \/ \E i \in IntentReqs : /\ IntentStep(i) /\ ~IntentCommit(i)
         \/ \E i \in IntentReqs, m \in Merchants : IntentArrive(i, m)
         \/ \E a \in ApprovalReqs : ApprovalArrive(a)
         \/ \E a \in ApprovalReqs : ApprovalBusy(a)
  PROVE  UNCHANGED <<now, decisions>>
<1>1. ASSUME NEW i \in IntentReqs, IntentStep(i), ~IntentCommit(i)
      PROVE  UNCHANGED <<now, decisions>>
  <2>1. CASE IntentRefuse(i) \/ IntentOpen(i) \/ IntentBusy(i)
    BY <2>1 DEF IntentRefuse, IntentOpen, IntentBusy, tables
  <2>2. CASE IntentPropose(i) \/ IntentFail(i)
    BY <2>2 DEF IntentPropose, IntentFail, tables
  <2>3. ASSUME NEW outcome \in Outcome, IntentDecide(i, outcome)
        PROVE  UNCHANGED <<now, decisions>>
    BY <2>3 DEF IntentDecide, tables
  <2>4. QED
    BY <1>1, <2>1, <2>2, <2>3 DEF IntentStep
<1>2. ASSUME NEW i \in IntentReqs, NEW m \in Merchants, IntentArrive(i, m)
      PROVE  UNCHANGED <<now, decisions>>
  BY <1>2 DEF IntentArrive, tables
<1>3. ASSUME NEW a \in ApprovalReqs, ApprovalArrive(a) \/ ApprovalBusy(a)
      PROVE  UNCHANGED <<now, decisions>>
  <2>1. CASE ApprovalArrive(a)
    BY <2>1 DEF ApprovalArrive, ApprovalUnknown, ApprovalConflict, ApprovalCheck, tables
  <2>2. CASE ApprovalBusy(a)
    BY <2>2 DEF ApprovalBusy, tables
  <2>3. QED
    BY <1>3, <2>1, <2>2
<1>4. QED
  BY <1>1, <1>2, <1>3

\* The lock is free, or it is not.
LEMMA LockIsBoolean == lockFree \in BOOLEAN /\ lockFree' \in BOOLEAN
BY DEF lockFree, LockFree

\* Every step of the service is a step of Payments, or none of it.
LEMMA PaymentsSeen ==
  ASSUME EInv, [ServiceNext]_serviceVars
  PROVE  [Paying!Next]_(Paying!vars)
<1> USE DEF Paying!environment, Paying!ownTables, paymentVars
<1> HIDE DEF lockFree
<1>1. ASSUME UNCHANGED <<now, decisions, payments, paymentVars>>
      PROVE  [Paying!Next]_(Paying!vars)
  <2>1. CASE lockFree' = lockFree
    BY <1>1, <2>1 DEF Paying!vars
  <2>2. CASE lockFree' # lockFree
    <3>1. lockFree' = ~lockFree
      BY <2>2, LockIsBoolean
    <3>2. Paying!LockMoves
      BY <1>1, <3>1 DEF Paying!LockMoves
    <3>3. QED
      BY <3>2 DEF Paying!Next, Paying!OtherHandlers
  <2>3. QED
    BY <2>1, <2>2
<1>2. CASE Arrive
  <2>1. CASE /\ \/ \E i \in IntentReqs, m \in Merchants : IntentArrive(i, m)
                \/ \E a \in ApprovalReqs : ApprovalArrive(a)
             /\ Alone
    <3>1. UNCHANGED <<now, decisions>>
      BY <2>1, OthersMoveLock
    <3>2. QED
      BY <1>1, <2>1, <3>1 DEF Alone
  <2>2. ASSUME NEW r \in PayReqs, Paying!PayArrive(r)
        PROVE  Paying!Next
    BY <2>2 DEF Paying!Next
  <2>3. ASSUME UNCHANGED <<now, decisions, paymentVars>>,
               NEW h \in HookReqs, Reporting!HookArrive(h)
        PROVE  [Paying!Next]_(Paying!vars)
    BY <1>1, <2>3 DEF Reporting!HookArrive, Reporting!tables
  <2>4. QED
    BY <1>2, <2>1, <2>2, <2>3 DEF Arrive
<1>3. ASSUME NEW i \in IntentReqs, ServeIntent(i)
      PROVE  [Paying!Next]_(Paying!vars)
  <2>1. CASE IntentCommit(i)
    BY <1>3, <2>1, CommitPublishes DEF ServeIntent, Paying!Next, Paying!OtherHandlers
  <2>2. CASE ~IntentCommit(i)
    <3>1. UNCHANGED <<now, decisions>>
      BY <1>3, <2>2, OthersMoveLock DEF ServeIntent
    <3>2. QED
      BY <1>1, <1>3, <3>1 DEF ServeIntent, Alone
  <2>3. QED
    BY <2>1, <2>2
<1>4. ASSUME NEW a \in ApprovalReqs, ServeApproval(a)
      PROVE  [Paying!Next]_(Paying!vars)
  <2>1. CASE ApprovalWrite(a)
    BY <1>4, <2>1, WriteRules DEF ServeApproval, Paying!Next, Paying!OtherHandlers
  <2>2. CASE ApprovalBusy(a)
    <3>1. UNCHANGED <<now, decisions>>
      BY <2>2, OthersMoveLock
    <3>2. QED
      BY <1>1, <1>4, <3>1 DEF ServeApproval, Alone
  <2>3. QED
    BY <1>4, <2>1, <2>2 DEF ServeApproval, ApprovalStep
<1>5. ASSUME NEW r \in PayReqs, ServePay(r)
      PROVE  Paying!Next
  BY <1>5 DEF ServePay, Paying!Next
<1>6. ASSUME NEW h \in HookReqs, ServeHook(h)
      PROVE  [Paying!Next]_(Paying!vars)
  <2>1. UNCHANGED <<now, decisions, paymentVars, txn>>
    BY <1>6 DEF ServeHook, negotiationVars
  <2>2. UNCHANGED lockFree
    BY <2>1 DEF lockFree, LockFree
  <2>3. CASE UNCHANGED payments
    BY <1>1, <2>1, <2>3
  <2>4. CASE Reporting!HookWrite(h)
    <3> DEFINE order == hookReq[h].event.order
               status == Reporting!TargetOf(hookReq[h].event)
    <3>1. CASE /\ order \in PayReqs
               /\ status \in {"captured", "failed"}
               /\ payments[order] \in PaymentRow
               /\ payments[order].order = order
               /\ payments' = [payments EXCEPT ![order].status = status]
      <4>1. payments[order] # NoRow
        BY <3>1, PaymentRowAssumption
      <4> HIDE DEF order, status
      <4>2. Paying!PaymentSettled(order)
        BY <2>1, <2>2, <3>1, <4>1 DEF Paying!PaymentSettled
      <4>3. QED
        BY <3>1, <4>2 DEF Paying!Next, Paying!OtherHandlers
    <3>2. QED
      BY <1>6, <2>3, <2>4, <3>1, HookWrites
  <2>5. CASE ~Reporting!HookWrite(h)
    BY <1>6, <2>3, <2>5
       DEF ServeHook, Reporting!HookStep, Reporting!HookDuplicate, Reporting!HookFresh,
           Reporting!HookRead, Reporting!HookClash, Reporting!HookBusy, Reporting!tables
  <2>6. QED
    BY <2>4, <2>5
<1>7. CASE Purchase
  BY <1>1, <1>7 DEF Purchase, Reporting!AttemptMade, Reporting!AttemptCaptured,
                    Reporting!tables
<1>8. CASE ServerCrash
  <2>1. lockFree' = TRUE /\ UNCHANGED <<now, decisions>>
    BY <1>8 DEF ServerCrash, RequestsLost, tables, lockFree, LockFree
  <2>2. Paying!Crash
    BY <1>8, <2>1 DEF ServerCrash, Paying!Crash
  <2>3. QED
    BY <2>2 DEF Paying!Next
<1>9. CASE ClockTick
  <2>1. UNCHANGED lockFree
    BY <1>9 DEF ClockTick, Tick, lockFree, LockFree
  <2>2. Paying!Tick
    BY <1>9, <2>1 DEF ClockTick, Tick, tables, Alone, Paying!Tick
  <2>3. QED
    BY <2>2 DEF Paying!Next
<1>10. CASE ServiceQuiescent \/ UNCHANGED serviceVars
  BY <1>1, <1>10 DEF ServiceQuiescent, serviceVars
<1>11. QED
  BY <1>2, <1>3, <1>4, <1>5, <1>6, <1>7, <1>8, <1>9, <1>10 DEF ServiceNext

\* Seen through the variables of Payments, the service behaves as Payments with its
\* environment: decisions are published and ruled on, and payments settled, only in the
\* ways Payments allows for.
THEOREM PaysThere == ServiceSpec => PaysInContext
<1>1. ServiceInit => Paying!Init
  BY DEF ServiceInit
<1>2. EInv /\ [ServiceNext]_serviceVars => [Paying!Next]_(Paying!vars)
  BY PaymentsSeen
<1>3. QED
  BY <1>1, <1>2, ServiceEInv, PTL DEF ServiceSpec, PaysInContext, Paying!Spec

\* Every step of the service is a step of Webhooks, or none of it.
LEMMA WebhooksSeen ==
  ASSUME EInv, [ServiceNext]_serviceVars
  PROVE  [Reporting!Next]_(Reporting!vars)
<1> USE DEF Reporting!tables, webhookVars
<1> HIDE DEF lockFree
<1>1. ASSUME UNCHANGED <<payments, webhookVars>>
      PROVE  [Reporting!Next]_(Reporting!vars)
  <2>1. CASE lockFree' = lockFree
    BY <1>1, <2>1 DEF Reporting!vars
  <2>2. CASE lockFree' # lockFree
    <3>1. lockFree' = ~lockFree
      BY <2>2, LockIsBoolean
    <3>2. Reporting!LockMoves
      BY <1>1, <3>1 DEF Reporting!LockMoves
    <3>3. QED
      BY <3>2 DEF Reporting!Next
  <2>3. QED
    BY <2>1, <2>2
<1>2. CASE Alone
  BY <1>1, <1>2 DEF Alone
<1>3. ASSUME NEW r \in PayReqs, Paying!PayArrive(r), UNCHANGED webhookVars
      PROVE  [Reporting!Next]_(Reporting!vars)
  BY <1>1, <1>3 DEF Paying!PayArrive, Paying!PayCheck, Paying!PayRefuse, Paying!ownTables
<1>4. ASSUME NEW h \in HookReqs, Reporting!HookArrive(h) \/ Reporting!HookStep(h)
      PROVE  Reporting!Next
  BY <1>4 DEF Reporting!Next
<1>5. ASSUME NEW r \in PayReqs, ServePay(r)
      PROVE  [Reporting!Next]_(Reporting!vars)
  <2>1. CASE Paying!PayRecord(r)
    <3> DEFINE row == Paying!NewPayment(r)
    <3>1. /\ payReq[r].pc = "recording"
          /\ ~Paying!KeyTaken(payReq[r].key)
          /\ payments' = [payments EXCEPT ![r] = row]
          /\ UNCHANGED lockFree
      BY <2>1 DEF Paying!PayRecord, Paying!environment
    <3>2. /\ row \in Reporting!PaymentRow
          /\ row.key = payReq[r].key
          /\ row.status \in Reporting!InitialPaymentStatus
          /\ row.order \in PayReqs => row.order = r
          /\ row.status = "created" <=> row.order = r
      BY <3>1, NewRow, SameRows
    <3>3. payments[r] = NoRow
      BY <3>1 DEF EInv, ChargeInv
    <3> HIDE DEF row
    <3>4. \A q \in PayReqs : payments[q] # NoRow => payments[q].key # row.key
      BY <3>1, <3>2 DEF Paying!KeyTaken
    <3>5. UNCHANGED <<events, paymentAudit, attempts, hookReq>>
      BY <1>5 DEF ServePay
    <3>6. Reporting!PaymentInserted(r)
      BY <3>1, <3>2, <3>3, <3>4, <3>5 DEF Reporting!PaymentInserted
    <3>7. QED
      BY <3>6 DEF Reporting!Next
  <2>2. CASE ~Paying!PayRecord(r)
    <3>1. UNCHANGED payments
      BY <1>5, <2>2
         DEF ServePay, Paying!PayStep, Paying!PayDuplicate, Paying!PayFresh,
             Paying!PayNothingToCharge, Paying!PaySimulated, Paying!PayOrderCreated,
             Paying!PayOrderFailed, Paying!PayOrderRaises, Paying!PayClash,
             Paying!PayBusy, Paying!ownTables
    <3>2. QED
      BY <1>1, <1>5, <3>1 DEF ServePay
  <2>3. QED
    BY <2>1, <2>2
<1>6. CASE Purchase
  BY <1>6 DEF Purchase, Reporting!Next
<1>7. CASE ServerCrash
  <2>1. lockFree' = TRUE
    BY <1>7 DEF ServerCrash, RequestsLost, lockFree, LockFree
  <2>2. Reporting!Crash
    BY <1>7, <2>1 DEF ServerCrash, Reporting!Crash
  <2>3. QED
    BY <2>2 DEF Reporting!Next
<1>8. CASE ServiceQuiescent \/ UNCHANGED serviceVars
  BY <1>1, <1>8 DEF ServiceQuiescent, serviceVars
<1>9. QED
  BY <1>2, <1>3, <1>4, <1>5, <1>6, <1>7, <1>8
     DEF ServiceNext, Arrive, ServeIntent, ServeApproval, ServeHook, ClockTick

\* Seen through the variables of Webhooks, the service behaves as Webhooks with its
\* environment: payments are inserted only in the way Webhooks allows for.
THEOREM ReportsThere == ServiceSpec => ReportsInContext
<1>1. ServiceInit => Reporting!Init
  BY DEF ServiceInit, Paying!Init, Reporting!Init
<1>2. EInv /\ [ServiceNext]_serviceVars => [Reporting!Next]_(Reporting!vars)
  BY WebhooksSeen
<1>3. QED
  BY <1>1, <1>2, ServiceEInv, PTL DEF ServiceSpec, ReportsInContext, Reporting!Spec

================================================================================
