--------------------------------- MODULE Econex ---------------------------------
(***************************************************************************)
(* The whole service: intents, approvals, payments and webhooks of one     *)
(* server process over one SQLite file, with the client, Razorpay and the  *)
(* buyer around it.  The handlers share the tables, the clock and the      *)
(* write lock, which an intent request holds from its first INSERT to its  *)
(* commit, across the LLM call; and they die together.  The negotiation    *)
(* side owns the clock, the decisions and the lock: its module is          *)
(* extended; payments and webhooks are instances over the same variables.  *)
(***************************************************************************)
EXTENDS Negotiation, PaymentTable, Integers

CONSTANTS HookReqs, Attempts, NoId

VARIABLES
  live, payments, orders, payReq,
  attempts, events, paymentAudit, hookReq

lockFree == LockFree

Paying == INSTANCE Payments
Reporting == INSTANCE Webhooks

ASSUME EconexAssumption ==
  /\ Terms \subseteq [price : Int, quantity : Int]
  /\ \A terms \in Terms : Paying!Amount(terms) \in Amounts
  /\ NoId \notin Attempts
  /\ NoRow \notin Paying!OrderRow \union Reporting!EventRow \union Reporting!AuditRow

negotiationVars == <<sessions, audits, authorizations, txn, intentReq, approvalReq>>
paymentVars == <<live, orders, payReq>>
webhookVars == <<attempts, events, paymentAudit, hookReq>>
serviceVars == <<now, decisions, payments, negotiationVars, paymentVars, webhookVars>>

ServiceInit == Init /\ Paying!Init /\ Reporting!HookInit

--------------------------------------------------------------------------------
(* Each handler's step, with the rest of the system at rest. *)

Alone == UNCHANGED <<payments, paymentVars, webhookVars>>

ServeIntent(i) == IntentStep(i) /\ Alone
ServeApproval(a) == ApprovalStep(a) /\ Alone

ServePay(r) == UNCHANGED <<negotiationVars, webhookVars>> /\ Paying!PayStep(r)

ServeHook(h) ==
  UNCHANGED <<now, decisions, negotiationVars, paymentVars>> /\ Reporting!HookStep(h)

\* New requests and deliveries.
Arrive ==
  \/ /\ \/ \E i \in IntentReqs, m \in Merchants : IntentArrive(i, m)
        \/ \E a \in ApprovalReqs : ApprovalArrive(a)
     /\ Alone
  \/ /\ UNCHANGED <<negotiationVars, webhookVars>>
     /\ \E r \in PayReqs : Paying!PayArrive(r)
  \/ /\ UNCHANGED <<now, decisions, negotiationVars, paymentVars>>
     /\ \E h \in HookReqs : Reporting!HookArrive(h)

\* The buyer and Razorpay.
Purchase ==
  /\ UNCHANGED <<now, decisions, negotiationVars, paymentVars>>
  /\ \E p \in Attempts : Reporting!AttemptMade(p) \/ Reporting!AttemptCaptured(p)

\* Mutant: the dead process's transaction is not rolled back.
ServerCrashKeepsLock ==
  /\ ActiveIntents # {}
  /\ intentReq' = [i \in IntentReqs |->
                     IF i \in ActiveIntents
                     THEN [intentReq[i] EXCEPT !.pc = "lost"] ELSE intentReq[i]]
  /\ UNCHANGED <<now, tables, txn, approvalReq, payments, paymentVars, webhookVars>>

\* The process dies with everything in flight and is started again, with or without
\* Razorpay credentials.
ServerCrash ==
  /\ \/ ActiveIntents # {}
     \/ ActiveApprovals # {}
     \/ Paying!ActivePays # {}
     \/ Reporting!ActiveHooks # {}
  /\ RequestsLost
  /\ Paying!PaysLost
  /\ Reporting!HooksLost
  /\ live' \in BOOLEAN
  /\ UNCHANGED <<now, payments, orders, attempts, events, paymentAudit>>

ClockTick == Tick /\ Alone

\* Nothing is left to do within the bounds: the server idles on.
ServiceQuiescent ==
  /\ \A i \in IntentReqs : intentReq[i].pc \in Finished
  /\ \A a \in ApprovalReqs : approvalReq[a].pc \in Finished
  /\ \A r \in PayReqs : payReq[r].pc \in Paying!Finished
  /\ \A h \in HookReqs : hookReq[h].pc \in Reporting!HookFinished
  /\ now = MaxTime
  /\ UNCHANGED serviceVars

ServiceNext ==
  \/ Arrive
  \/ \E i \in IntentReqs : ServeIntent(i)
  \/ \E a \in ApprovalReqs : ServeApproval(a)
  \/ \E r \in PayReqs : ServePay(r)
  \/ \E h \in HookReqs : ServeHook(h)
  \/ Purchase
  \/ ServerCrash
  \/ ClockTick
  \/ ServiceQuiescent

ServiceSpec == ServiceInit /\ [][ServiceNext]_serviceVars

\* A handler that can run does: its thread is scheduled, the LLM and the Razorpay
\* call end (15 seconds), a wait for the lock ends with it or without (5 seconds).
\* Nothing obliges a client, the buyer or Razorpay to act, the process to die or
\* the clock to move.
Fairness ==
  /\ \A i \in IntentReqs : WF_serviceVars(ServeIntent(i))
  /\ \A a \in ApprovalReqs : WF_serviceVars(ServeApproval(a))
  /\ \A r \in PayReqs : WF_serviceVars(ServePay(r))
  /\ \A h \in HookReqs : WF_serviceVars(ServeHook(h))

FairServiceSpec == ServiceSpec /\ Fairness

--------------------------------------------------------------------------------
(* Properties. *)

\* The composition leaves every component's variables well typed.
ServiceTypeOK == TypeOK /\ Paying!TypeOK /\ Reporting!TypeOK

\* What each component assumes of the others is what they do: the composed system,
\* seen through the variables of one component, is a behaviour of that component.
NegotiatesInContext == Spec
PaysInContext == Paying!Spec
ReportsInContext == Reporting!Spec

Approved(d) ==
  \E a \in ApprovalReqs : /\ authorizations[a] # NoRow
                          /\ authorizations[a].decision = d
                          /\ authorizations[a].new = "APPROVED"

\* The approval gate, end to end: no Razorpay order exists and no payment row is
\* written for an escalated decision that its merchant has not approved, however
\* approvals, retries, crashes and the payment handler interleave.
NoChargeBeforeApproval ==
  \A r \in PayReqs :
    orders[r] # NoRow \/ payments[r] # NoRow =>
      LET d == payReq[r].decision
      IN  decisions[d].requiresApproval => Approved(d)

\* Money received can be traced back: a captured payment has its signed event and its
\* audit row, belongs to the merchant of a committed decision with the full audit
\* trail of its session, and an approval if the decision needed one.
CapturedIsTraceable ==
  \A r \in PayReqs :
    payments[r] # NoRow /\ payments[r].status = "captured" =>
      LET d == payments[r].decision
      IN  /\ \E h \in HookReqs : paymentAudit[h] = [payment |-> r, status |-> "captured"]
          /\ audits[d] = Stages
          /\ decisions[d].merchant = payments[r].merchant
          /\ decisions[d].requiresApproval => Approved(d)

\* What Sale speaks of: what a decision froze, and what an order at Razorpay is for.
Frozen(d) ==
  IF decisions[d] = NoRow THEN NoRow
  ELSE [merchant |-> decisions[d].merchant, terms |-> decisions[d].terms,
        gated |-> decisions[d].requiresApproval]

Ordered(r) ==
  IF orders[r] = NoRow THEN NoRow
  ELSE [decision |-> payReq[r].decision, amount |-> orders[r].amount]

\* From the offer to the money: what is ordered, booked and settled, by whatever requests
\* and deliveries, is a sale of frozen terms that was cleared before it was charged, for
\* its own amount and merchant, and captured on the books only if it was paid.
Selling == INSTANCE Sale WITH
  deals <- [d \in IntentReqs |-> Frozen(d)],
  approved <- {d \in IntentReqs : Approved(d)},
  orders <- [r \in PayReqs |-> Ordered(r)]
ImplementsSale == Selling!SaleSpec

\* So a payment marked captured is money that is owed: paid, on an order for what its
\* cleared decision froze, to the merchant of that decision.
CapturedIsOwed == Selling!CapturedIsOwed

\* Every request and delivery the server has taken on is answered or lost with the
\* process, whatever holds the lock: no handler is at work for ever.
EveryRequestEnds ==
  /\ \A i \in IntentReqs : []<>(i \notin ActiveIntents)
  /\ \A a \in ApprovalReqs : []<>(a \notin ActiveApprovals)
  /\ \A r \in PayReqs : []<>(r \notin Paying!ActivePays)
  /\ \A h \in HookReqs : []<>(h \notin Reporting!ActiveHooks)

\* docs/SECURITY.md:19-20: the payment handler "verifies the frozen offer hasn't
\* expired (expires_at, 15-minute default from authorization)": an approved offer is
\* refused as expired only later than that after its approval.
ExpiryRunsFromAuthorization ==
  \A r \in PayReqs, a \in ApprovalReqs :
    /\ payReq[r].code = 410
    /\ authorizations[a] # NoRow
    /\ authorizations[a].decision = payReq[r].decision
    /\ authorizations[a].new = "APPROVED"
    => now > authorizations[a].at + OfferTtl

================================================================================
