---------------------------------- MODULE Sale ----------------------------------
(***************************************************************************)
(* What the service as a whole promises about a sale, from the offer to    *)
(* the money, with requests, idempotency keys, deliveries, locks, retries, *)
(* expiry and crashes hidden: terms are frozen once; whatever is ordered   *)
(* from Razorpay or booked is what a decision froze, for its merchant, and *)
(* only once the decision is cleared, that is, approved if it had to be;   *)
(* the buyer pays what was ordered; and the books follow what became of    *)
(* that.  Econex is shown to implement this.                               *)
(***************************************************************************)
EXTENDS PaymentTable, Integers

CONSTANT Attempts

VARIABLES
  deals,     \* what a decision froze: for whom, which terms, and whether it is gated
  approved,  \* the decisions a merchant has approved
  orders,    \* Razorpay's orders, and the decision each is for
  payments,  \* the payments on the books
  attempts   \* the attempts to pay, and how they went

saleVars == <<deals, approved, orders, payments, attempts>>

SaleInit ==
  /\ deals = [d \in IntentReqs |-> NoRow]
  /\ approved = {}
  /\ orders = [r \in PayReqs |-> NoRow]
  /\ payments = [r \in PayReqs |-> NoRow]
  /\ attempts = [p \in Attempts |-> [order |-> NoOrder, status |-> "none"]]

\* A decision freezes its terms.
Freeze(d) ==
  /\ deals[d] = NoRow
  /\ deals'[d] \in FrozenDeal
  /\ deals'[d].gated => deals'[d].terms # NoTerms
  /\ deals' = [deals EXCEPT ![d] = deals'[d]]
  /\ UNCHANGED <<approved, orders, payments, attempts>>

Approve(d) ==
  /\ deals[d] \in FrozenDeal
  /\ deals[d].gated
  /\ approved' = approved \union {d}
  /\ UNCHANGED <<deals, orders, payments, attempts>>

\* Something was offered, and nothing stands in the way of charging for it.
Cleared(d) ==
  /\ deals[d] \in FrozenDeal
  /\ deals[d].terms # NoTerms
  /\ deals[d].gated => d \in approved
  /\ deals[d].terms.price * deals[d].terms.quantity > 0

OrderFor(d) ==
  [decision |-> d, amount |-> deals[d].terms.price * deals[d].terms.quantity]

\* Razorpay is asked for an order.
Order(r) ==
  /\ orders[r] = NoRow
  /\ payments[r] = NoRow
  /\ \E d \in IntentReqs :
       Cleared(d) /\ orders' = [orders EXCEPT ![r] = OrderFor(d)]
  /\ UNCHANGED <<deals, approved, payments, attempts>>

\* A payment is booked, and says truly what there is at Razorpay.
Book(r) ==
  /\ payments[r] = NoRow
  /\ payments'[r] \in PaymentRow
  /\ payments' = [payments EXCEPT ![r] = payments'[r]]
  /\ LET row == payments'[r]
         order == OrderFor(row.decision)
     IN  /\ Cleared(row.decision)
         /\ row.merchant = deals[row.decision].merchant
         /\ row.amount = order.amount
         /\ row.status \in InitialPaymentStatus
         /\ row.status = "created" <=> row.order = r
         /\ row.status = "created" => orders[r] = order
         /\ row.status = "simulated" => orders[r] = NoRow
  /\ UNCHANGED <<deals, approved, orders, attempts>>

\* The order of a payment can be paid by those it was disclosed to.
Payable(r) == payments[r] # NoRow /\ payments[r].order = r

\* The buyer tries to pay; one attempt at most succeeds.
Pay(p) ==
  /\ attempts[p].status = "none"
  /\ \E r \in PayReqs, status \in {"authorized", "failed"} :
       /\ Payable(r)
       /\ \A q \in Attempts :
            attempts[q].order = r => attempts[q].status \notin {"authorized", "captured"}
       /\ attempts' = [attempts EXCEPT ![p] = [order |-> r, status |-> status]]
  /\ UNCHANGED <<deals, approved, orders, payments>>

Capture(p) ==
  /\ attempts[p].status = "authorized"
  /\ attempts' = [attempts EXCEPT ![p].status = "captured"]
  /\ UNCHANGED <<deals, approved, orders, payments>>

\* The books follow what became of an attempt.
Settle(r) ==
  /\ Payable(r)
  /\ \E p \in Attempts, status \in {"captured", "failed"} :
       /\ attempts[p] = [order |-> r, status |-> status]
       /\ payments' = [payments EXCEPT ![r].status = status]
  /\ UNCHANGED <<deals, approved, orders, attempts>>

SaleNext ==
  \/ \E d \in IntentReqs : Freeze(d) \/ Approve(d)
  \/ \E r \in PayReqs : Order(r) \/ Book(r) \/ Settle(r)
  \/ \E p \in Attempts : Pay(p) \/ Capture(p)

SaleSpec == SaleInit /\ [][SaleNext]_saleVars

--------------------------------------------------------------------------------
(* What follows from that. *)

\* Money on the books is owed: a captured payment was paid, on an order for exactly what
\* its decision froze, for the merchant of that decision, which was cleared.
CapturedIsOwed ==
  \A r \in PayReqs :
    payments[r] # NoRow /\ payments[r].status = "captured" =>
      LET row == payments[r]
          order == OrderFor(row.decision)
      IN  /\ Cleared(row.decision)
          /\ row.merchant = deals[row.decision].merchant
          /\ row.amount = order.amount
          /\ orders[r] = order
          /\ \E p \in Attempts : attempts[p] = [order |-> r, status |-> "captured"]

================================================================================
