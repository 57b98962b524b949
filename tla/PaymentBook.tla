------------------------------ MODULE PaymentBook ------------------------------
(***************************************************************************)
(* What the payment side promises for an idempotency key, with requests,   *)
(* Razorpay, locks, retries and crashes hidden: at most one charge is ever *)
(* booked under it, for the amount its decision froze, owned by the        *)
(* merchant of that decision, and a booked charge stays as it is.          *)
(* Payments is shown to implement this.                                    *)
(***************************************************************************)
EXTENDS PaymentTable, Integers

VARIABLES decisions, book

BookInit == book = [k \in Keys |-> NoRow]

Charge(k) ==
  /\ book[k] = NoRow
  /\ book'[k] # NoRow
  /\ book' = [book EXCEPT ![k] = book'[k]]
  /\ LET charge == book'[k]
         decision == decisions[charge.decision]
     IN  /\ decision # NoRow
         /\ decision.merchant = charge.merchant
         /\ decision.state # "PENDING_APPROVAL"
         /\ charge.amount = decision.terms.price * decision.terms.quantity
         /\ charge.amount > 0

BookNext == \E k \in Keys : Charge(k)

BookSpec == BookInit /\ [][BookNext]_book

================================================================================
