------------------------------ MODULE PaymentTable ------------------------------
(***************************************************************************)
(* The payments table, written by POST /payments/order and by the webhook  *)
(* handler, and the payment state table of core/payment_state_machine.py.  *)
(***************************************************************************)
EXTENDS DecisionTable

CONSTANTS
  PayReqs,   \* POST /payments/order requests; one names the payment row it
             \* inserts and the Razorpay order it creates, whose ids are fresh
  Keys,      \* idempotency keys
  Amounts,   \* amounts the frozen terms can come to
  NoOrder,   \* no razorpay_order_id
  SimOrder   \* the id _simulate_order makes up

InitialPaymentStatus == {"created", "simulated", "failed"}
PaymentStatus == InitialPaymentStatus \union {"captured"}

AllowedPaymentTransitions ==
  {<<"created", "captured">>, <<"created", "failed">>}

PaymentRow ==
  [decision : IntentReqs, merchant : Merchants, key : Keys, amount : Amounts,
   status : PaymentStatus, order : PayReqs \union {NoOrder, SimOrder}]

\* What is booked under a key: a row without its key and its status.
BookedCharge ==
  [decision : IntentReqs, merchant : Merchants, amount : Amounts,
   order : PayReqs \union {NoOrder, SimOrder}]

ASSUME PaymentRowAssumption ==
  /\ NoRow \notin PaymentRow
  /\ NoRow \notin BookedCharge
  /\ NoOrder \notin PayReqs
  /\ SimOrder \notin PayReqs \union {NoOrder}

================================================================================
