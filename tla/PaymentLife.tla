------------------------------ MODULE PaymentLife ------------------------------
(***************************************************************************)
(* What the webhook side promises about a payment's status, with           *)
(* deliveries, signatures, dedupe keys, locks and crashes hidden: it       *)
(* follows what became of the attempts to pay.  News of an attempt is      *)
(* taken in at most once, only when Razorpay is done with that attempt,    *)
(* and moves the status of the payment it was an attempt on, and nothing   *)
(* else.  News of two attempts may settle one payment twice.               *)
(* Webhooks is shown to implement this.                                    *)
(***************************************************************************)
EXTENDS PaymentTable

CONSTANT Attempts

VARIABLES payments, attempts, heard

lifeVars == <<payments, heard>>

LifeInit ==
  /\ payments = [r \in PayReqs |-> NoRow]
  /\ heard = {}

\* A payment is booked; it is at Razorpay's if it has an order there.
Book(r) ==
  /\ payments[r] = NoRow
  /\ payments'[r] \in PaymentRow
  /\ payments' = [payments EXCEPT ![r] = payments'[r]]
  /\ payments'[r].status \in InitialPaymentStatus
  /\ payments'[r].status = "created" <=> payments'[r].order = r
  /\ UNCHANGED heard

\* News of attempt p is taken in.
Hear(p) ==
  LET attempt == attempts[p]
      r == attempt.order
  IN  /\ p \notin heard
      /\ attempt.status \in {"captured", "failed"}
      /\ payments[r] # NoRow
      /\ payments[r].order = r
      /\ payments' = [payments EXCEPT ![r].status = attempt.status]
      /\ heard' = heard \union {p}

LifeNext ==
  \/ \E r \in PayReqs : Book(r)
  \/ \E p \in Attempts : Hear(p)

LifeSpec == LifeInit /\ [][LifeNext]_lifeVars

================================================================================
