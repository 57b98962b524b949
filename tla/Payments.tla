-------------------------------- MODULE Payments --------------------------------
(***************************************************************************)
(* POST /payments/order: the handler that turns an authorized decision     *)
(* into a Razorpay order and a payment row.                                *)
(*                                                                         *)
(* It reads the decision, looks the idempotency key up, calls Razorpay,    *)
(* and only then inserts the row and commits; no lock is held before the   *)
(* insert, so every other handler may run between any two of these steps.  *)
(* A request is one attempt: a client that retries sends another request   *)
(* with the same key.  The decisions table, the write lock and the status  *)
(* column also change under the handler's feet (OtherHandlers).            *)
(***************************************************************************)
EXTENDS PaymentTable, Integers

CONSTANTS
  OfferTtl,  \* record_decision's expires_in_seconds, in ticks
  MaxTime    \* bound on the clock

VARIABLES
  now,        \* the clock
  decisions,  \* the decisions table
  lockFree,   \* nobody holds SQLite's write lock
  live,       \* Config.razorpay_configured()
  payments,   \* the payments table, by the request that inserted the row
  orders,     \* Razorpay's orders, by the request that asked for them
  payReq      \* the payment handlers

ownTables == <<payments, orders>>
environment == <<now, decisions, lockFree, live>>
vars == <<environment, ownTables, payReq>>

--------------------------------------------------------------------------------
(* Request-local state. *)

ActivePcs == {"lookup", "ordering", "recording"}
Finished == {"answered", "lost"}

PayState ==
  [pc : {"idle"} \union ActivePcs \union Finished,
   merchant : Merchants \union {NoRow}, decision : IntentReqs \union {NoRow},
   key : Keys \union {NoRow}, amount : Amounts \union {0},
   status : InitialPaymentStatus \union {"none"}, duplicate : BOOLEAN,
   code : {0, 200, 404, 409, 410, 500}]

OrderRow == [amount : Amounts, receipt : Keys]

Amount(terms) == terms.price * terms.quantity

ASSUME PaymentsAssumption ==
  /\ OfferTtl \in Nat
  /\ MaxTime \in Nat
  /\ NoRow \notin OrderRow
  /\ Terms \subseteq [price : Int, quantity : Int]
  /\ \A terms \in Terms : Amount(terms) \in Amounts

Init ==
  /\ now = 0
  /\ decisions = [d \in IntentReqs |-> NoRow]
  /\ lockFree = TRUE
  /\ live \in BOOLEAN
  /\ payments = [r \in PayReqs |-> NoRow]
  /\ orders = [r \in PayReqs |-> NoRow]
  /\ payReq =
       [r \in PayReqs |->
          [pc |-> "idle", merchant |-> NoRow, decision |-> NoRow, key |-> NoRow,
           amount |-> 0, status |-> "none", duplicate |-> FALSE, code |-> 0]]

--------------------------------------------------------------------------------
(* The handler. *)

\* Mutant: the approval gate is forgotten.
PayableUnapproved == {"CLOSED_ACCEPTED", "AWAITING_BUYER_RESPONSE", "PENDING_APPROVAL"}

Payable == {"CLOSED_ACCEPTED", "AWAITING_BUYER_RESPONSE"}

\* What the checks at the head of _handle_create_payment answer; 200 means go on.
CheckCode(m, d) ==
  IF ~ScopedRow(decisions, m, d) THEN 404
  ELSE IF decisions[d].state \notin Payable \/ decisions[d].terms = NoTerms THEN 409
  ELSE IF now > decisions[d].expiresAt THEN 410
  ELSE 200

\* Mutant: the price of one unit.
ChargedAmountOfOneUnit(d) == decisions[d].terms.price

\* Mutant: converted to paise a second time.
ChargedAmountConvertedTwice(d) == Amount(decisions[d].terms) * 2

\* The server-authoritative amount, never taken from the client.
ChargedAmount(d) == Amount(decisions[d].terms)

PayCheck(r, m, d, k) ==
  /\ payReq[r].pc = "idle"
  /\ CheckCode(m, d) = 200
  /\ payReq' =
       [payReq EXCEPT ![r].pc = "lookup", ![r].merchant = m, ![r].decision = d,
                      ![r].key = k, ![r].amount = ChargedAmount(d)]
  /\ UNCHANGED <<environment, ownTables>>

PayRefuse(r, m, d, k) ==
  /\ payReq[r].pc = "idle"
  /\ CheckCode(m, d) # 200
  /\ payReq' =
       [payReq EXCEPT ![r].pc = "answered", ![r].merchant = m, ![r].decision = d,
                      ![r].key = k, ![r].code = CheckCode(m, d)]
  /\ UNCHANGED <<environment, ownTables>>

KeyTaken(k) == \E p \in PayReqs : payments[p] # NoRow /\ payments[p].key = k

PayAnswer(r, code, duplicate) ==
  payReq' = [payReq EXCEPT ![r].pc = "answered", ![r].code = code,
                           ![r].duplicate = duplicate]

\* find_by_idempotency_key finds a row: answered as a duplicate.
PayDuplicate(r) ==
  /\ payReq[r].pc = "lookup"
  /\ KeyTaken(payReq[r].key)
  /\ PayAnswer(r, 200, TRUE)
  /\ UNCHANGED <<environment, ownTables>>

PayFresh(r) ==
  /\ payReq[r].pc = "lookup"
  /\ ~KeyTaken(payReq[r].key)
  /\ payReq' = [payReq EXCEPT ![r].pc = "ordering"]
  /\ UNCHANGED <<environment, ownTables>>

\* create_order refuses an amount that is not positive: ValueError, 500.
PayNothingToCharge(r) ==
  /\ payReq[r].pc = "ordering"
  /\ payReq[r].amount <= 0
  /\ PayAnswer(r, 500, FALSE)
  /\ UNCHANGED <<environment, ownTables>>

\* create_order returns a PaymentResult of this status.
PayOrdered(r, status) ==
  /\ payReq[r].pc = "ordering"
  /\ payReq[r].amount > 0
  /\ payReq' = [payReq EXCEPT ![r].pc = "recording", ![r].status = status]

\* Razorpay's side of a call: the order it makes, under the receipt it was given.
OrderMade(r) ==
  orders' = [orders EXCEPT ![r] = [amount |-> payReq[r].amount, receipt |-> payReq[r].key]]

PaySimulated(r) ==
  /\ ~live
  /\ PayOrdered(r, "simulated")
  /\ UNCHANGED <<environment, ownTables>>

PayOrderCreated(r) ==
  /\ live
  /\ PayOrdered(r, "created")
  /\ OrderMade(r)
  /\ UNCHANGED <<environment, payments>>

\* Mutant: a failed real call falls back to simulation.
PayOrderFailedSilently(r) ==
  /\ live
  /\ PayOrdered(r, "simulated")
  /\ OrderMade(r) \/ UNCHANGED orders
  /\ UNCHANGED <<environment, payments>>

\* HTTPError or URLError: recorded as FAILED, although a gateway error may come
\* after the order was made.
PayOrderFailed(r) ==
  /\ live
  /\ PayOrdered(r, "failed")
  /\ OrderMade(r) \/ UNCHANGED orders
  /\ UNCHANGED <<environment, payments>>

\* The call raises what _create_real_order does not catch (a timeout waiting for
\* the answer, an answer that is not JSON): 500, with or without an order.
PayOrderRaises(r) ==
  /\ live
  /\ payReq[r].pc = "ordering"
  /\ payReq[r].amount > 0
  /\ PayAnswer(r, 500, FALSE)
  /\ OrderMade(r) \/ UNCHANGED orders
  /\ UNCHANGED <<environment, payments>>

\* Mutant: every result carries an order id.
OrderIdAlways(r) == r

OrderId(r) ==
  CASE payReq[r].status = "created" -> r
    [] payReq[r].status = "simulated" -> SimOrder
    [] OTHER -> NoOrder

NewPayment(r) ==
  [decision |-> payReq[r].decision, merchant |-> payReq[r].merchant,
   key |-> payReq[r].key, amount |-> payReq[r].amount, status |-> payReq[r].status,
   order |-> OrderId(r)]

\* Mutant: the schema has no UNIQUE constraint on idempotency_key.
PayRecordNotUnique(r) ==
  /\ payReq[r].pc = "recording"
  /\ lockFree
  /\ payments' = [payments EXCEPT ![r] = NewPayment(r)]
  /\ PayAnswer(r, 200, FALSE)
  /\ UNCHANGED <<environment, orders>>

\* Mutant: the connection is closed without a commit.
PayRecordUncommitted(r) ==
  /\ payReq[r].pc = "recording"
  /\ lockFree
  /\ ~KeyTaken(payReq[r].key)
  /\ PayAnswer(r, 200, FALSE)
  /\ UNCHANGED <<environment, ownTables>>

\* record_payment and the commit.
PayRecord(r) ==
  /\ payReq[r].pc = "recording"
  /\ lockFree
  /\ ~KeyTaken(payReq[r].key)
  /\ payments' = [payments EXCEPT ![r] = NewPayment(r)]
  /\ PayAnswer(r, 200, FALSE)
  /\ UNCHANGED <<environment, orders>>

\* Mutant: INSERT OR REPLACE.
PayClashReplaces(r) ==
  /\ payReq[r].pc = "recording"
  /\ lockFree
  /\ KeyTaken(payReq[r].key)
  /\ payments' =
       [p \in PayReqs |->
          IF p = r THEN NewPayment(r)
          ELSE IF payments[p] # NoRow /\ payments[p].key = payReq[r].key THEN NoRow
          ELSE payments[p]]
  /\ PayAnswer(r, 200, FALSE)
  /\ UNCHANGED <<environment, orders>>

\* The UNIQUE constraint refuses the row: sqlite3.IntegrityError, 500.
PayClash(r) ==
  /\ payReq[r].pc = "recording"
  /\ lockFree
  /\ KeyTaken(payReq[r].key)
  /\ PayAnswer(r, 500, FALSE)
  /\ UNCHANGED <<environment, ownTables>>

\* Five seconds without the lock: sqlite3.OperationalError, 500.
PayBusy(r) ==
  /\ payReq[r].pc = "recording"
  /\ ~lockFree
  /\ PayAnswer(r, 500, FALSE)
  /\ UNCHANGED <<environment, ownTables>>

PayArrive(r) ==
  \E m \in Merchants, d \in IntentReqs, k \in Keys :
    PayCheck(r, m, d, k) \/ PayRefuse(r, m, d, k)

PayStep(r) ==
  \/ PayDuplicate(r)
  \/ PayFresh(r)
  \/ PayNothingToCharge(r)
  \/ PaySimulated(r)
  \/ PayOrderCreated(r)
  \/ PayOrderFailed(r)
  \/ PayOrderRaises(r)
  \/ PayRecord(r)
  \/ PayClash(r)
  \/ PayBusy(r)

--------------------------------------------------------------------------------
(* Everything else that runs. *)

ActivePays == {r \in PayReqs : payReq[r].pc \in ActivePcs}

\* The effect of a process death on the payment handlers.
PaysLost ==
  payReq' = [r \in PayReqs |->
               IF r \in ActivePays THEN [payReq[r] EXCEPT !.pc = "lost"] ELSE payReq[r]]

\* The server process dies and is started again, with or without credentials.
Crash ==
  /\ PaysLost
  /\ lockFree' = TRUE
  /\ live' \in BOOLEAN
  /\ UNCHANGED <<now, decisions, ownTables>>

Tick ==
  /\ now < MaxTime
  /\ now' = now + 1
  /\ UNCHANGED <<decisions, lockFree, live, ownTables, payReq>>

\* An intent publishes a decision; it frees the lock by doing so.
DecisionPublished(d) ==
  /\ decisions[d] = NoRow
  /\ \E m \in Merchants, terms \in Terms \union {NoTerms}, escalated \in BOOLEAN,
        state \in NegotiationState, expiry \in 0 .. (MaxTime + OfferTtl) :
       LET row == [merchant |-> m, terms |-> terms, requiresApproval |-> escalated,
                   state |-> state, expiresAt |-> expiry]
       IN  LegalRow(row) /\ decisions' = [decisions EXCEPT ![d] = row]
  /\ lockFree' = TRUE
  /\ UNCHANGED <<now, live, ownTables, payReq>>

\* An approval rules on an escalated decision.
DecisionRuled(d) ==
  /\ decisions[d] # NoRow
  /\ decisions[d].requiresApproval
  /\ \E verdict \in Verdict :
       decisions' = [decisions EXCEPT ![d].state = ClosedBy(verdict)]
  /\ UNCHANGED <<now, lockFree, live, ownTables, payReq>>

LockMoves ==
  /\ lockFree' = ~lockFree
  /\ UNCHANGED <<now, decisions, live, ownTables, payReq>>

\* A webhook settles a payment that has an order at Razorpay.
PaymentSettled(r) ==
  /\ payments[r] # NoRow
  /\ payments[r].order \in PayReqs
  /\ \E status \in {"captured", "failed"} :
       payments' = [payments EXCEPT ![r].status = status]
  /\ UNCHANGED <<environment, orders, payReq>>

OtherHandlers ==
  \/ \E d \in IntentReqs : DecisionPublished(d) \/ DecisionRuled(d)
  \/ LockMoves
  \/ \E r \in PayReqs : PaymentSettled(r)

Next ==
  \/ \E r \in PayReqs : PayArrive(r) \/ PayStep(r)
  \/ Crash
  \/ Tick
  \/ OtherHandlers

Spec == Init /\ [][Next]_vars

--------------------------------------------------------------------------------
(* Properties. *)

\* Every table and every handler hold values of their kind.
TypeOK ==
  /\ now \in Nat
  /\ decisions \in [IntentReqs -> DecisionRow \union {NoRow}]
  /\ lockFree \in BOOLEAN
  /\ live \in BOOLEAN
  /\ payments \in [PayReqs -> PaymentRow \union {NoRow}]
  /\ orders \in [PayReqs -> OrderRow \union {NoRow}]
  /\ payReq \in [PayReqs -> PayState]

\* However requests with one key interleave, retry or crash, the payments table
\* holds at most one row for it.
OneRowPerKey ==
  \A p, q \in PayReqs :
    payments[p] # NoRow /\ payments[q] # NoRow /\ payments[p].key = payments[q].key
      => p = q

\* The amount on the books, and the amount Razorpay was asked for, is what the
\* decision froze for that merchant, and nothing is ordered that is not positive.
ServerDerivedAmount ==
  \A r \in PayReqs :
    LET Frozen(d) == Amount(decisions[d].terms)
    IN  /\ payments[r] # NoRow =>
             /\ ScopedRow(decisions, payments[r].merchant, payments[r].decision)
             /\ decisions[payments[r].decision].terms # NoTerms
             /\ payments[r].amount = Frozen(payments[r].decision)
             /\ payments[r].amount > 0
        /\ orders[r] # NoRow =>
             orders[r].amount = Frozen(payReq[r].decision) /\ orders[r].amount > 0

\* No request is ever at work on a charge, ordered it or booked it while the decision
\* it charges for is missing or waits for approval: what the handler read before it
\* called Razorpay cannot be undone behind its back in that direction.
OnlyPayableIsCharged ==
  \A r \in PayReqs :
    payReq[r].pc \in ActivePcs \/ payments[r] # NoRow \/ orders[r] # NoRow =>
      /\ decisions[payReq[r].decision] # NoRow
      /\ decisions[payReq[r].decision].state # "PENDING_APPROVAL"

\* A 200 answer is durable: the request's own row is in the table with its key and
\* decision, or, for a duplicate, the row of the request it repeats is.
AcknowledgedIsRecorded ==
  \A r \in PayReqs :
    payReq[r].code = 200 =>
      IF payReq[r].duplicate THEN KeyTaken(payReq[r].key)
      ELSE /\ payments[r] # NoRow
           /\ payments[r].key = payReq[r].key
           /\ payments[r].decision = payReq[r].decision

\* A row says truly what happened at Razorpay: one with an order id names the order
\* made for that very request, amount and key; a simulated one has no real order;
\* and a failed call is never passed off as a simulation.
RowMatchesRazorpay ==
  \A r \in PayReqs :
    payments[r] # NoRow =>
      /\ payments[r].status \in {"created", "captured"} => payments[r].order = r
      /\ payments[r].order \in PayReqs =>
           /\ payments[r].order = r
           /\ orders[r] = [amount |-> payments[r].amount, receipt |-> payments[r].key]
      /\ payments[r].status = "simulated" <=> payments[r].order = SimOrder
      /\ payments[r].order = SimOrder => orders[r] = NoRow

\* The row of a key, if it has one, and what it says but for its status.
RowOf(table, k) == table[CHOOSE r \in PayReqs : table[r] # NoRow /\ table[r].key = k]

Booked(k) ==
  LET row == RowOf(payments, k)
  IN  IF KeyTaken(k)
      THEN [decision |-> row.decision, merchant |-> row.merchant,
            amount |-> row.amount, order |-> row.order]
      ELSE NoRow

\* What is on the books for a key is never replaced, altered or removed: only the
\* status column of the row moves.
Book == INSTANCE PaymentBook WITH book <- [k \in Keys |-> Booked(k)]
ImplementsBook == Book!BookSpec

\* docs/ARCHITECTURE.md:94-96: process_payment "checks for an existing row with that
\* key before ever calling the Razorpay adapter, so a retried request can never
\* create two real orders".
OneOrderPerKey ==
  \A p, q \in PayReqs :
    orders[p] # NoRow /\ orders[q] # NoRow /\ orders[p].receipt = orders[q].receipt
      => p = q

================================================================================
