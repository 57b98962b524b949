---------------------------- MODULE PaymentsProofs ----------------------------
(***************************************************************************)
(* Proofs about Payments, for any merchants, decisions, requests, keys and *)
(* terms.  A request is tied to the decision it read, to its own row and   *)
(* to its own order (RequestInv); what the invariants of Payments say of   *)
(* the tables follows from that.  The environment keeps it, because a      *)
(* decision once read keeps its owner and its terms and is never pending   *)
(* again, and because a webhook moves nothing but a status.                *)
(***************************************************************************)
EXTENDS Payments, TLAPS

\* The decision a request charges for is there, its own merchant's, no longer pending,
\* and worth the amount the request works with.
Charges(r) ==
  LET req == payReq[r]
  IN  /\ req.merchant \in Merchants
      /\ req.decision \in IntentReqs
      /\ req.key \in Keys
      /\ ScopedRow(decisions, req.merchant, req.decision)
      /\ decisions[req.decision].terms # NoTerms
      /\ decisions[req.decision].state # "PENDING_APPROVAL"
      /\ req.amount = Amount(decisions[req.decision].terms)

\* A row repeats its request, and tells the truth about its order.
RowInv(r) ==
  payments[r] # NoRow =>
    /\ payReq[r].pc = "answered"
    /\ payments[r].decision = payReq[r].decision
    /\ payments[r].merchant = payReq[r].merchant
    /\ payments[r].key = payReq[r].key
    /\ payments[r].amount = payReq[r].amount
    /\ payReq[r].amount > 0
    /\ payments[r].status \in {"created", "captured"} => payments[r].order = r
    /\ payments[r].order \in PayReqs => payments[r].order = r /\ orders[r] # NoRow
    /\ payments[r].status = "simulated" <=> payments[r].order = SimOrder
    /\ payments[r].order = SimOrder => orders[r] = NoRow

\* An order is for the amount and the key of the request that made it.
OrderInv(r) ==
  orders[r] # NoRow =>
    /\ payReq[r].pc \notin {"idle", "lookup", "ordering"}
    /\ orders[r] = [amount |-> payReq[r].amount, receipt |-> payReq[r].key]
    /\ payReq[r].amount > 0

\* Between the Razorpay call and the insert, the status says what the call did.
RecordingInv(r) ==
  payReq[r].pc = "recording" =>
    /\ payReq[r].amount > 0
    /\ payReq[r].status \in InitialPaymentStatus
    /\ payReq[r].status = "created" => orders[r] # NoRow
    /\ payReq[r].status = "simulated" => orders[r] = NoRow

RequestInv(r) ==
  /\ payReq[r].pc # "answered" => payReq[r].code = 0
  /\ payReq[r].pc \in ActivePcs \/ payments[r] # NoRow \/ orders[r] # NoRow => Charges(r)
  /\ RowInv(r)
  /\ OrderInv(r)
  /\ RecordingInv(r)

\* AcknowledgedIsRecorded, of one request.
Acknowledged(r) ==
  payReq[r].code = 200 =>
    IF payReq[r].duplicate THEN KeyTaken(payReq[r].key)
    ELSE /\ payments[r] # NoRow
         /\ payments[r].key = payReq[r].key
         /\ payments[r].decision = payReq[r].decision

IInv ==
  /\ TypeOK
  /\ OneRowPerKey
  /\ \A r \in PayReqs : RequestInv(r) /\ Acknowledged(r)

--------------------------------------------------------------------------------
(* The initial states. *)

\* Before the first request there are no rows and no orders.
LEMMA InitIInv == Init => IInv
<1> SUFFICES ASSUME Init PROVE IInv
  OBVIOUS
<1> USE DEF Init
<1>1. TypeOK
  BY DEF TypeOK, PayState
<1>2. OneRowPerKey
  BY DEF OneRowPerKey
<1>3. ASSUME NEW r \in PayReqs PROVE RequestInv(r) /\ Acknowledged(r)
  BY DEF RequestInv, RowInv, OrderInv, RecordingInv, Acknowledged, ActivePcs
<1>4. QED
  BY <1>1, <1>2, <1>3 DEF IInv

--------------------------------------------------------------------------------
(* What a step of one request does to the others: nothing. *)

\* Only this request, its row and its order change.
OnlyOf(r) ==
  /\ UNCHANGED environment
  /\ payReq' \in [PayReqs -> PayState]
  /\ payments' \in [PayReqs -> PaymentRow \union {NoRow}]
  /\ orders' \in [PayReqs -> OrderRow \union {NoRow}]
  /\ \A q \in PayReqs \ {r} : /\ payReq'[q] = payReq[q]
                              /\ payments'[q] = payments[q]
                              /\ orders'[q] = orders[q]

\* While rows keep their keys, a key that is taken stays taken.
LEMMA RowsKeptTakeKeys ==
  ASSUME NEW k, KeyTaken(k),
         \A p \in PayReqs :
           payments[p] # NoRow => payments'[p] # NoRow /\ payments'[p].key = payments[p].key
  PROVE  \E p \in PayReqs : payments'[p] # NoRow /\ payments'[p].key = k
BY DEF KeyTaken

\* A step of one request keeps the invariant of all if it keeps its own, and adds a
\* row, if any, under a key no row has.
LEMMA HandlerStep ==
  ASSUME IInv, NEW r \in PayReqs, OnlyOf(r), RequestInv(r)', Acknowledged(r)',
         payments'[r] = payments[r] \/ (payments[r] = NoRow /\ ~KeyTaken(payments'[r].key))
  PROVE  IInv'
<1> USE DEF IInv, OnlyOf, environment
<1>1. TypeOK'
  BY DEF TypeOK
<1>2. OneRowPerKey'
  BY DEF OneRowPerKey, KeyTaken
<1>3. ASSUME NEW q \in PayReqs, q # r PROVE RequestInv(q)'
  <2>1. RequestInv(q)
    OBVIOUS
  <2>2. QED
    BY <1>3, <2>1
       DEF RequestInv, Charges, RowInv, OrderInv, RecordingInv, ScopedRow
<1>4. ASSUME NEW q \in PayReqs, q # r PROVE Acknowledged(q)'
  <2>1. Acknowledged(q)
    OBVIOUS
  <2>2. payReq'[q] = payReq[q] /\ payments'[q] = payments[q]
    BY <1>4
  <2>3. KeyTaken(payReq[q].key) =>
          \E p \in PayReqs : payments'[p] # NoRow /\ payments'[p].key = payReq[q].key
    BY RowsKeptTakeKeys
  <2>4. QED
    BY <2>1, <2>2, <2>3 DEF Acknowledged, KeyTaken
<1>5. QED
  BY <1>1, <1>2, <1>3, <1>4

--------------------------------------------------------------------------------
(* The checks at the head of the handler, and the lookup. *)

\* Nothing but this request's local state changes.
MovedTo(r) ==
  /\ payReq' \in [PayReqs -> PayState]
  /\ \A q \in PayReqs \ {r} : payReq'[q] = payReq[q]

\* The request still charges for what it charged for.
SameCharge(r) ==
  /\ payReq'[r].merchant = payReq[r].merchant
  /\ payReq'[r].decision = payReq[r].decision
  /\ payReq'[r].key = payReq[r].key
  /\ payReq'[r].amount = payReq[r].amount

\* An idle request has left no trace, and one at work has no row and no answer.
LEMMA Untouched ==
  ASSUME IInv, NEW r \in PayReqs
  PROVE  /\ payReq[r].pc # "answered" => payments[r] = NoRow /\ payReq[r].code = 0
         /\ payReq[r].pc \in {"idle", "lookup", "ordering"} => orders[r] = NoRow
         /\ payReq[r].pc \in ActivePcs => Charges(r)
BY DEF IInv, RequestInv, RowInv, OrderInv

\* What a request that passes CheckCode will charge is an amount of the model.
LEMMA ChargesAmount ==
  ASSUME IInv, NEW m \in Merchants, NEW d \in IntentReqs, CheckCode(m, d) = 200
  PROVE  /\ ScopedRow(decisions, m, d)
         /\ decisions[d].terms # NoTerms
         /\ decisions[d].state # "PENDING_APPROVAL"
         /\ ChargedAmount(d) \in Amounts
<1>1. /\ ScopedRow(decisions, m, d)
      /\ decisions[d].terms # NoTerms
      /\ decisions[d].state \in Payable
  BY DEF CheckCode
<1>2. decisions[d] \in DecisionRow
  BY <1>1 DEF IInv, TypeOK, ScopedRow
<1>3. decisions[d].terms \in Terms
  BY <1>1, <1>2 DEF DecisionRow
<1>4. QED
  BY <1>1, <1>3, PaymentsAssumption DEF ChargedAmount, Payable

\* The checks pass: the request works on the amount the decision froze.
LEMMA CheckIInv ==
  ASSUME IInv, NEW r \in PayReqs, NEW m \in Merchants, NEW d \in IntentReqs,
         NEW k \in Keys, PayCheck(r, m, d, k)
  PROVE  IInv'
<1>1. /\ ScopedRow(decisions, m, d)
      /\ decisions[d].terms # NoTerms
      /\ decisions[d].state # "PENDING_APPROVAL"
      /\ ChargedAmount(d) \in Amounts
  BY ChargesAmount DEF PayCheck
<1>2. payReq[r] \in PayState /\ payReq[r].pc = "idle"
  BY DEF PayCheck, IInv, TypeOK
<1> DEFINE a == [payReq[r] EXCEPT !.pc = "lookup"]
           b == [a EXCEPT !.merchant = m]
           c == [b EXCEPT !.decision = d]
           e == [c EXCEPT !.key = k]
           f == [e EXCEPT !.amount = ChargedAmount(d)]
<1>3. payReq'[r] = f
  BY <1>2 DEF PayCheck, IInv, TypeOK, PayState
<1>4. f \in PayState
  <2>1. a \in PayState
    BY <1>2 DEF PayState, ActivePcs
  <2> HIDE DEF a
  <2>2. b \in PayState
    BY <2>1 DEF PayState
  <2> HIDE DEF b
  <2>3. c \in PayState
    BY <2>2 DEF PayState
  <2> HIDE DEF c
  <2>4. e \in PayState
    BY <2>3 DEF PayState
  <2> HIDE DEF e
  <2>5. QED
    BY <1>1, <2>4 DEF PayState
<1>5. /\ payReq'[r].pc = "lookup"
      /\ payReq'[r].merchant = m
      /\ payReq'[r].decision = d
      /\ payReq'[r].key = k
      /\ payReq'[r].amount = ChargedAmount(d)
      /\ payReq'[r].code = payReq[r].code
  BY <1>2, <1>3 DEF PayState
<1> HIDE DEF f
<1>6. MovedTo(r)
  <2>1. payReq'[r] \in PayState
    BY <1>3, <1>4
  <2>2. payReq \in [PayReqs -> PayState]
    BY DEF IInv, TypeOK
  <2>3. QED
    BY <2>1, <2>2 DEF PayCheck, MovedTo
<1>7. UNCHANGED <<environment, ownTables>>
  BY DEF PayCheck
<1>8. OnlyOf(r)
  BY <1>6, <1>7 DEF OnlyOf, MovedTo, IInv, TypeOK, ownTables
<1>9. payments[r] = NoRow /\ orders[r] = NoRow /\ payReq[r].code = 0
  BY <1>2, Untouched
<1>10. RequestInv(r)'
  BY <1>1, <1>5, <1>7, <1>9
     DEF RequestInv, Charges, RowInv, OrderInv, RecordingInv, ScopedRow, ChargedAmount,
         ownTables, environment
<1>11. Acknowledged(r)'
  BY <1>5, <1>9 DEF Acknowledged
<1>12. QED
  BY <1>7, <1>8, <1>10, <1>11, HandlerStep DEF ownTables

\* A check fails: the request is answered, and has done nothing.
LEMMA RefuseIInv ==
  ASSUME IInv, NEW r \in PayReqs, NEW m \in Merchants, NEW d \in IntentReqs,
         NEW k \in Keys, PayRefuse(r, m, d, k)
  PROVE  IInv'
<1>1. payReq[r] \in PayState /\ payReq[r].pc = "idle"
  BY DEF PayRefuse, IInv, TypeOK
<1>2. CheckCode(m, d) \in {404, 409, 410}
  BY DEF PayRefuse, CheckCode
<1> DEFINE a == [payReq[r] EXCEPT !.pc = "answered"]
           b == [a EXCEPT !.merchant = m]
           c == [b EXCEPT !.decision = d]
           e == [c EXCEPT !.key = k]
           f == [e EXCEPT !.code = CheckCode(m, d)]
<1>3. payReq'[r] = f
  BY <1>1 DEF PayRefuse, IInv, TypeOK, PayState
<1>4. f \in PayState
  <2>1. a \in PayState
    BY <1>1 DEF PayState, Finished
  <2> HIDE DEF a
  <2>2. b \in PayState
    BY <2>1 DEF PayState
  <2> HIDE DEF b
  <2>3. c \in PayState
    BY <2>2 DEF PayState
  <2> HIDE DEF c
  <2>4. e \in PayState
    BY <2>3 DEF PayState
  <2> HIDE DEF e
  <2>5. QED
    BY <1>2, <2>4 DEF PayState
<1>5. payReq'[r].pc = "answered" /\ payReq'[r].code = CheckCode(m, d)
  BY <1>1, <1>3 DEF PayState
<1> HIDE DEF f
<1>6. MovedTo(r)
  <2>1. payReq'[r] \in PayState
    BY <1>3, <1>4
  <2>2. payReq \in [PayReqs -> PayState]
    BY DEF IInv, TypeOK
  <2>3. QED
    BY <2>1, <2>2 DEF PayRefuse, MovedTo
<1>7. UNCHANGED <<environment, ownTables>>
  BY DEF PayRefuse
<1>8. OnlyOf(r)
  BY <1>6, <1>7 DEF OnlyOf, MovedTo, IInv, TypeOK, ownTables
<1>9. payments[r] = NoRow /\ orders[r] = NoRow
  BY <1>1, Untouched
<1>10. RequestInv(r)'
  BY <1>5, <1>7, <1>9
     DEF RequestInv, RowInv, OrderInv, RecordingInv, ActivePcs, ownTables
<1>11. Acknowledged(r)'
  BY <1>2, <1>5 DEF Acknowledged
<1>12. QED
  BY <1>7, <1>8, <1>10, <1>11, HandlerStep DEF ownTables

\* No row has the key yet: the request goes on to Razorpay.
LEMMA FreshIInv ==
  ASSUME IInv, NEW r \in PayReqs, PayFresh(r)
  PROVE  IInv'
<1>1. payReq \in [PayReqs -> PayState] /\ payReq[r].pc = "lookup"
  BY DEF PayFresh, IInv, TypeOK
<1>2. /\ MovedTo(r)
      /\ payReq'[r].pc = "ordering"
      /\ SameCharge(r)
      /\ payReq'[r].code = payReq[r].code
  BY <1>1 DEF PayFresh, MovedTo, SameCharge, PayState, ActivePcs
<1>3. UNCHANGED <<environment, ownTables>>
  BY DEF PayFresh
<1>4. OnlyOf(r)
  BY <1>2, <1>3 DEF OnlyOf, MovedTo, IInv, TypeOK, ownTables
<1>5. payments[r] = NoRow /\ orders[r] = NoRow /\ payReq[r].code = 0 /\ Charges(r)
  BY <1>1, Untouched DEF ActivePcs
<1>6. RequestInv(r)'
  BY <1>2, <1>3, <1>5
     DEF RequestInv, Charges, RowInv, OrderInv, RecordingInv, SameCharge, ScopedRow,
         ownTables, environment
<1>7. Acknowledged(r)'
  BY <1>2, <1>5 DEF Acknowledged
<1>8. QED
  BY <1>3, <1>4, <1>6, <1>7, HandlerStep DEF ownTables

--------------------------------------------------------------------------------
(* The call to Razorpay, and the insert. *)

\* The answers of a request that has passed its checks.
Answers == {200, 500}

\* An answer changes the request's pc, code and duplicate flag.
LEMMA Answered ==
  ASSUME IInv, NEW r \in PayReqs, NEW code \in Answers, NEW dup \in BOOLEAN,
         PayAnswer(r, code, dup)
  PROVE  /\ MovedTo(r)
         /\ SameCharge(r)
         /\ payReq'[r].pc = "answered"
         /\ payReq'[r].code = code
         /\ payReq'[r].duplicate = dup
<1>1. payReq[r] \in PayState /\ payReq \in [PayReqs -> PayState]
  BY DEF IInv, TypeOK
<1> DEFINE a == [payReq[r] EXCEPT !.pc = "answered"]
           b == [a EXCEPT !.code = code]
           c == [b EXCEPT !.duplicate = dup]
<1>2. payReq'[r] = c
  BY <1>1 DEF PayAnswer, PayState
<1>3. c \in PayState
  <2>1. a \in PayState
    BY <1>1 DEF PayState, Finished
  <2> HIDE DEF a
  <2>2. b \in PayState
    BY <2>1 DEF PayState, Answers
  <2> HIDE DEF b
  <2>3. QED
    BY <2>2 DEF PayState
<1>4. /\ SameCharge(r)
      /\ payReq'[r].pc = "answered"
      /\ payReq'[r].code = code
      /\ payReq'[r].duplicate = dup
  BY <1>1, <1>2 DEF PayState, SameCharge
<1> HIDE DEF c
<1>5. payReq'[r] \in PayState
  BY <1>2, <1>3
<1>6. MovedTo(r)
  BY <1>1, <1>5 DEF PayAnswer, MovedTo
<1>7. QED
  BY <1>4, <1>6

\* Either Razorpay makes the order of this request, or nothing.
MayOrder(r) ==
  \/ UNCHANGED orders
  \/ payReq[r].pc = "ordering" /\ payReq[r].amount > 0 /\ OrderMade(r)

\* What a call leaves at Razorpay.
LEMMA OrderLeft ==
  ASSUME IInv, NEW r \in PayReqs, payReq[r].pc \in ActivePcs, MayOrder(r)
  PROVE  /\ orders' \in [PayReqs -> OrderRow \union {NoRow}]
         /\ \A q \in PayReqs \ {r} : orders'[q] = orders[q]
         /\ orders'[r] # NoRow =>
              /\ orders'[r] = [amount |-> payReq[r].amount, receipt |-> payReq[r].key]
              /\ payReq[r].amount > 0
         /\ OrderMade(r) => orders'[r] # NoRow
<1> DEFINE order == [amount |-> payReq[r].amount, receipt |-> payReq[r].key]
<1>1. orders \in [PayReqs -> OrderRow \union {NoRow}]
  BY DEF IInv, TypeOK
<1>2. orders[r] # NoRow => orders[r] = order /\ payReq[r].amount > 0
  BY DEF IInv, RequestInv, OrderInv
<1>3. order \in OrderRow
  <2>1. Charges(r)
    BY Untouched
  <2>2. decisions[payReq[r].decision].terms \in Terms
    BY <2>1 DEF Charges, ScopedRow, IInv, TypeOK, DecisionRow
  <2>3. payReq[r].amount \in Amounts /\ payReq[r].key \in Keys
    BY <2>1, <2>2, PaymentsAssumption DEF Charges
  <2>4. QED
    BY <2>3 DEF OrderRow
<1>4. order # NoRow
  BY <1>3, PaymentsAssumption
<1>5. CASE UNCHANGED orders
  <2>1. OrderMade(r) => orders'[r] = order
    BY <1>1 DEF OrderMade
  <2>2. QED
    BY <1>1, <1>2, <1>4, <1>5, <2>1
<1>6. CASE payReq[r].amount > 0 /\ OrderMade(r)
  <2>1. orders' = [orders EXCEPT ![r] = order]
    BY <1>6 DEF OrderMade
  <2> HIDE DEF order
  <2>2. /\ orders' \in [PayReqs -> OrderRow \union {NoRow}]
        /\ \A q \in PayReqs \ {r} : orders'[q] = orders[q]
        /\ orders'[r] = order
    BY <1>1, <1>3, <2>1
  <2>3. QED
    BY <1>4, <1>6, <2>2 DEF order
<1>7. QED
  BY <1>5, <1>6 DEF MayOrder

\* A request that answers without a row, whatever it leaves at Razorpay: an error, or
\* a duplicate of a row that is there.
LEMMA AnswerIInv ==
  ASSUME IInv, NEW r \in PayReqs, NEW code \in Answers, NEW dup \in BOOLEAN,
         payReq[r].pc \in ActivePcs, PayAnswer(r, code, dup), MayOrder(r),
         UNCHANGED <<environment, payments>>,
         code = 500 \/ (dup /\ KeyTaken(payReq[r].key))
  PROVE  IInv'
<1>1. /\ MovedTo(r)
      /\ SameCharge(r)
      /\ payReq'[r].pc = "answered"
      /\ payReq'[r].code = code
      /\ payReq'[r].duplicate = dup
  BY Answered
<1>2. /\ orders' \in [PayReqs -> OrderRow \union {NoRow}]
      /\ \A q \in PayReqs \ {r} : orders'[q] = orders[q]
      /\ orders'[r] # NoRow =>
           /\ orders'[r] = [amount |-> payReq[r].amount, receipt |-> payReq[r].key]
           /\ payReq[r].amount > 0
  BY OrderLeft
<1>3. OnlyOf(r)
  BY <1>1, <1>2 DEF OnlyOf, MovedTo, IInv, TypeOK
<1>4. payments[r] = NoRow /\ Charges(r)
  BY Untouched DEF ActivePcs
<1>5. RequestInv(r)'
  BY <1>1, <1>2, <1>4
     DEF RequestInv, Charges, RowInv, OrderInv, RecordingInv, SameCharge, ScopedRow,
         environment
<1>6. Acknowledged(r)'
  BY <1>1 DEF Acknowledged, KeyTaken, SameCharge
<1>7. QED
  BY <1>3, <1>5, <1>6, HandlerStep

\* create_order returned: the request holds a status that says what it did.
LEMMA OrderedIInv ==
  ASSUME IInv, NEW r \in PayReqs, NEW status \in InitialPaymentStatus,
         PayOrdered(r, status), MayOrder(r), UNCHANGED <<environment, payments>>,
         status = "created" => OrderMade(r), status = "simulated" => UNCHANGED orders
  PROVE  IInv'
<1>1. /\ payReq[r] \in PayState
      /\ payReq \in [PayReqs -> PayState]
      /\ payReq[r].pc = "ordering"
      /\ payReq[r].amount > 0
  BY DEF PayOrdered, IInv, TypeOK
<1> DEFINE a == [payReq[r] EXCEPT !.pc = "recording"]
           b == [a EXCEPT !.status = status]
<1>2. payReq'[r] = b
  BY <1>1 DEF PayOrdered, PayState
<1>3. b \in PayState
  <2>1. a \in PayState
    BY <1>1 DEF PayState, ActivePcs
  <2> HIDE DEF a
  <2>2. QED
    BY <2>1 DEF PayState
<1>4. /\ SameCharge(r)
      /\ payReq'[r].pc = "recording"
      /\ payReq'[r].status = status
      /\ payReq'[r].code = payReq[r].code
  BY <1>1, <1>2 DEF PayState, SameCharge
<1> HIDE DEF b
<1>5. payReq'[r] \in PayState
  BY <1>2, <1>3
<1>6. MovedTo(r)
  BY <1>1, <1>5 DEF PayOrdered, MovedTo
<1>7. /\ orders' \in [PayReqs -> OrderRow \union {NoRow}]
      /\ \A q \in PayReqs \ {r} : orders'[q] = orders[q]
      /\ orders'[r] # NoRow =>
           orders'[r] = [amount |-> payReq[r].amount, receipt |-> payReq[r].key]
      /\ OrderMade(r) => orders'[r] # NoRow
  BY <1>1, OrderLeft DEF ActivePcs
<1>8. OnlyOf(r)
  BY <1>6, <1>7 DEF OnlyOf, MovedTo, IInv, TypeOK
<1>9. payments[r] = NoRow /\ orders[r] = NoRow /\ payReq[r].code = 0 /\ Charges(r)
  BY <1>1, Untouched DEF ActivePcs
<1>10. RequestInv(r)'
  BY <1>1, <1>4, <1>7, <1>9
     DEF RequestInv, Charges, RowInv, OrderInv, RecordingInv, SameCharge, ScopedRow,
         environment
<1>11. Acknowledged(r)'
  BY <1>4, <1>9 DEF Acknowledged
<1>12. QED
  BY <1>8, <1>10, <1>11, HandlerStep

\* The row is inserted: it is of the kind of the table, and says what the request did.
LEMMA NewRow ==
  ASSUME IInv, NEW r \in PayReqs, PayRecord(r)
  PROVE  /\ NewPayment(r) \in PaymentRow
         /\ payments' \in [PayReqs -> PaymentRow \union {NoRow}]
         /\ \A q \in PayReqs \ {r} : payments'[q] = payments[q]
         /\ payments'[r] = NewPayment(r)
         /\ payments[r] = NoRow
         /\ payments'[r] # NoRow
<1>1. /\ payReq[r].pc = "recording"
      /\ payReq[r].status \in InitialPaymentStatus
      /\ Charges(r)
      /\ payments[r] = NoRow
  BY Untouched DEF PayRecord, ActivePcs, IInv, RequestInv, RecordingInv
<1>2. decisions[payReq[r].decision].terms \in Terms
  BY <1>1 DEF Charges, ScopedRow, IInv, TypeOK, DecisionRow
<1>3. payReq[r].amount \in Amounts
  BY <1>1, <1>2, PaymentsAssumption DEF Charges
<1>4. OrderId(r) \in PayReqs \union {NoOrder, SimOrder}
  BY DEF OrderId
<1>5. NewPayment(r) \in PaymentRow
  BY <1>1, <1>3, <1>4 DEF NewPayment, PaymentRow, PaymentStatus, Charges
<1>6. payments' = [payments EXCEPT ![r] = NewPayment(r)]
  BY DEF PayRecord
<1>7. NewPayment(r) # NoRow
  BY <1>5, PaymentRowAssumption
<1>8. QED
  BY <1>1, <1>5, <1>6, <1>7 DEF IInv, TypeOK

\* record_payment and the commit.
LEMMA RecordIInv ==
  ASSUME IInv, NEW r \in PayReqs, PayRecord(r)
  PROVE  IInv'
<1>1. /\ NewPayment(r) \in PaymentRow
      /\ payments' \in [PayReqs -> PaymentRow \union {NoRow}]
      /\ \A q \in PayReqs \ {r} : payments'[q] = payments[q]
      /\ payments'[r] = NewPayment(r)
      /\ payments[r] = NoRow
      /\ payments'[r] # NoRow
  BY NewRow
<1>2. /\ MovedTo(r)
      /\ SameCharge(r)
      /\ payReq'[r].pc = "answered"
      /\ payReq'[r].code = 200
      /\ payReq'[r].duplicate = FALSE
  <2> DEFINE code == 200
  <2>1. PayAnswer(r, code, FALSE)
    BY DEF PayRecord
  <2>2. code \in Answers /\ FALSE \in BOOLEAN
    BY DEF Answers
  <2> HIDE DEF code
  <2>3. /\ MovedTo(r)
        /\ SameCharge(r)
        /\ payReq'[r].pc = "answered"
        /\ payReq'[r].code = code
        /\ payReq'[r].duplicate = FALSE
    BY <2>1, <2>2, Answered, Zenon
  <2>4. QED
    BY <2>3 DEF code
<1>3. UNCHANGED <<environment, orders>> /\ payReq[r].pc = "recording"
  BY DEF PayRecord
<1>4. OnlyOf(r)
  BY <1>1, <1>2, <1>3 DEF OnlyOf, MovedTo, IInv, TypeOK
<1>5. /\ Charges(r)
      /\ RecordingInv(r)
      /\ OrderInv(r)
  BY <1>3, Untouched DEF ActivePcs, IInv, RequestInv
<1>6. Charges(r)'
  BY <1>2, <1>3, <1>5 DEF Charges, SameCharge, ScopedRow, environment
<1>7. RowInv(r)'
  BY <1>1, <1>2, <1>3, <1>5, PaymentRowAssumption
     DEF RowInv, RecordingInv, SameCharge, NewPayment, OrderId, InitialPaymentStatus
<1>8. OrderInv(r)' /\ RecordingInv(r)'
  BY <1>2, <1>3, <1>5 DEF OrderInv, RecordingInv, SameCharge
<1>9. RequestInv(r)'
  BY <1>2, <1>6, <1>7, <1>8 DEF RequestInv
<1>10. Acknowledged(r)'
  BY <1>1, <1>2 DEF Acknowledged, NewPayment, SameCharge
<1>11. ~KeyTaken(payments'[r].key)
  BY <1>1 DEF PayRecord, NewPayment
<1>12. QED
  BY <1>1, <1>4, <1>9, <1>10, <1>11, HandlerStep

\* Every step of the handler keeps the invariant.
LEMMA StepIInv ==
  ASSUME IInv, NEW r \in PayReqs, PayArrive(r) \/ PayStep(r)
  PROVE  IInv'
<1>1. CASE PayArrive(r)
  BY <1>1, CheckIInv, RefuseIInv DEF PayArrive
<1>2. CASE PayDuplicate(r)
  <2>1. /\ payReq[r].pc \in ActivePcs
        /\ PayAnswer(r, 200, TRUE)
        /\ KeyTaken(payReq[r].key)
        /\ MayOrder(r)
        /\ UNCHANGED <<environment, payments>>
    BY <1>2 DEF PayDuplicate, ActivePcs, MayOrder, ownTables
  <2>2. 200 \in Answers /\ TRUE \in BOOLEAN
    BY DEF Answers
  <2>3. QED
    BY <2>1, <2>2, AnswerIInv
<1>3. CASE PayFresh(r)
  BY <1>3, FreshIInv
<1>4. CASE PayNothingToCharge(r) \/ PayClash(r) \/ PayBusy(r)
  <2>1. /\ payReq[r].pc \in ActivePcs
        /\ PayAnswer(r, 500, FALSE)
        /\ MayOrder(r)
        /\ UNCHANGED <<environment, payments>>
    BY <1>4 DEF PayNothingToCharge, PayClash, PayBusy, ActivePcs, MayOrder, ownTables
  <2>2. 500 \in Answers /\ FALSE \in BOOLEAN
    BY DEF Answers
  <2>3. QED
    BY <2>1, <2>2, AnswerIInv
<1>5. CASE PaySimulated(r)
  BY <1>5, OrderedIInv DEF PaySimulated, InitialPaymentStatus, MayOrder, ownTables
<1>6. CASE PayOrderCreated(r)
  BY <1>6, OrderedIInv DEF PayOrderCreated, PayOrdered, InitialPaymentStatus, MayOrder
<1>7. CASE PayOrderFailed(r)
  BY <1>7, OrderedIInv DEF PayOrderFailed, PayOrdered, InitialPaymentStatus, MayOrder
<1>8. CASE PayOrderRaises(r)
  <2>1. /\ payReq[r].pc \in ActivePcs
        /\ PayAnswer(r, 500, FALSE)
        /\ MayOrder(r)
        /\ UNCHANGED <<environment, payments>>
    BY <1>8 DEF PayOrderRaises, ActivePcs, MayOrder
  <2>2. 500 \in Answers /\ FALSE \in BOOLEAN
    BY DEF Answers
  <2>3. QED
    BY <2>1, <2>2, AnswerIInv
<1>9. CASE PayRecord(r)
  BY <1>9, RecordIInv
<1>10. QED
  BY <1>1, <1>2, <1>3, <1>4, <1>5, <1>6, <1>7, <1>8, <1>9 DEF PayStep

--------------------------------------------------------------------------------
(* Everything else that runs. *)

\* What other handlers may do to a decision that is there.
DecisionsKept ==
  \A d \in IntentReqs :
    decisions[d] # NoRow =>
      /\ decisions'[d] # NoRow
      /\ decisions'[d].merchant = decisions[d].merchant
      /\ decisions'[d].terms = decisions[d].terms
      /\ decisions[d].state # "PENDING_APPROVAL" => decisions'[d].state # "PENDING_APPROVAL"

\* A step that keeps decisions in this sense disturbs no request.
LEMMA DecisionStep ==
  ASSUME IInv, DecisionsKept, UNCHANGED <<now, live, ownTables, payReq>>,
         decisions' \in [IntentReqs -> DecisionRow \union {NoRow}], lockFree' \in BOOLEAN
  PROVE  IInv'
<1> USE DEF IInv, ownTables
<1>1. TypeOK'
  BY DEF TypeOK
<1>2. OneRowPerKey'
  BY DEF OneRowPerKey
<1>3. ASSUME NEW r \in PayReqs PROVE RequestInv(r)' /\ Acknowledged(r)'
  <2>1. RequestInv(r) /\ Acknowledged(r)
    OBVIOUS
  <2>2. Charges(r) => Charges(r)'
    BY DEF Charges, ScopedRow, DecisionsKept
  <2>3. RequestInv(r)'
    BY <2>1, <2>2 DEF RequestInv, RowInv, OrderInv, RecordingInv
  <2>4. QED
    BY <2>1, <2>3 DEF Acknowledged, KeyTaken
<1>4. QED
  BY <1>1, <1>2, <1>3

\* A negotiation publishes a decision where there was none.
LEMMA PublishedIInv ==
  ASSUME IInv, NEW d \in IntentReqs, DecisionPublished(d)
  PROVE  IInv'
<1>1. PICK m \in Merchants, terms \in Terms \union {NoTerms}, escalated \in BOOLEAN,
           state \in NegotiationState, expiry \in 0 .. (MaxTime + OfferTtl) :
        decisions' =
          [decisions EXCEPT ![d] =
             [merchant |-> m, terms |-> terms, requiresApproval |-> escalated,
              state |-> state, expiresAt |-> expiry]]
  BY DEF DecisionPublished
<1> DEFINE row == [merchant |-> m, terms |-> terms, requiresApproval |-> escalated,
                   state |-> state, expiresAt |-> expiry]
<1>2. expiry \in Nat
  BY PaymentsAssumption
<1>3. row \in DecisionRow
  BY <1>2 DEF DecisionRow
<1>4. decisions' = [decisions EXCEPT ![d] = row]
  BY <1>1
<1> HIDE DEF row
<1>5. decisions' \in [IntentReqs -> DecisionRow \union {NoRow}]
  BY <1>3, <1>4 DEF IInv, TypeOK
<1>6. DecisionsKept
  BY <1>4 DEF DecisionPublished, DecisionsKept, IInv, TypeOK
<1>7. QED
  BY <1>5, <1>6, DecisionStep DEF DecisionPublished

\* A merchant rules on an escalated decision.
LEMMA RuledIInv ==
  ASSUME IInv, NEW d \in IntentReqs, DecisionRuled(d)
  PROVE  IInv'
<1>1. PICK verdict \in Verdict :
        decisions' = [decisions EXCEPT ![d].state = ClosedBy(verdict)]
  BY DEF DecisionRuled
<1>2. decisions[d] \in DecisionRow /\ decisions \in [IntentReqs -> DecisionRow \union {NoRow}]
  BY DEF DecisionRuled, IInv, TypeOK
<1>3. ClosedBy(verdict) \in NegotiationState \ {"PENDING_APPROVAL"}
  BY DEF ClosedBy, NegotiationState
<1>4. /\ decisions'[d] = [decisions[d] EXCEPT !.state = ClosedBy(verdict)]
      /\ \A e \in IntentReqs \ {d} : decisions'[e] = decisions[e]
  BY <1>1, <1>2
<1>5. decisions'[d] \in DecisionRow
  BY <1>2, <1>3, <1>4 DEF DecisionRow
<1>6. decisions' \in [IntentReqs -> DecisionRow \union {NoRow}]
  BY <1>1, <1>2, <1>5
<1>7. /\ decisions'[d] # NoRow
      /\ decisions'[d].merchant = decisions[d].merchant
      /\ decisions'[d].terms = decisions[d].terms
      /\ decisions'[d].state # "PENDING_APPROVAL"
  BY <1>2, <1>3, <1>4, <1>5, RowAssumption DEF DecisionRow
<1>8. DecisionsKept
  BY <1>4, <1>7 DEF DecisionsKept
<1>9. UNCHANGED <<now, lockFree, live, ownTables, payReq>>
  BY DEF DecisionRuled
<1>10. QED
  BY <1>6, <1>8, <1>9, DecisionStep DEF IInv, TypeOK

\* A webhook settles a payment: a row that names its order, and only its status.
LEMMA SettledKeepsRow ==
  ASSUME IInv, NEW r \in PayReqs, PaymentSettled(r)
  PROVE  /\ payments' \in [PayReqs -> PaymentRow \union {NoRow}]
         /\ \A q \in PayReqs \ {r} : payments'[q] = payments[q]
         /\ payments[r] # NoRow /\ payments'[r] # NoRow
         /\ payments'[r].decision = payments[r].decision
         /\ payments'[r].merchant = payments[r].merchant
         /\ payments'[r].key = payments[r].key
         /\ payments'[r].amount = payments[r].amount
         /\ payments'[r].order = payments[r].order
         /\ payments'[r].order \in PayReqs
         /\ payments'[r].status \in {"captured", "failed"}
<1>1. PICK status \in {"captured", "failed"} :
        payments' = [payments EXCEPT ![r].status = status]
  BY DEF PaymentSettled
<1>2. /\ payments[r] \in PaymentRow
      /\ payments \in [PayReqs -> PaymentRow \union {NoRow}]
      /\ payments[r] # NoRow
      /\ payments[r].order \in PayReqs
  BY DEF PaymentSettled, IInv, TypeOK
<1>3. /\ payments'[r] = [payments[r] EXCEPT !.status = status]
      /\ \A q \in PayReqs \ {r} : payments'[q] = payments[q]
  BY <1>1, <1>2
<1>4. payments'[r] \in PaymentRow
  BY <1>2, <1>3 DEF PaymentRow, PaymentStatus, InitialPaymentStatus
<1>5. payments' \in [PayReqs -> PaymentRow \union {NoRow}]
  BY <1>1, <1>2, <1>4
<1>6. QED
  BY <1>2, <1>3, <1>4, <1>5, PaymentRowAssumption DEF PaymentRow

\* A settled payment is still the row of its request.
LEMMA SettledIInv ==
  ASSUME IInv, NEW r \in PayReqs, PaymentSettled(r)
  PROVE  IInv'
<1>1. UNCHANGED <<environment, orders, payReq>>
  BY DEF PaymentSettled
<1>2. /\ payments' \in [PayReqs -> PaymentRow \union {NoRow}]
      /\ \A q \in PayReqs \ {r} : payments'[q] = payments[q]
  BY SettledKeepsRow
<1>3. /\ payments[r] # NoRow /\ payments'[r] # NoRow
      /\ payments'[r].decision = payments[r].decision
      /\ payments'[r].merchant = payments[r].merchant
      /\ payments'[r].key = payments[r].key
      /\ payments'[r].amount = payments[r].amount
      /\ payments'[r].order = payments[r].order
      /\ payments'[r].order \in PayReqs
      /\ payments'[r].status \in {"captured", "failed"}
  BY SettledKeepsRow
<1>4. RequestInv(r) /\ Acknowledged(r)
  BY DEF IInv
<1>5. RequestInv(r)'
  BY <1>1, <1>3, <1>4, PaymentRowAssumption
     DEF RequestInv, Charges, RowInv, OrderInv, RecordingInv, ScopedRow, environment
<1>6. ASSUME NEW q \in PayReqs, KeyTaken(payReq[q].key)
      PROVE  \E p \in PayReqs : payments'[p] # NoRow /\ payments'[p].key = payReq[q].key
  <2>1. \A p \in PayReqs :
          payments[p] # NoRow => payments'[p] # NoRow /\ payments'[p].key = payments[p].key
    BY <1>2, <1>3
  <2>2. QED
    BY <1>6, <2>1, RowsKeptTakeKeys
<1>7. TypeOK'
  BY <1>1, <1>2 DEF IInv, TypeOK, environment
<1>8. OneRowPerKey'
  <2>1. \A q \in PayReqs :
          payments'[q] # NoRow => payments[q] # NoRow /\ payments'[q].key = payments[q].key
    BY <1>2, <1>3
  <2>2. QED
    BY <2>1 DEF IInv, OneRowPerKey
<1>9. Acknowledged(r)'
  BY <1>1, <1>3, <1>4, <1>6 DEF Acknowledged, KeyTaken
<1>10. ASSUME NEW q \in PayReqs, q # r PROVE RequestInv(q)' /\ Acknowledged(q)'
  <2>1. RequestInv(q) /\ Acknowledged(q)
    BY DEF IInv
  <2>2. payments'[q] = payments[q] /\ payReq'[q] = payReq[q] /\ orders'[q] = orders[q]
    BY <1>1, <1>2, <1>10
  <2>3. RequestInv(q)'
    BY <1>1, <2>1, <2>2
       DEF RequestInv, Charges, RowInv, OrderInv, RecordingInv, ScopedRow, environment
  <2>4. QED
    BY <1>6, <2>1, <2>2, <2>3 DEF Acknowledged, KeyTaken
<1>11. QED
  BY <1>5, <1>7, <1>8, <1>9, <1>10 DEF IInv

\* The process dies and is started again: what was in flight gets no answer.
LEMMA CrashIInv ==
  ASSUME IInv, Crash
  PROVE  IInv'
<1>1. payReq \in [PayReqs -> PayState] /\ UNCHANGED <<now, decisions, ownTables>>
  BY DEF IInv, TypeOK, Crash
<1>2. ASSUME NEW r \in PayReqs
      PROVE  /\ payReq'[r] \in PayState
             /\ SameCharge(r)
             /\ payReq'[r].code = payReq[r].code
             /\ payReq'[r].status = payReq[r].status
             /\ payReq'[r].duplicate <=> payReq[r].duplicate
             /\ \/ payReq'[r].pc = payReq[r].pc
                \/ payReq[r].pc \in ActivePcs /\ payReq'[r].pc = "lost"
  <2>1. payReq'[r] = IF r \in ActivePays THEN [payReq[r] EXCEPT !.pc = "lost"] ELSE payReq[r]
    BY DEF Crash, PaysLost
  <2>2. payReq[r] \in PayState
    BY <1>1
  <2>3. CASE r \in ActivePays
    <3>1. payReq'[r] = [payReq[r] EXCEPT !.pc = "lost"] /\ payReq[r].pc \in ActivePcs
      BY <2>1, <2>3 DEF ActivePays
    <3>2. QED
      BY <2>2, <3>1 DEF PayState, SameCharge, Finished
  <2>4. CASE r \notin ActivePays
    <3>1. payReq'[r] = payReq[r]
      BY <2>1, <2>4
    <3>2. QED
      BY <2>2, <3>1 DEF SameCharge
  <2>5. QED
    BY <2>3, <2>4
<1>3. payReq' \in [PayReqs -> PayState]
  BY <1>2 DEF Crash, PaysLost
<1>4. TypeOK'
  BY <1>1, <1>3 DEF IInv, TypeOK, Crash, ownTables
<1>5. OneRowPerKey'
  BY <1>1 DEF IInv, OneRowPerKey, ownTables
<1>6. ASSUME NEW r \in PayReqs PROVE RequestInv(r)' /\ Acknowledged(r)'
  <2>1. RequestInv(r) /\ Acknowledged(r)
    BY DEF IInv
  <2>2. Charges(r) => Charges(r)'
    BY <1>1, <1>2 DEF Charges, SameCharge, ScopedRow
  <2>3. RequestInv(r)'
    <3>1. UNCHANGED <<payments, orders>>
      BY <1>1 DEF ownTables
    <3>2. RowInv(r)'
      BY <1>2, <2>1, <3>1 DEF RequestInv, RowInv, SameCharge, ActivePcs
    <3>3. OrderInv(r)'
      BY <1>2, <2>1, <3>1 DEF RequestInv, OrderInv, SameCharge
    <3>4. RecordingInv(r)'
      BY <1>1, <1>2, <2>1, <3>1 DEF RequestInv, RecordingInv, SameCharge
    <3>5. QED
      BY <1>2, <2>1, <2>2, <3>1, <3>2, <3>3, <3>4 DEF RequestInv, ActivePcs
  <2>4. Acknowledged(r)'
    BY <1>1, <1>2, <2>1 DEF Acknowledged, KeyTaken, SameCharge, ownTables
  <2>5. QED
    BY <2>3, <2>4
<1>7. QED
  BY <1>4, <1>5, <1>6 DEF IInv

\* The clock, the lock and stuttering touch nothing the invariant speaks of.
LEMMA IdleIInv ==
  ASSUME IInv, UNCHANGED <<decisions, live, ownTables, payReq>>,
         now' \in Nat, lockFree' \in BOOLEAN
  PROVE  IInv'
BY DEF IInv, TypeOK, OneRowPerKey, RequestInv, Charges, RowInv, OrderInv, RecordingInv,
       Acknowledged, KeyTaken, ScopedRow, ownTables

\* No step breaks the invariant.
LEMMA NextIInv == IInv /\ [Next]_vars => IInv'
<1> SUFFICES ASSUME IInv, [Next]_vars PROVE IInv'
  OBVIOUS
<1>1. now \in Nat /\ lockFree \in BOOLEAN
  BY DEF IInv, TypeOK
<1>2. ASSUME NEW r \in PayReqs, PayArrive(r) \/ PayStep(r) PROVE IInv'
  BY <1>2, StepIInv
<1>3. CASE Crash
  BY <1>3, CrashIInv
<1>4. CASE Tick \/ LockMoves \/ UNCHANGED vars
  <2>1. now' \in Nat
    BY <1>1, <1>4 DEF Tick, LockMoves, vars, environment
  <2>2. lockFree' \in BOOLEAN
    BY <1>1, <1>4, Zenon DEF Tick, LockMoves, vars, environment
  <2>3. UNCHANGED <<decisions, live, ownTables, payReq>>
    BY <1>4 DEF Tick, LockMoves, vars, environment
  <2>4. QED
    BY <2>1, <2>2, <2>3, IdleIInv
<1>5. ASSUME NEW d \in IntentReqs, DecisionPublished(d) \/ DecisionRuled(d) PROVE IInv'
  BY <1>5, PublishedIInv, RuledIInv
<1>6. ASSUME NEW r \in PayReqs, PaymentSettled(r) PROVE IInv'
  BY <1>6, SettledIInv
<1>7. QED
  BY <1>2, <1>3, <1>4, <1>5, <1>6 DEF Next, OtherHandlers

--------------------------------------------------------------------------------
(* The theorems. *)

\* In every reachable state a request, its row, its order and the decision they are
\* for agree.
THEOREM SpecIInv == Spec => []IInv
BY InitIInv, NextIInv, PTL DEF Spec

\* Every table and every handler hold values of their kind.
THEOREM TypeCorrect == Spec => []TypeOK
<1>1. IInv => TypeOK
  BY DEF IInv
<1>2. QED
  BY <1>1, SpecIInv, PTL

\* However requests with one key interleave, retry or crash, the table holds at most
\* one row for it.
THEOREM KeysAreUnique == Spec => []OneRowPerKey
<1>1. IInv => OneRowPerKey
  BY DEF IInv
<1>2. QED
  BY <1>1, SpecIInv, PTL

\* The amount booked and the amount ordered are the frozen one, and positive.
THEOREM AmountsAreTheServers == Spec => []ServerDerivedAmount
<1>1. IInv => ServerDerivedAmount
  <2> SUFFICES ASSUME IInv, NEW r \in PayReqs, RequestInv(r)
               PROVE  ServerDerivedAmount!(r)
    BY DEF IInv, ServerDerivedAmount
  <2>1. QED
    BY DEF RequestInv, Charges, RowInv, OrderInv
<1>2. QED
  BY <1>1, SpecIInv, PTL

\* Nothing is at work, ordered or booked on a decision that is missing or pending.
THEOREM PayableIsCharged == Spec => []OnlyPayableIsCharged
<1>1. IInv => OnlyPayableIsCharged
  <2> SUFFICES ASSUME IInv, NEW r \in PayReqs,
                      payReq[r].pc \in ActivePcs \/ payments[r] # NoRow \/ orders[r] # NoRow
               PROVE  /\ decisions[payReq[r].decision] # NoRow
                      /\ decisions[payReq[r].decision].state # "PENDING_APPROVAL"
    BY DEF OnlyPayableIsCharged
  <2>1. Charges(r)
    BY DEF IInv, RequestInv
  <2>2. QED
    BY <2>1 DEF Charges, ScopedRow
<1>2. QED
  BY <1>1, SpecIInv, PTL

\* A 200 answer is durable.
THEOREM AcknowledgementsAreDurable == Spec => []AcknowledgedIsRecorded
<1>1. IInv => AcknowledgedIsRecorded
  BY DEF IInv, Acknowledged, AcknowledgedIsRecorded
<1>2. QED
  BY <1>1, SpecIInv, PTL

\* A row says truly what happened at Razorpay.
THEOREM RowsAreTrue == Spec => []RowMatchesRazorpay
<1>1. IInv => RowMatchesRazorpay
  BY DEF IInv, RequestInv, RowInv, OrderInv, RowMatchesRazorpay
<1>2. QED
  BY <1>1, SpecIInv, PTL

--------------------------------------------------------------------------------
(* What is booked under a key. *)

\* A key that only one row has selects that row.
LEMMA RowOfKey ==
  ASSUME NEW table, NEW r \in PayReqs, table[r] # NoRow,
         \A q \in PayReqs : table[q] # NoRow /\ table[q].key = table[r].key => q = r
  PROVE  RowOf(table, table[r].key) = table[r]
<1> DEFINE Has(q) == table[q] # NoRow /\ table[q].key = table[r].key
           chosen == CHOOSE q \in PayReqs : Has(q)
<1>1. Has(r)
  OBVIOUS
<1>2. chosen \in PayReqs /\ Has(chosen)
  BY <1>1, Zenon
<1>3. chosen = r
  BY <1>2
<1>4. QED
  BY <1>3, Zenon DEF RowOf

\* Rows that come or go nowhere and keep all but their status leave the book alone.
LEMMA BookKept ==
  ASSUME IInv, IInv', NEW k \in Keys,
         \A r \in PayReqs :
           \/ payments'[r] = payments[r]
           \/ /\ payments[r] # NoRow /\ payments'[r] # NoRow
              /\ payments'[r].decision = payments[r].decision
              /\ payments'[r].merchant = payments[r].merchant
              /\ payments'[r].key = payments[r].key
              /\ payments'[r].amount = payments[r].amount
              /\ payments'[r].order = payments[r].order
           \/ payments[r] = NoRow /\ payments'[r] # NoRow /\ payments'[r].key # k
  PROVE  Booked(k)' = Booked(k)
<1>1. CASE KeyTaken(k)
  <2>1. PICK r \in PayReqs : payments[r] # NoRow /\ payments[r].key = k
    BY <1>1 DEF KeyTaken
  <2>2. /\ payments'[r] # NoRow
        /\ payments'[r].key = k
        /\ payments'[r].decision = payments[r].decision
        /\ payments'[r].merchant = payments[r].merchant
        /\ payments'[r].amount = payments[r].amount
        /\ payments'[r].order = payments[r].order
    BY <2>1
  <2>3. RowOf(payments, k) = payments[r]
    BY <2>1, RowOfKey DEF IInv, OneRowPerKey
  <2>4. RowOf(payments', k) = payments'[r]
    BY <2>2, RowOfKey DEF IInv, OneRowPerKey
  <2>5. KeyTaken(k)'
    BY <2>2 DEF KeyTaken
  <2>6. QED
    BY <1>1, <2>2, <2>3, <2>4, <2>5 DEF Booked
<1>2. CASE ~KeyTaken(k)
  <2>1. ~KeyTaken(k)'
    BY <1>2 DEF KeyTaken
  <2>2. QED
    BY <1>2, <2>1 DEF Booked
<1>3. QED
  BY <1>1, <1>2

\* The insert books what the request charged for, under a key that was free.
LEMMA RecordBooks ==
  ASSUME IInv, IInv', NEW r \in PayReqs, PayRecord(r)
  PROVE  Book!BookNext
<1> DEFINE charge == [decision |-> payReq[r].decision, merchant |-> payReq[r].merchant,
                      amount |-> payReq[r].amount, order |-> OrderId(r)]
<1>1. /\ NewPayment(r) \in PaymentRow
      /\ \A q \in PayReqs \ {r} : payments'[q] = payments[q]
      /\ payments'[r] = NewPayment(r)
      /\ payments[r] = NoRow
      /\ payments'[r] # NoRow
  BY NewRow
<1>2. Charges(r) /\ payReq[r].amount > 0
  BY Untouched DEF PayRecord, ActivePcs, IInv, RequestInv, RecordingInv
<1>3. PICK k \in Keys : k = payReq[r].key
  BY <1>2 DEF Charges
<1>4. Booked(k) = NoRow
  BY <1>3 DEF PayRecord, Booked
<1>5. Booked(k)' = charge
  <2>1. payments'[r].key = k
    BY <1>1, <1>3 DEF NewPayment
  <2>2. RowOf(payments', k) = payments'[r]
    BY <1>1, <2>1, RowOfKey DEF IInv, OneRowPerKey
  <2>3. \E q \in PayReqs : payments'[q] # NoRow /\ payments'[q].key = k
    BY <1>1, <2>1
  <2>4. QED
    BY <1>1, <2>2, <2>3 DEF Booked, KeyTaken, NewPayment
<1>6. charge # NoRow
  BY <1>1, PaymentRowAssumption DEF NewPayment, PaymentRow, BookedCharge
<1>7. ASSUME NEW key \in Keys, key # k PROVE Booked(key)' = Booked(key)
  BY <1>1, <1>3, <1>7, BookKept DEF NewPayment
<1>8. /\ decisions[charge.decision] # NoRow
      /\ decisions[charge.decision].merchant = charge.merchant
      /\ decisions[charge.decision].state # "PENDING_APPROVAL"
      /\ charge.amount = decisions[charge.decision].terms.price
                           * decisions[charge.decision].terms.quantity
      /\ charge.amount > 0
  BY <1>2 DEF Charges, ScopedRow, Amount
<1> HIDE DEF charge
<1>9. [key \in Keys |-> Booked(key)]'
        = [[key \in Keys |-> Booked(key)] EXCEPT ![k] = charge]
  BY <1>5, <1>7
<1>10. Book!Charge(k)
  BY <1>3, <1>4, <1>5, <1>6, <1>8, <1>9 DEF Book!Charge
<1>11. QED
  BY <1>3, <1>10 DEF Book!BookNext

\* No other step of the handler writes the table.
LEMMA OtherStepsKeepPayments ==
  ASSUME [Next]_vars,
         \A r \in PayReqs : ~PayRecord(r),
         \A r \in PayReqs : ~PaymentSettled(r)
  PROVE  UNCHANGED payments
<1>1. ASSUME NEW r \in PayReqs, PayArrive(r) PROVE UNCHANGED payments
  BY <1>1 DEF PayArrive, PayCheck, PayRefuse, ownTables
<1>2. ASSUME NEW r \in PayReqs, PayStep(r) PROVE UNCHANGED payments
  BY <1>2 DEF PayStep, PayDuplicate, PayFresh, PayNothingToCharge, PaySimulated,
              PayOrderCreated, PayOrderFailed, PayOrderRaises, PayClash, PayBusy, ownTables
<1>3. CASE Crash \/ Tick \/ LockMoves \/ UNCHANGED vars
  BY <1>3 DEF Crash, Tick, LockMoves, vars, ownTables
<1>4. ASSUME NEW d \in IntentReqs, DecisionPublished(d) \/ DecisionRuled(d)
      PROVE  UNCHANGED payments
  BY <1>4 DEF DecisionPublished, DecisionRuled, ownTables
<1>5. QED
  BY <1>1, <1>2, <1>3, <1>4 DEF Next, OtherHandlers

\* Seen by key, without requests, Razorpay, locks, retries and crashes, the service
\* books at most one charge per key, for what its decision froze, and keeps it.
THEOREM SpecImplementsBook == Spec => ImplementsBook
<1>1. Init => Book!BookInit
  BY DEF Init, Book!BookInit, Booked, KeyTaken
<1>2. IInv /\ IInv' /\ [Next]_vars => [Book!BookNext]_([k \in Keys |-> Booked(k)])
  <2> SUFFICES ASSUME IInv, IInv', [Next]_vars
               PROVE  [Book!BookNext]_([k \in Keys |-> Booked(k)])
    OBVIOUS
  <2>1. ASSUME NEW r \in PayReqs, PayRecord(r)
        PROVE  Book!BookNext
    BY <2>1, RecordBooks
  <2>2. ASSUME NEW r \in PayReqs, PaymentSettled(r)
        PROVE  UNCHANGED [k \in Keys |-> Booked(k)]
    <3>1. ASSUME NEW k \in Keys PROVE Booked(k)' = Booked(k)
      BY <2>2, SettledKeepsRow, BookKept
    <3>2. QED
      BY <3>1
  <2>3. CASE /\ ~ \E r \in PayReqs : PayRecord(r)
             /\ ~ \E r \in PayReqs : PaymentSettled(r)
    <3>1. UNCHANGED payments
      BY <2>3, OtherStepsKeepPayments
    <3>2. QED
      BY <3>1 DEF Booked, KeyTaken, RowOf
  <2>4. QED
    BY <2>1, <2>2, <2>3
<1>3. QED
  BY <1>1, <1>2, SpecIInv, PTL DEF Spec, ImplementsBook, Book!BookSpec

================================================================================
