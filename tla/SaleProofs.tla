------------------------------- MODULE SaleProofs -------------------------------
(***************************************************************************)
(* Proofs about Sale: whatever the order of its steps, a payment on the    *)
(* books stays true to the deal it charges for, because deals are frozen,  *)
(* approvals and orders are not taken back, and neither is a capture.      *)
(***************************************************************************)
EXTENDS Sale, TLAPS

SaleTypeOK ==
  /\ deals \in [IntentReqs -> FrozenDeal \union {NoRow}]
  /\ approved \subseteq IntentReqs
  /\ orders \in [PayReqs -> [decision : IntentReqs, amount : Int] \union {NoRow}]
  /\ payments \in [PayReqs -> PaymentRow \union {NoRow}]
  /\ attempts \in
       [Attempts -> [order : PayReqs \union {NoOrder},
                     status : {"none", "authorized", "captured", "failed"}]]

\* A captured attempt on order r.
Captured(r) == \E p \in Attempts : attempts[p] = [order |-> r, status |-> "captured"]

\* What a payment on the books charges for, and how far it got.
Booked(r) ==
  LET row == payments[r]
      order == OrderFor(row.decision)
  IN  /\ Cleared(row.decision)
      /\ row.merchant = deals[row.decision].merchant
      /\ row.amount = order.amount
      /\ row.order = r => orders[r] = order
      /\ row.status = "captured" => row.order = r /\ Captured(r)

SaleInv ==
  /\ SaleTypeOK
  /\ \A r \in PayReqs : payments[r] # NoRow => Booked(r)

\* Nothing is booked at first.
LEMMA InitSaleInv == SaleInit => SaleInv
BY DEF SaleInit, SaleInv, SaleTypeOK

\* A deal that was cleared stays cleared, on the same terms, while deals that are there
\* stay as they are and approvals are only added.
LEMMA ClearedStays ==
  ASSUME NEW d \in IntentReqs, Cleared(d), deals'[d] = deals[d],
         d \in approved => d \in approved'
  PROVE  Cleared(d)' /\ OrderFor(d)' = OrderFor(d)
BY DEF Cleared, OrderFor

\* A payment stays true to its deal in a step that leaves it and its order alone.
LEMMA BookedStays ==
  ASSUME SaleInv, NEW r \in PayReqs, payments[r] # NoRow,
         \A d \in IntentReqs : deals[d] \in FrozenDeal => deals'[d] = deals[d],
         approved \subseteq approved',
         payments'[r] = payments[r], orders'[r] = orders[r],
         Captured(r) => Captured(r)'
  PROVE  Booked(r)'
<1>1. Booked(r) /\ payments[r] \in PaymentRow
  BY DEF SaleInv, SaleTypeOK
<1>2. PICK d \in IntentReqs : d = payments[r].decision
  BY <1>1 DEF PaymentRow
<1>3. Cleared(d) /\ deals'[d] = deals[d]
  BY <1>1, <1>2 DEF Booked, Cleared
<1>4. Cleared(d)' /\ OrderFor(d)' = OrderFor(d)
  BY <1>3, ClearedStays
<1>5. payments'[r].decision = d
  BY <1>2
<1>6. Cleared(payments[r].decision)' /\ OrderFor(payments[r].decision)' = OrderFor(d)
  BY <1>4, <1>5 DEF Cleared, OrderFor
<1>7. QED
  BY <1>1, <1>2, <1>3, <1>6 DEF Booked

\* A new deal disturbs none that was frozen before.
LEMMA FreezeKeeps ==
  ASSUME SaleInv, NEW d \in IntentReqs, Freeze(d)
  PROVE  SaleInv'
<1>1. SaleTypeOK'
  BY DEF Freeze, SaleInv, SaleTypeOK
<1>2. \A e \in IntentReqs : deals[e] \in FrozenDeal => deals'[e] = deals[e]
  BY RowAssumption DEF Freeze, SaleInv, SaleTypeOK
<1>3. ASSUME NEW r \in PayReqs, payments'[r] # NoRow PROVE Booked(r)'
  BY <1>2, <1>3, BookedStays DEF Freeze, Captured
<1>4. QED
  BY <1>1, <1>3 DEF SaleInv

\* An approval clears more, never less.
LEMMA ApproveKeeps ==
  ASSUME SaleInv, NEW d \in IntentReqs, Approve(d)
  PROVE  SaleInv'
<1>1. SaleTypeOK'
  BY DEF Approve, SaleInv, SaleTypeOK
<1>2. ASSUME NEW r \in PayReqs, payments'[r] # NoRow PROVE Booked(r)'
  BY <1>2, BookedStays DEF Approve, Captured
<1>3. QED
  BY <1>1, <1>2 DEF SaleInv

\* What a cleared decision is ordered for is an amount.
LEMMA OrderIsTyped ==
  ASSUME NEW d \in IntentReqs, Cleared(d), Terms \subseteq [price : Int, quantity : Int]
  PROVE  OrderFor(d) \in [decision : IntentReqs, amount : Int]
<1>1. deals[d].terms \in Terms
  BY DEF Cleared, FrozenDeal
<1>2. QED
  BY <1>1 DEF OrderFor

\* An order is made for a request that has neither an order nor a payment.
LEMMA OrderKeeps ==
  ASSUME SaleInv, Terms \subseteq [price : Int, quantity : Int], NEW r \in PayReqs, Order(r)
  PROVE  SaleInv'
<1>1. PICK d \in IntentReqs :
        Cleared(d) /\ orders' = [orders EXCEPT ![r] = OrderFor(d)]
  BY DEF Order
<1>2. OrderFor(d) \in [decision : IntentReqs, amount : Int]
  BY <1>1, OrderIsTyped
<1>3. SaleTypeOK'
  BY <1>1, <1>2 DEF Order, SaleInv, SaleTypeOK
<1>4. ASSUME NEW q \in PayReqs, payments'[q] # NoRow PROVE Booked(q)'
  <2>1. q # r /\ payments[q] # NoRow
    BY <1>4 DEF Order
  <2>2. orders'[q] = orders[q]
    BY <1>1, <2>1 DEF SaleInv, SaleTypeOK
  <2>3. QED
    BY <1>4, <2>1, <2>2, BookedStays DEF Order, Captured
<1>5. QED
  BY <1>3, <1>4 DEF SaleInv

\* A payment is booked true to its deal.
LEMMA BookKeeps ==
  ASSUME SaleInv, NEW r \in PayReqs, Book(r)
  PROVE  SaleInv'
<1> DEFINE row == payments'[r]
<1>1. /\ payments[r] = NoRow
      /\ row \in PaymentRow
      /\ payments' = [payments EXCEPT ![r] = row]
      /\ UNCHANGED <<deals, approved, orders, attempts>>
  BY DEF Book
<1>2. SaleTypeOK'
  BY <1>1 DEF SaleInv, SaleTypeOK
<1>3. Booked(r)'
  <2>1. /\ Cleared(row.decision)
        /\ row.merchant = deals[row.decision].merchant
        /\ row.amount = OrderFor(row.decision).amount
        /\ row.status \in InitialPaymentStatus
        /\ row.order = r => orders[r] = OrderFor(row.decision)
    BY DEF Book
  <2>2. row.status # "captured"
    BY <2>1 DEF InitialPaymentStatus
  <2>3. /\ Cleared(payments[r].decision)'
        /\ OrderFor(payments[r].decision)' = OrderFor(row.decision)
    BY <1>1, <2>1 DEF Cleared, OrderFor
  <2>4. QED
    BY <1>1, <2>1, <2>2, <2>3 DEF Booked
<1>4. ASSUME NEW q \in PayReqs, q # r, payments'[q] # NoRow PROVE Booked(q)'
  <2>1. payments'[q] = payments[q]
    BY <1>1, <1>4 DEF SaleInv, SaleTypeOK
  <2>2. QED
    BY <1>1, <1>4, <2>1, BookedStays DEF Captured
<1>5. QED
  BY <1>2, <1>3, <1>4 DEF SaleInv

\* The attempts go on, and what was captured stays captured.
LEMMA PayingKeeps ==
  ASSUME SaleInv, NEW p \in Attempts, Pay(p) \/ Capture(p)
  PROVE  SaleInv'
<1>1. UNCHANGED <<deals, approved, orders, payments>>
  BY DEF Pay, Capture
<1>2. /\ attempts' \in
           [Attempts -> [order : PayReqs \union {NoOrder},
                         status : {"none", "authorized", "captured", "failed"}]]
      /\ attempts[p].status # "captured"
      /\ \A q \in Attempts \ {p} : attempts'[q] = attempts[q]
  <2>1. CASE Pay(p)
    BY <2>1 DEF Pay, SaleInv, SaleTypeOK
  <2>2. CASE Capture(p)
    BY <2>2 DEF Capture, SaleInv, SaleTypeOK
  <2>3. QED
    BY <2>1, <2>2
<1>3. SaleTypeOK'
  BY <1>1, <1>2 DEF SaleInv, SaleTypeOK
<1>4. ASSUME NEW r \in PayReqs, Captured(r) PROVE Captured(r)'
  <2>1. PICK q \in Attempts : attempts[q] = [order |-> r, status |-> "captured"]
    BY <1>4 DEF Captured
  <2>2. q # p
    BY <1>2, <2>1
  <2>3. QED
    BY <1>2, <2>1, <2>2 DEF Captured
<1>5. ASSUME NEW r \in PayReqs, payments'[r] # NoRow PROVE Booked(r)'
  BY <1>1, <1>4, <1>5, BookedStays
<1>6. QED
  BY <1>3, <1>5 DEF SaleInv

\* A settlement moves a status, to what became of an attempt on that order.
LEMMA SettleKeeps ==
  ASSUME SaleInv, NEW r \in PayReqs, Settle(r)
  PROVE  SaleInv'
<1>1. PICK status \in {"captured", "failed"}, p \in Attempts :
        /\ attempts[p] = [order |-> r, status |-> status]
        /\ payments' = [payments EXCEPT ![r].status = status]
  BY DEF Settle
<1>2. /\ payments[r] # NoRow
      /\ payments[r].order = r
      /\ UNCHANGED <<deals, approved, orders, attempts>>
  BY DEF Settle, Payable
<1>3. payments[r] \in PaymentRow /\ Booked(r)
  BY <1>2 DEF SaleInv, SaleTypeOK
<1> DEFINE row == [payments[r] EXCEPT !.status = status]
<1>4. /\ row \in PaymentRow
      /\ row.decision = payments[r].decision
      /\ row.merchant = payments[r].merchant
      /\ row.amount = payments[r].amount
      /\ row.order = r
      /\ row.status = status
  BY <1>2, <1>3 DEF PaymentRow, PaymentStatus, InitialPaymentStatus
<1>5. payments' = [payments EXCEPT ![r] = row]
  BY <1>1
<1> HIDE DEF row
<1>6. payments'[r] = row /\ \A q \in PayReqs \ {r} : payments'[q] = payments[q]
  BY <1>5 DEF SaleInv, SaleTypeOK
<1>7. SaleTypeOK'
  BY <1>2, <1>4, <1>5 DEF SaleInv, SaleTypeOK
<1>8. Booked(r)'
  <2>1. status = "captured" => Captured(r)'
    BY <1>1, <1>2 DEF Captured
  <2>2. /\ Cleared(payments[r].decision)' <=> Cleared(payments[r].decision)
        /\ OrderFor(payments[r].decision)' = OrderFor(payments[r].decision)
    BY <1>2, <1>4, <1>6 DEF Cleared, OrderFor
  <2>3. QED
    BY <1>2, <1>3, <1>4, <1>6, <2>1, <2>2 DEF Booked
<1>9. ASSUME NEW q \in PayReqs, q # r, payments'[q] # NoRow PROVE Booked(q)'
  BY <1>2, <1>6, <1>9, BookedStays DEF Captured
<1>10. QED
  BY <1>7, <1>8, <1>9 DEF SaleInv

\* Every step of Sale keeps its payments true to their deals.
LEMMA NextSaleInv ==
  ASSUME SaleInv, Terms \subseteq [price : Int, quantity : Int], [SaleNext]_saleVars
  PROVE  SaleInv'
<1>1. CASE UNCHANGED saleVars
  <2>1. SaleTypeOK'
    BY <1>1 DEF saleVars, SaleInv, SaleTypeOK
  <2>2. ASSUME NEW r \in PayReqs, payments'[r] # NoRow PROVE Booked(r)'
    BY <1>1, <2>2, BookedStays DEF saleVars, Captured
  <2>3. QED
    BY <2>1, <2>2 DEF SaleInv
<1>2. QED
  BY <1>1, FreezeKeeps, ApproveKeeps, OrderKeeps, BookKeeps, SettleKeeps, PayingKeeps
     DEF SaleNext

\* Whatever Sale allows, a captured payment is owed: paid, on the order for what its
\* cleared decision froze, to that decision's merchant.
THEOREM SaleIsOwed ==
  ASSUME Terms \subseteq [price : Int, quantity : Int]
  PROVE  SaleSpec => []CapturedIsOwed
<1>1. SaleInv => CapturedIsOwed
  BY DEF SaleInv, Booked, Captured, CapturedIsOwed
<1>2. SaleInv /\ [SaleNext]_saleVars => SaleInv'
  BY NextSaleInv
<1>3. QED
  BY <1>1, <1>2, InitSaleInv, PTL DEF SaleSpec

================================================================================
