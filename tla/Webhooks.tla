-------------------------------- MODULE Webhooks --------------------------------
(***************************************************************************)
(* POST /webhooks/razorpay: Razorpay tells the service how a payment went. *)
(*                                                                         *)
(* The buyer may try to pay an order several times; every attempt has a    *)
(* payment id of its own, which is the entity id in every event about it   *)
(* (authorized, then captured; or failed).  Deliveries may be repeated,    *)
(* late and out of order, and may fail the signature check.  The handler   *)
(* looks the dedupe key up, reads the payment, and then, in one            *)
(* transaction, updates the status, audits the change and inserts the      *)
(* event: the same check-then-act shape as the other handlers.             *)
(***************************************************************************)
EXTENDS PaymentTable

CONSTANTS
  HookReqs,  \* deliveries; one names the webhook_events row it inserts
  Attempts,  \* Razorpay's payment ids
  NoId       \* the entity id of an event that carries none

VARIABLES
  lockFree,      \* nobody holds SQLite's write lock
  payments,      \* the payments table
  attempts,      \* Razorpay: the payment attempts and how they went
  events,        \* webhook_events, by the delivery that inserted the row
  paymentAudit,  \* audit_events of stage "payment", by the delivery that wrote it
  hookReq        \* the webhook handlers

tables == <<payments, events, paymentAudit>>
vars == <<lockFree, tables, attempts, hookReq>>

--------------------------------------------------------------------------------
(* Razorpay's events, rows and request-local state. *)

AttemptStatus == {"none", "authorized", "captured", "failed"}

\* Events about a payment carry its id and its order's; others carry neither.
Event ==
  [type : {"payment.authorized", "payment.captured", "payment.failed"},
   payment : Attempts, order : PayReqs]
    \union [type : {"other"}, payment : {NoId}, order : {NoOrder}]

\* The entity id if there is one, and otherwise a hash of the body.
DedupeKey(e) == IF e.payment # NoId THEN e.payment ELSE e

\* The status an event asks for, if it asks for one.
TargetOf(e) ==
  CASE e.type = "payment.captured" -> "captured"
    [] e.type = "payment.failed" -> "failed"
    [] OTHER -> "none"

\* Razorpay only signs what happened.
Happened(e) ==
  \/ e.type = "other"
  \/ /\ attempts[e.payment].order = e.order
     /\ \/ e.type = "payment.authorized"
           /\ attempts[e.payment].status \in {"authorized", "captured"}
        \/ attempts[e.payment].status = TargetOf(e)

\* Mutant: verify_webhook_signature accepts anything.
DeliverableUnsigned(valid) == Event

Deliverable(valid) == {e \in Event : valid => Happened(e)}

EventRow == [event : Event, valid : BOOLEAN, processed : BOOLEAN]
AuditRow == [payment : PayReqs, status : {"captured", "failed"}]

ASSUME WebhookAssumption ==
  /\ NoId \notin Attempts
  /\ NoRow \notin EventRow
  /\ NoRow \notin AuditRow

HookPcs == {"lookup", "reading", "writing"}
HookFinished == {"answered", "lost"}

HookState ==
  [pc : {"idle"} \union HookPcs \union HookFinished, event : Event \union {NoRow},
   valid : BOOLEAN, seen : PaymentStatus \union {"none"}, duplicate : BOOLEAN,
   code : {0, 200, 401, 500}]

NoHook ==
  [pc |-> "idle", event |-> NoRow, valid |-> FALSE, seen |-> "none",
   duplicate |-> FALSE, code |-> 0]

HookInit ==
  /\ attempts = [p \in Attempts |-> [order |-> NoOrder, status |-> "none"]]
  /\ events = [h \in HookReqs |-> NoRow]
  /\ paymentAudit = [h \in HookReqs |-> NoRow]
  /\ hookReq = [h \in HookReqs |-> NoHook]

Init ==
  /\ lockFree = TRUE
  /\ payments = [r \in PayReqs |-> NoRow]
  /\ HookInit

--------------------------------------------------------------------------------
(* The handler. *)

\* The body is read and its signature checked.  A genuine event may fail the check
\* (the webhook secret is unset or not yet rotated); an event that did not happen
\* never passes it.
HookArrive(h) ==
  /\ hookReq[h].pc = "idle"
  /\ \E valid \in BOOLEAN : \E e \in Deliverable(valid) :
       hookReq' = [hookReq EXCEPT ![h].pc = "lookup", ![h].event = e,
                                  ![h].valid = valid]
  /\ UNCHANGED <<lockFree, tables, attempts>>

Recorded(key) ==
  \E h \in HookReqs : events[h] # NoRow /\ DedupeKey(events[h].event) = key

HookAnswer(h, code, duplicate) ==
  hookReq' = [hookReq EXCEPT ![h].pc = "answered", ![h].code = code,
                             ![h].duplicate = duplicate]

\* A row has this dedupe key: 200, whatever this delivery's signature or type.
HookDuplicate(h) ==
  /\ hookReq[h].pc = "lookup"
  /\ Recorded(DedupeKey(hookReq[h].event))
  /\ HookAnswer(h, 200, TRUE)
  /\ UNCHANGED <<lockFree, tables, attempts>>

\* A new key.  Only a signed event that asks for a status has a payment to look at.
HookFresh(h) ==
  LET req == hookReq[h]
      asks == req.valid /\ TargetOf(req.event) # "none"
  IN  /\ req.pc = "lookup"
      /\ ~Recorded(DedupeKey(req.event))
      /\ hookReq' = [hookReq EXCEPT ![h].pc = IF asks THEN "reading" ELSE "writing"]
      /\ UNCHANGED <<lockFree, tables, attempts>>

\* find_by_razorpay_order_id, and the SELECT of transition_payment_status.
StatusOf(order) == IF payments[order] # NoRow /\ payments[order].order = order
                   THEN payments[order].status ELSE "none"

HookRead(h) ==
  /\ hookReq[h].pc = "reading"
  /\ hookReq' = [hookReq EXCEPT ![h].pc = "writing",
                                ![h].seen = StatusOf(hookReq[h].event.order)]
  /\ UNCHANGED <<lockFree, tables, attempts>>

\* Mutant: the transition table is not consulted.
TransitionsUnchecked(h) == hookReq[h].valid

\* Mutant: the last event wins.
TransitionsLastWins(h) ==
  hookReq[h].seen # "none" /\ TargetOf(hookReq[h].event) # "none"

\* transition_payment, on the status read before the transaction began.
Transitions(h) ==
  <<hookReq[h].seen, TargetOf(hookReq[h].event)>> \in AllowedPaymentTransitions

\* Mutant: the event is marked processed because its signature was good.
ProcessedIfValid(h) == hookReq[h].valid

\* The processed column of the event.
Processed(h) == Transitions(h)

\* Mutant: the schema has no UNIQUE constraint on dedupe_key.
AlwaysInsertable(h) == TRUE

\* The UNIQUE constraint on dedupe_key lets the row in.
Insertable(h) == ~Recorded(DedupeKey(hookReq[h].event))

\* The UPDATE, the audit row, the INSERT of the event and the commit.
HookWrite(h) ==
  LET req == hookReq[h]
      order == req.event.order
      status == TargetOf(req.event)
  IN  /\ req.pc = "writing"
      /\ lockFree
      /\ Insertable(h)
      /\ events' = [events EXCEPT ![h] = [event |-> req.event, valid |-> req.valid,
                                          processed |-> Processed(h)]]
      /\ IF Transitions(h)
         THEN /\ payments' = [payments EXCEPT ![order].status = status]
              /\ paymentAudit' =
                   [paymentAudit EXCEPT ![h] = [payment |-> order, status |-> status]]
         ELSE UNCHANGED <<payments, paymentAudit>>
      /\ HookAnswer(h, IF req.valid THEN 200 ELSE 401, FALSE)
      /\ UNCHANGED <<lockFree, attempts>>

\* Another delivery inserted the key first: IntegrityError, the UPDATE is rolled
\* back with the rest, 500.
HookClash(h) ==
  /\ hookReq[h].pc = "writing"
  /\ lockFree
  /\ ~Insertable(h)
  /\ HookAnswer(h, 500, FALSE)
  /\ UNCHANGED <<lockFree, tables, attempts>>

HookBusy(h) ==
  /\ hookReq[h].pc = "writing"
  /\ ~lockFree
  /\ HookAnswer(h, 500, FALSE)
  /\ UNCHANGED <<lockFree, tables, attempts>>

HookStep(h) ==
  \/ HookDuplicate(h)
  \/ HookFresh(h)
  \/ HookRead(h)
  \/ HookWrite(h)
  \/ HookClash(h)
  \/ HookBusy(h)

--------------------------------------------------------------------------------
(* Razorpay, the payment handler and the process. *)

Paid(order) ==
  \E p \in Attempts : /\ attempts[p].order = order
                      /\ attempts[p].status \in {"authorized", "captured"}

\* The buyer tries to pay an order the service disclosed: a row with an order id.
\* A failed attempt leaves the order open to another.
AttemptMade(p) ==
  /\ attempts[p].status = "none"
  /\ \E order \in PayReqs, status \in {"authorized", "failed"} :
       /\ payments[order] # NoRow
       /\ payments[order].order = order
       /\ ~Paid(order)
       /\ attempts' = [attempts EXCEPT ![p] = [order |-> order, status |-> status]]
  /\ UNCHANGED <<lockFree, tables, hookReq>>

AttemptCaptured(p) ==
  /\ attempts[p].status = "authorized"
  /\ attempts' = [attempts EXCEPT ![p].status = "captured"]
  /\ UNCHANGED <<lockFree, tables, hookReq>>

ActiveHooks == {h \in HookReqs : hookReq[h].pc \in HookPcs}

HooksLost ==
  hookReq' = [h \in HookReqs |->
                IF h \in ActiveHooks THEN [hookReq[h] EXCEPT !.pc = "lost"] ELSE hookReq[h]]

Crash ==
  /\ HooksLost
  /\ lockFree' = TRUE
  /\ UNCHANGED <<tables, attempts>>

\* The payment handler inserts a row.
PaymentInserted(r) ==
  /\ payments[r] = NoRow
  /\ \E row \in PaymentRow :
       /\ row.status \in InitialPaymentStatus
       /\ row.order \in PayReqs => row.order = r
       /\ row.status = "created" <=> row.order = r
       /\ \A q \in PayReqs : payments[q] # NoRow => payments[q].key # row.key
       /\ payments' = [payments EXCEPT ![r] = row]
  /\ UNCHANGED <<lockFree, events, paymentAudit, attempts, hookReq>>

LockMoves ==
  /\ lockFree' = ~lockFree
  /\ UNCHANGED <<tables, attempts, hookReq>>

Next ==
  \/ \E h \in HookReqs : HookArrive(h) \/ HookStep(h)
  \/ \E p \in Attempts : AttemptMade(p) \/ AttemptCaptured(p)
  \/ \E r \in PayReqs : PaymentInserted(r)
  \/ Crash
  \/ LockMoves

Spec == Init /\ [][Next]_vars

--------------------------------------------------------------------------------
(* Properties. *)

\* Every table and every handler hold values of their kind.
TypeOK ==
  /\ lockFree \in BOOLEAN
  /\ payments \in [PayReqs -> PaymentRow \union {NoRow}]
  /\ attempts \in
       [Attempts -> [order : PayReqs \union {NoOrder}, status : AttemptStatus]]
  /\ events \in [HookReqs -> EventRow \union {NoRow}]
  /\ paymentAudit \in [HookReqs -> AuditRow \union {NoRow}]
  /\ hookReq \in [HookReqs -> HookState]

\* Deliveries that race on one dedupe key leave one row for it: an event is never
\* stored, and so never applied, twice.
OneRowPerDedupeKey ==
  \A g, h \in HookReqs :
    /\ events[g] # NoRow
    /\ events[h] # NoRow
    /\ DedupeKey(events[g].event) = DedupeKey(events[h].event)
    => g = h

\* The books never claim money Razorpay does not have: a payment marked captured had
\* a captured attempt on its own order, reported by a signed event that was stored
\* as the one that did it.
CapturedWasPaid ==
  \A r \in PayReqs :
    payments[r] # NoRow /\ payments[r].status = "captured" =>
      \E h \in HookReqs, p \in Attempts :
        /\ events[h] # NoRow
        /\ events[h].valid
        /\ events[h].processed
        /\ events[h].event =
             [type |-> "payment.captured", payment |-> p, order |-> r]
        /\ attempts[p] = [order |-> r, status |-> "captured"]

\* Events and the audit trail tell the same story: an event is marked processed
\* exactly when an audit row by the same delivery records the status it asked for,
\* and only a signed event is.
ProcessedIsAudited ==
  \A h \in HookReqs :
    /\ paymentAudit[h] # NoRow <=> events[h] # NoRow /\ events[h].processed
    /\ paymentAudit[h] # NoRow =>
         /\ events[h].valid
         /\ paymentAudit[h] = [payment |-> events[h].event.order,
                               status |-> TargetOf(events[h].event)]
    /\ hookReq[h].code \in {200, 401} /\ ~hookReq[h].duplicate <=> events[h] # NoRow

\* A status changes only from the table's "created" as some delivery saw it, only
\* together with the audit row that says so, and never for a payment that has no
\* order at Razorpay: a simulated or failed creation stays what it is.
StatusMovesOnRecord ==
  [][\A r \in PayReqs :
       payments[r] # NoRow /\ payments'[r] # payments[r] =>
         /\ payments[r].order = r
         /\ payments'[r] = [payments[r] EXCEPT !.status = payments'[r].status]
         /\ \E h \in HookReqs :
              /\ hookReq[h].seen = "created"
              /\ paymentAudit[h] = NoRow
              /\ paymentAudit'[h] =
                   [payment |-> r, status |-> payments'[r].status]]_vars

\* News of p was taken in: the processed event about it.
HeardOf(p) ==
  \E h \in HookReqs :
    events[h] # NoRow /\ events[h].processed /\ events[h].event.payment = p

\* Behind all its deliveries, payments live as PaymentLife says: each attempt moves the
\* status of its own payment once at most, and to what really became of it.
Life == INSTANCE PaymentLife WITH heard <- {p \in Attempts : HeardOf(p)}
ImplementsLife == Life!LifeSpec

\* core/payment_state_machine.py:13-14: "Explicitly NOT allowed [...] CAPTURED ->
\* CREATED, CAPTURED -> FAILED, FAILED -> CAPTURED, FAILED -> CREATED".
SettledIsFinal ==
  [][\A r \in PayReqs :
       payments[r] # NoRow /\ payments[r].status \in {"captured", "failed"} =>
         payments'[r] = payments[r]]_vars

\* docs/RAZORPAY_DEMO.md:83-85: "trigger a test payment.captured event to see the
\* payment transition from CREATED to CAPTURED in your local payments table".
AcknowledgedCaptureIsApplied ==
  \A h \in HookReqs :
    LET req == hookReq[h]
    IN  req.code = 200 /\ req.valid /\ req.event.type = "payment.captured" =>
          payments[req.event.order].status # "created"

================================================================================
