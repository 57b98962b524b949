----------------------------- MODULE WebhooksProofs -----------------------------
(***************************************************************************)
(* Proofs about the webhook handler, for any number of deliveries, payment *)
(* attempts and payments, through crashes, a busy database and deliveries  *)
(* that are repeated, late, out of order or unsigned.                      *)
(*                                                                         *)
(* IInv adds to the properties what each handler still knows while it is   *)
(* between its steps: it has answered nothing and stored nothing, a status *)
(* it read is that of a row with an order at Razorpay, and what a signed   *)
(* event tells it became of an attempt did become of it: Razorpay takes    *)
(* neither a capture nor a failure back.                                   *)
(***************************************************************************)
EXTENDS Webhooks, TLAPS

\* The handler of a delivery has answered nothing before it is done, has an event
\* while it runs, and knows no status before it has read one.
Delivering(h) ==
  LET req == hookReq[h]
  IN  /\ req.pc \in {"idle"} \union HookPcs => req.code = 0 /\ ~req.duplicate
      /\ req.pc = "lost" => req.code = 0
      /\ req.pc \in HookPcs => req.event \in Event
      /\ req.pc \in {"idle", "lookup", "reading"} => req.seen = "none"

\* Only a signed event that asks for a status has a payment looked up, and the status
\* it saw was that of a row with an order at Razorpay.
Looking(h) ==
  LET req == hookReq[h]
      order == req.event.order
  IN  /\ req.pc = "reading" => req.valid /\ TargetOf(req.event) # "none"
      /\ req.pc = "writing" /\ req.seen # "none" =>
           /\ req.valid
           /\ TargetOf(req.event) # "none"
           /\ payments[order] # NoRow
           /\ payments[order].order = order

\* A signed event that asks for a status is true for as long as it is handled.
NewsIsTrue(h) ==
  LET req == hookReq[h]
      status == TargetOf(req.event)
  IN  req.pc \in HookPcs /\ req.valid /\ status # "none" =>
        attempts[req.event.payment] = [order |-> req.event.order, status |-> status]

HandlerInv(h) == Delivering(h) /\ Looking(h) /\ NewsIsTrue(h)

IInv ==
  /\ TypeOK
  /\ \A h \in HookReqs : HandlerInv(h)
  /\ OneRowPerDedupeKey
  /\ CapturedWasPaid
  /\ ProcessedIsAudited

--------------------------------------------------------------------------------
(* Events and rows. *)

\* An event that asks for a status carries the payment and the order it is about.
LEMMA AskingEvents ==
  ASSUME NEW e \in Event, TargetOf(e) # "none"
  PROVE  /\ e.payment \in Attempts
         /\ e.order \in PayReqs
         /\ TargetOf(e) \in {"captured", "failed"}
         /\ TargetOf(e) = "captured" =>
              e = [type |-> "payment.captured", payment |-> e.payment, order |-> e.order]
         /\ TargetOf(e) = "captured" <=> e.type = "payment.captured"
  BY DEF Event, TargetOf

\* The table has no transition but from "created" to a settled status.
LEMMA TableLeavesCreated ==
  ASSUME NEW from, NEW to, <<from, to>> \in AllowedPaymentTransitions
  PROVE  from = "created" /\ to \in {"captured", "failed"}
  BY DEF AllowedPaymentTransitions

\* Changing a row's status changes nothing else of it.
LEMMA RowWithStatus ==
  ASSUME NEW row \in PaymentRow, NEW s \in PaymentStatus
  PROVE  /\ [row EXCEPT !.status = s] \in PaymentRow
         /\ [row EXCEPT !.status = s].order = row.order
         /\ [row EXCEPT !.status = s].status = s
  BY DEF PaymentRow

\* A row of a table is not the absence of one.
LEMMA RowsAreRows ==
  /\ \A row \in PaymentRow : row # NoRow
  /\ \A row \in EventRow : row # NoRow
  /\ \A row \in AuditRow : row # NoRow
  BY PaymentRowAssumption, WebhookAssumption

--------------------------------------------------------------------------------
(* The initial state. *)

\* The invariant holds when the service starts with empty tables.
LEMMA InitIInv == Init => IInv
<1> SUFFICES ASSUME Init PROVE IInv
  OBVIOUS
<1> USE DEF Init, HookInit
<1>1. TypeOK
  BY DEF TypeOK, HookState, NoHook, AttemptStatus, PaymentStatus
<1>2. \A h \in HookReqs : HandlerInv(h)
  BY DEF HandlerInv, Delivering, Looking, NewsIsTrue, NoHook, HookPcs
<1>3. OneRowPerDedupeKey /\ CapturedWasPaid
  BY DEF OneRowPerDedupeKey, CapturedWasPaid
<1>4. ProcessedIsAudited
  BY DEF ProcessedIsAudited, NoHook
<1> QED
  BY <1>1, <1>2, <1>3, <1>4 DEF IInv

--------------------------------------------------------------------------------
(* Steps of one handler that write nothing. *)

\* The handler of h takes a step to a state of its kind; the others do not.
MovedTo(h) ==
  /\ hookReq' \in [HookReqs -> HookState]
  /\ \A g \in HookReqs \ {h} : hookReq'[g] = hookReq[g]

\* The answers of a handler, and those to a new event that it stored.
Answers == {200, 401, 500}

TookIn(h) == hookReq[h].code \in {200, 401} /\ ~hookReq[h].duplicate

\* A step that changes one handler only keeps the invariant if that handler still
\* knows what it should and has answered 200 or 401 to a new event only if it stored it.
LEMMA HandlerStep ==
  ASSUME IInv, NEW h \in HookReqs, MovedTo(h), HandlerInv(h)',
         UNCHANGED <<lockFree, tables, attempts>>,
         TookIn(h)' <=> events[h] # NoRow
  PROVE  IInv'
<1>1. /\ hookReq \in [HookReqs -> HookState]
      /\ \A g \in HookReqs \ {h} : hookReq'[g] = hookReq[g]
  BY DEF IInv, TypeOK, MovedTo
<1>2. UNCHANGED <<payments, events, paymentAudit, attempts, lockFree>>
  BY DEF tables
<1>3. TypeOK'
  BY <1>1, <1>2 DEF IInv, TypeOK, MovedTo
<1>4. ASSUME NEW g \in HookReqs PROVE HandlerInv(g)'
  <2>1. CASE g = h
    BY <2>1
  <2>2. CASE g # h
    <3>1. hookReq'[g] = hookReq[g] /\ HandlerInv(g)
      BY <1>1, <2>2 DEF IInv
    <3>2. QED
      BY <1>2, <3>1 DEF HandlerInv, Delivering, Looking, NewsIsTrue
  <2>3. QED
    BY <2>1, <2>2
<1>5. OneRowPerDedupeKey' /\ CapturedWasPaid'
  BY <1>2 DEF IInv, OneRowPerDedupeKey, CapturedWasPaid
<1>6. ProcessedIsAudited'
  BY <1>1, <1>2 DEF IInv, ProcessedIsAudited, TookIn
<1>7. QED
  BY <1>3, <1>4, <1>5, <1>6 DEF IInv

\* What the invariant says of a handler that has not answered: it stored nothing.
LEMMA NothingStored ==
  ASSUME IInv, NEW h \in HookReqs, hookReq[h].pc \in {"idle"} \union HookPcs
  PROVE  /\ hookReq[h].code = 0
         /\ ~hookReq[h].duplicate
         /\ events[h] = NoRow
         /\ paymentAudit[h] = NoRow
<1>1. hookReq[h].code = 0 /\ ~hookReq[h].duplicate
  BY DEF IInv, HandlerInv, Delivering
<1>2. events[h] = NoRow
  <2>1. ~TookIn(h)
    BY <1>1 DEF TookIn
  <2>2. ProcessedIsAudited
    BY DEF IInv
  <2>3. QED
    BY <2>1, <2>2 DEF ProcessedIsAudited, TookIn
<1>3. paymentAudit[h] = NoRow
  BY <1>2 DEF IInv, ProcessedIsAudited
<1>4. QED
  BY <1>1, <1>2, <1>3

\* An answer changes a handler's pc, its code and its duplicate flag.
LEMMA Answered ==
  ASSUME IInv, NEW h \in HookReqs, NEW code \in Answers, NEW dup \in BOOLEAN,
         HookAnswer(h, code, dup)
  PROVE  /\ MovedTo(h)
         /\ HandlerInv(h)'
         /\ hookReq'[h].code = code
         /\ hookReq'[h].duplicate = dup
<1>1. hookReq[h] \in HookState /\ hookReq \in [HookReqs -> HookState]
  BY DEF IInv, TypeOK
<1> DEFINE a == [hookReq[h] EXCEPT !.pc = "answered"]
           b == [a EXCEPT !.code = code]
           c == [b EXCEPT !.duplicate = dup]
<1>2. hookReq'[h] = c
  BY <1>1 DEF HookAnswer, HookState
<1>3. c \in HookState
  <2>1. a \in HookState
    BY <1>1 DEF HookState, HookFinished
  <2> HIDE DEF a
  <2>2. b \in HookState
    BY <2>1 DEF HookState, Answers
  <2> HIDE DEF b
  <2>3. QED
    BY <2>2 DEF HookState
<1>4. /\ hookReq'[h].pc = "answered"
      /\ hookReq'[h].code = code
      /\ hookReq'[h].duplicate = dup
  BY <1>1, <1>2 DEF HookState
<1> HIDE DEF c
<1>5. MovedTo(h)
  BY <1>1, <1>2, <1>3 DEF HookAnswer, MovedTo
<1>6. HandlerInv(h)'
  BY <1>4 DEF HandlerInv, Delivering, Looking, NewsIsTrue, HookPcs
<1>7. QED
  BY <1>4, <1>5, <1>6

\* An answer of 500, or to a duplicate, leaves the tables alone: it stored nothing.
LEMMA UnstoredAnswer ==
  ASSUME IInv, NEW h \in HookReqs, hookReq[h].pc \in HookPcs,
         NEW code \in Answers, NEW dup \in BOOLEAN, code = 500 \/ dup,
         HookAnswer(h, code, dup), UNCHANGED <<lockFree, tables, attempts>>
  PROVE  IInv'
<1>1. /\ MovedTo(h)
      /\ HandlerInv(h)'
      /\ hookReq'[h].code = code
      /\ hookReq'[h].duplicate = dup
  BY Answered
<1>2. events[h] = NoRow
  BY NothingStored
<1>3. ~TookIn(h)'
  BY <1>1 DEF TookIn
<1>4. QED
  BY <1>1, <1>2, <1>3, HandlerStep

\* A delivery arrives: what a signed event says did happen.
LEMMA ArriveIInv ==
  ASSUME IInv, NEW h \in HookReqs, HookArrive(h)
  PROVE  IInv'
<1>0. PICK valid \in BOOLEAN : \E e \in Deliverable(valid) :
        hookReq' = [hookReq EXCEPT ![h].pc = "lookup", ![h].event = e, ![h].valid = valid]
  BY DEF HookArrive
<1>1. PICK e \in Deliverable(valid) :
        hookReq' = [hookReq EXCEPT ![h].pc = "lookup", ![h].event = e, ![h].valid = valid]
  BY <1>0
<1>2. hookReq[h] \in HookState /\ hookReq \in [HookReqs -> HookState]
  BY DEF IInv, TypeOK
<1>3. e \in Event /\ (valid => Happened(e))
  BY DEF Deliverable
<1> DEFINE a == [hookReq[h] EXCEPT !.pc = "lookup"]
           b == [a EXCEPT !.event = e]
           c == [b EXCEPT !.valid = valid]
<1>4. hookReq'[h] = c
  BY <1>1, <1>2 DEF HookState
<1>5. c \in HookState
  <2>1. a \in HookState
    BY <1>2 DEF HookState, HookPcs
  <2> HIDE DEF a
  <2>2. b \in HookState
    BY <1>3, <2>1 DEF HookState
  <2> HIDE DEF b
  <2>3. QED
    BY <2>2 DEF HookState
<1>6. /\ hookReq'[h].pc = "lookup"
      /\ hookReq'[h].event = e
      /\ hookReq'[h].valid = valid
      /\ hookReq'[h].code = hookReq[h].code
      /\ hookReq'[h].duplicate = hookReq[h].duplicate
      /\ hookReq'[h].seen = hookReq[h].seen
  BY <1>2, <1>4 DEF HookState
<1> HIDE DEF c
<1>7. MovedTo(h)
  BY <1>1, <1>2, <1>4, <1>5 DEF MovedTo
<1>8. hookReq[h].pc = "idle" /\ hookReq[h].seen = "none" /\ HandlerInv(h)
  BY DEF HookArrive, IInv, HandlerInv, Delivering
<1>9. NewsIsTrue(h)'
  <2> SUFFICES ASSUME valid, TargetOf(e) # "none"
               PROVE  attempts'[e.payment] = [order |-> e.order, status |-> TargetOf(e)]
    BY <1>6 DEF NewsIsTrue
  <2>1. e.payment \in Attempts /\ e.type \notin {"other", "payment.authorized"}
    BY <1>3, AskingEvents DEF TargetOf
  <2>2. attempts[e.payment].order = e.order /\ attempts[e.payment].status = TargetOf(e)
    BY <1>3, <2>1 DEF Happened
  <2>3. attempts[e.payment] \in [order : PayReqs \union {NoOrder}, status : AttemptStatus]
    BY <2>1 DEF IInv, TypeOK
  <2>4. attempts[e.payment] = [order |-> e.order, status |-> TargetOf(e)]
    BY <2>2, <2>3
  <2>5. QED
    BY <2>4 DEF HookArrive
<1>10. HandlerInv(h)'
  BY <1>3, <1>6, <1>8, <1>9, NothingStored DEF HandlerInv, Delivering, Looking, HookPcs
<1>11. events[h] = NoRow /\ hookReq[h].code = 0
  BY <1>8, NothingStored
<1>12. ~TookIn(h)'
  BY <1>6, <1>11 DEF TookIn
<1>13. QED
  BY <1>7, <1>10, <1>11, <1>12, HandlerStep DEF HookArrive

\* A new key: only a signed event that asks for a status goes on to read the payment.
LEMMA FreshIInv ==
  ASSUME IInv, NEW h \in HookReqs, HookFresh(h)
  PROVE  IInv'
<1> DEFINE asks == hookReq[h].valid /\ TargetOf(hookReq[h].event) # "none"
           pc == IF asks THEN "reading" ELSE "writing"
<1>1. hookReq[h] \in HookState /\ hookReq \in [HookReqs -> HookState]
  BY DEF IInv, TypeOK
<1>2. hookReq[h].pc = "lookup" /\ hookReq' = [hookReq EXCEPT ![h].pc = pc]
  BY DEF HookFresh
<1>3. hookReq'[h] = [hookReq[h] EXCEPT !.pc = pc] /\ pc \in HookPcs
  BY <1>1, <1>2 DEF HookPcs
<1>4. hookReq'[h] \in HookState
  BY <1>1, <1>3 DEF HookState
<1>5. /\ hookReq'[h].pc = pc
      /\ hookReq'[h].event = hookReq[h].event
      /\ hookReq'[h].valid = hookReq[h].valid
      /\ hookReq'[h].code = hookReq[h].code
      /\ hookReq'[h].duplicate = hookReq[h].duplicate
      /\ hookReq'[h].seen = hookReq[h].seen
  BY <1>1, <1>3 DEF HookState
<1>6. MovedTo(h)
  BY <1>1, <1>2, <1>3, <1>4 DEF MovedTo
<1>7. HandlerInv(h) /\ UNCHANGED <<lockFree, tables, attempts>>
  BY DEF HookFresh, IInv
<1>8. HandlerInv(h)'
  BY <1>2, <1>3, <1>5, <1>7
     DEF HandlerInv, Delivering, Looking, NewsIsTrue, HookPcs, tables
<1>9. events[h] = NoRow /\ hookReq[h].code = 0
  BY <1>2, NothingStored DEF HookPcs
<1>10. ~TookIn(h)'
  BY <1>5, <1>9 DEF TookIn
<1>11. QED
  BY <1>6, <1>7, <1>8, <1>9, <1>10, HandlerStep

\* The read: the status seen is "none", or that of a row with the order asked about.
LEMMA ReadIInv ==
  ASSUME IInv, NEW h \in HookReqs, HookRead(h)
  PROVE  IInv'
<1> DEFINE e == hookReq[h].event
           a == [hookReq[h] EXCEPT !.pc = "writing"]
           b == [a EXCEPT !.seen = StatusOf(e.order)]
<1>1. hookReq[h] \in HookState /\ hookReq \in [HookReqs -> HookState]
  BY DEF IInv, TypeOK
<1>2. /\ hookReq[h].pc = "reading"
      /\ hookReq' = [hookReq EXCEPT ![h].pc = "writing", ![h].seen = StatusOf(e.order)]
      /\ UNCHANGED <<lockFree, tables, attempts>>
  BY DEF HookRead
<1>3. HandlerInv(h) /\ hookReq[h].valid /\ TargetOf(e) # "none" /\ e \in Event
  BY <1>2 DEF IInv, HandlerInv, Looking, Delivering, HookPcs
<1>4. e.order \in PayReqs
  BY <1>3, AskingEvents
<1>5. StatusOf(e.order) \in PaymentStatus \union {"none"}
  BY <1>4 DEF StatusOf, IInv, TypeOK, PaymentRow
<1>6. hookReq'[h] = b
  BY <1>1, <1>2 DEF HookState
<1>7. b \in HookState
  <2>1. a \in HookState
    BY <1>1 DEF HookState, HookPcs
  <2> HIDE DEF a
  <2>2. QED
    BY <1>5, <2>1 DEF HookState
<1>8. /\ hookReq'[h].pc = "writing"
      /\ hookReq'[h].event = e
      /\ hookReq'[h].valid = hookReq[h].valid
      /\ hookReq'[h].code = hookReq[h].code
      /\ hookReq'[h].duplicate = hookReq[h].duplicate
      /\ hookReq'[h].seen = StatusOf(e.order)
  BY <1>1, <1>6 DEF HookState
<1> HIDE DEF b
<1>9. MovedTo(h)
  BY <1>1, <1>2, <1>6, <1>7 DEF MovedTo
<1>10. StatusOf(e.order) # "none" =>
         payments[e.order] # NoRow /\ payments[e.order].order = e.order
  BY DEF StatusOf
<1>11. HandlerInv(h)'
  BY <1>2, <1>3, <1>8, <1>10
     DEF HandlerInv, Delivering, Looking, NewsIsTrue, HookPcs, tables
<1>12. events[h] = NoRow /\ hookReq[h].code = 0
  BY <1>2, NothingStored DEF HookPcs
<1>13. ~TookIn(h)'
  BY <1>8, <1>12 DEF TookIn
<1>14. QED
  BY <1>2, <1>9, <1>11, <1>12, <1>13, HandlerStep

--------------------------------------------------------------------------------
(* Steps that change what the handlers know about. *)

\* A row stays a row of its order, whatever happens to its status.
RowsStay ==
  \A r \in PayReqs : payments[r] # NoRow =>
    payments'[r] # NoRow /\ payments'[r].order = payments[r].order

\* Razorpay takes neither a capture nor a failure back.
OutcomesStay ==
  \A p \in Attempts :
    attempts[p].status \in {"captured", "failed"} => attempts'[p] = attempts[p]

\* A handler that takes no step, or loses its process, knows what it knew.
LEMMA HandlerKnows ==
  ASSUME NEW h \in HookReqs, HandlerInv(h), RowsStay, OutcomesStay,
         \/ hookReq'[h] = hookReq[h]
         \/ /\ hookReq'[h].pc = "lost"
            /\ hookReq'[h].code = 0
  PROVE  HandlerInv(h)'
<1>1. CASE hookReq'[h].pc = "lost" /\ hookReq'[h].code = 0
  BY <1>1 DEF HandlerInv, Delivering, Looking, NewsIsTrue, HookPcs
<1>2. CASE hookReq'[h] = hookReq[h]
  <2> DEFINE e == hookReq[h].event
  <2>1. Delivering(h)'
    BY <1>2 DEF HandlerInv, Delivering
  <2>2. Looking(h)'
    <3>1. hookReq[h].pc = "reading" => hookReq[h].valid /\ TargetOf(e) # "none"
      BY DEF HandlerInv, Looking
    <3>2. ASSUME hookReq[h].pc = "writing", hookReq[h].seen # "none"
          PROVE  /\ hookReq[h].valid
                 /\ TargetOf(e) # "none"
                 /\ payments'[e.order] # NoRow
                 /\ payments'[e.order].order = e.order
      <4>1. /\ hookReq[h].valid
            /\ TargetOf(e) # "none"
            /\ payments[e.order] # NoRow
            /\ payments[e.order].order = e.order
        BY <3>2 DEF HandlerInv, Looking
      <4>2. e \in Event
        BY <3>2 DEF HandlerInv, Delivering, HookPcs
      <4>3. e.order \in PayReqs
        BY <4>1, <4>2, AskingEvents
      <4>4. QED
        BY <4>1, <4>3 DEF RowsStay
    <3>3. QED
      BY <1>2, <3>1, <3>2 DEF Looking
  <2>3. NewsIsTrue(h)'
    <3> SUFFICES ASSUME hookReq[h].pc \in HookPcs, hookReq[h].valid,
                        TargetOf(e) # "none"
                 PROVE  attempts'[e.payment] = [order |-> e.order, status |-> TargetOf(e)]
      BY <1>2 DEF NewsIsTrue
    <3>1. attempts[e.payment] = [order |-> e.order, status |-> TargetOf(e)]
      BY DEF HandlerInv, NewsIsTrue
    <3>2. e.payment \in Attempts /\ TargetOf(e) \in {"captured", "failed"}
      BY AskingEvents DEF HandlerInv, Delivering
    <3>3. QED
      BY <3>1, <3>2 DEF OutcomesStay
  <2>4. QED
    BY <2>1, <2>2, <2>3 DEF HandlerInv
<1>3. QED
  BY <1>1, <1>2

\* What the write of a delivery does: it stores the event, and moves the status of
\* the payment and audits the move if the table allows it.
WriteEffect(h) ==
  LET e == hookReq[h].event
      status == TargetOf(e)
  IN  /\ hookReq[h].pc = "writing"
      /\ e \in Event
      /\ events' = [events EXCEPT ![h] = [event |-> e, valid |-> hookReq[h].valid,
                                          processed |-> Transitions(h)]]
      /\ Transitions(h) =>
           /\ hookReq[h].valid
           /\ hookReq[h].seen = "created"
           /\ e.payment \in Attempts
           /\ e.order \in PayReqs
           /\ status \in {"captured", "failed"}
           /\ payments[e.order] \in PaymentRow
           /\ payments[e.order].order = e.order
           /\ payments' = [payments EXCEPT ![e.order].status = status]
           /\ paymentAudit' =
                [paymentAudit EXCEPT ![h] = [payment |-> e.order, status |-> status]]
           /\ attempts[e.payment] = [order |-> e.order, status |-> status]
           /\ status = "captured" =>
                e = [type |-> "payment.captured", payment |-> e.payment,
                     order |-> e.order]
      /\ ~Transitions(h) => UNCHANGED <<payments, paymentAudit>>
      /\ UNCHANGED <<lockFree, attempts>>
      /\ HookAnswer(h, IF hookReq[h].valid THEN 200 ELSE 401, FALSE)

\* HookWrite, with what its handler knows by then.
LEMMA WriteDoes ==
  ASSUME IInv, NEW h \in HookReqs, HookWrite(h)
  PROVE  WriteEffect(h) /\ Insertable(h)
<1> DEFINE e == hookReq[h].event
           status == TargetOf(e)
<1>1. /\ hookReq[h].pc = "writing"
      /\ HandlerInv(h)
      /\ Insertable(h)
  BY DEF HookWrite, IInv
<1>2. e \in Event
  BY <1>1 DEF HandlerInv, Delivering, HookPcs
<1>3. events' = [events EXCEPT ![h] = [event |-> e, valid |-> hookReq[h].valid,
                                       processed |-> Transitions(h)]]
  BY DEF HookWrite, Processed
<1>4. ASSUME Transitions(h)
      PROVE  /\ hookReq[h].valid
             /\ hookReq[h].seen = "created"
             /\ e.payment \in Attempts
             /\ e.order \in PayReqs
             /\ status \in {"captured", "failed"}
             /\ payments[e.order] \in PaymentRow
             /\ payments[e.order].order = e.order
             /\ attempts[e.payment] = [order |-> e.order, status |-> status]
             /\ status = "captured" =>
                  e = [type |-> "payment.captured", payment |-> e.payment,
                       order |-> e.order]
  <2>1. <<hookReq[h].seen, status>> \in AllowedPaymentTransitions
    BY <1>4 DEF Transitions
  <2>2. hookReq[h].seen = "created" /\ status \in {"captured", "failed"}
    BY <2>1, TableLeavesCreated
  <2>3. /\ hookReq[h].valid
        /\ payments[e.order] # NoRow
        /\ payments[e.order].order = e.order
    BY <1>1, <2>2 DEF HandlerInv, Looking
  <2>4. /\ e.payment \in Attempts
        /\ e.order \in PayReqs
        /\ status = "captured" =>
             e = [type |-> "payment.captured", payment |-> e.payment, order |-> e.order]
        /\ status = "captured" <=> e.type = "payment.captured"
    BY <1>2, <2>2, AskingEvents
  <2>5. payments[e.order] \in PaymentRow
    BY <2>3, <2>4 DEF IInv, TypeOK
  <2>6. attempts[e.payment] = [order |-> e.order, status |-> status]
    BY <1>1, <2>2, <2>3 DEF HandlerInv, NewsIsTrue, HookPcs
  <2>7. QED
    BY <2>2, <2>3, <2>4, <2>5, <2>6
<1>5. Transitions(h) =>
        /\ payments' = [payments EXCEPT ![e.order].status = status]
        /\ paymentAudit' =
             [paymentAudit EXCEPT ![h] = [payment |-> e.order, status |-> status]]
  BY DEF HookWrite
<1>6. ~Transitions(h) => UNCHANGED <<payments, paymentAudit>>
  BY DEF HookWrite
<1>7. /\ UNCHANGED <<lockFree, attempts>>
      /\ HookAnswer(h, IF hookReq[h].valid THEN 200 ELSE 401, FALSE)
  BY DEF HookWrite
<1>8. QED
  BY <1>1, <1>2, <1>3, <1>4, <1>5, <1>6, <1>7 DEF WriteEffect

\* The payments after a write: a row keeps everything but its status.
LEMMA WriteKeepsRows ==
  ASSUME IInv, NEW h \in HookReqs, WriteEffect(h)
  PROVE  /\ payments' \in [PayReqs -> PaymentRow \union {NoRow}]
         /\ RowsStay
         /\ \A r \in PayReqs : payments'[r] # payments[r] =>
              /\ Transitions(h)
              /\ r = hookReq[h].event.order
              /\ payments'[r] = [payments[r] EXCEPT !.status = TargetOf(hookReq[h].event)]
              /\ payments'[r].status = TargetOf(hookReq[h].event)
<1> DEFINE order == hookReq[h].event.order
           status == TargetOf(hookReq[h].event)
<1>1. payments \in [PayReqs -> PaymentRow \union {NoRow}]
  BY DEF IInv, TypeOK
<1>2. CASE ~Transitions(h)
  <2>1. payments' = payments
    BY <1>2 DEF WriteEffect
  <2>2. QED
    BY <1>1, <2>1 DEF RowsStay
<1>3. CASE Transitions(h)
  <2>1. /\ order \in PayReqs
        /\ status \in {"captured", "failed"}
        /\ payments[order] \in PaymentRow
        /\ payments' = [payments EXCEPT ![order].status = status]
    BY <1>3 DEF WriteEffect
  <2>2. /\ payments'[order] = [payments[order] EXCEPT !.status = status]
        /\ \A r \in PayReqs \ {order} : payments'[r] = payments[r]
    BY <1>1, <2>1
  <2>3. /\ payments'[order] \in PaymentRow
        /\ payments'[order].order = payments[order].order
        /\ payments'[order].status = status
    <3>1. status \in PaymentStatus
      BY <2>1 DEF PaymentStatus, InitialPaymentStatus
    <3> HIDE DEF order, status
    <3>2. /\ [payments[order] EXCEPT !.status = status] \in PaymentRow
          /\ [payments[order] EXCEPT !.status = status].order = payments[order].order
          /\ [payments[order] EXCEPT !.status = status].status = status
      BY <2>1, <3>1, RowWithStatus
    <3>3. QED
      BY <2>2, <3>2
  <2>4. payments' \in [PayReqs -> PaymentRow \union {NoRow}]
    BY <1>1, <2>1, <2>3
  <2>5. payments'[order] # NoRow
    BY <2>3, RowsAreRows
  <2>6. QED
    BY <1>3, <2>2, <2>3, <2>4, <2>5 DEF RowsStay
<1>4. QED
  BY <1>2, <1>3

\* The write keeps the invariant.
LEMMA WriteIInv ==
  ASSUME IInv, NEW h \in HookReqs, HookWrite(h)
  PROVE  IInv'
<1> DEFINE e == hookReq[h].event
           status == TargetOf(e)
           code == IF hookReq[h].valid THEN 200 ELSE 401
<1>1. WriteEffect(h) /\ Insertable(h)
  BY WriteDoes
<1>2. /\ payments' \in [PayReqs -> PaymentRow \union {NoRow}]
      /\ RowsStay
      /\ \A r \in PayReqs : payments'[r] # payments[r] =>
           /\ Transitions(h)
           /\ r = e.order
           /\ payments'[r].status = status
  BY <1>1, WriteKeepsRows
<1>3. /\ hookReq[h].pc = "writing"
      /\ e \in Event
      /\ UNCHANGED <<lockFree, attempts>>
      /\ HookAnswer(h, code, FALSE)
  BY <1>1 DEF WriteEffect
<1>4. events[h] = NoRow /\ paymentAudit[h] = NoRow
  BY <1>3, NothingStored DEF HookPcs
<1>5. /\ MovedTo(h)
      /\ HandlerInv(h)'
      /\ hookReq'[h].code = code
      /\ hookReq'[h].duplicate = FALSE
  <2>1. code \in Answers
    BY DEF Answers
  <2> HIDE DEF code
  <2>2. FALSE \in BOOLEAN
    OBVIOUS
  <2>3. QED
    BY <1>3, <2>1, <2>2, Answered, Zenon
<1>6. hookReq[h] \in HookState
  BY DEF IInv, TypeOK
<1>7. /\ events'[h] = [event |-> e, valid |-> hookReq[h].valid,
                       processed |-> Transitions(h)]
      /\ \A g \in HookReqs \ {h} : events'[g] = events[g]
      /\ events' \in [HookReqs -> EventRow \union {NoRow}]
      /\ events'[h] \in EventRow
  <2>1. events \in [HookReqs -> EventRow \union {NoRow}]
    BY DEF IInv, TypeOK
  <2>2. events' = [events EXCEPT ![h] = [event |-> e, valid |-> hookReq[h].valid,
                                         processed |-> Transitions(h)]]
    BY <1>1 DEF WriteEffect
  <2>3. hookReq[h].valid \in BOOLEAN /\ Transitions(h) \in BOOLEAN
    BY <1>6 DEF HookState, Transitions
  <2>4. [event |-> e, valid |-> hookReq[h].valid, processed |-> Transitions(h)]
          \in EventRow
    BY <1>3, <2>3 DEF EventRow
  <2>5. QED
    BY <2>1, <2>2, <2>4
<1>8. /\ Transitions(h) => paymentAudit'[h] = [payment |-> e.order, status |-> status]
      /\ ~Transitions(h) => paymentAudit'[h] = NoRow
      /\ \A g \in HookReqs \ {h} : paymentAudit'[g] = paymentAudit[g]
      /\ paymentAudit' \in [HookReqs -> AuditRow \union {NoRow}]
  <2>1. paymentAudit \in [HookReqs -> AuditRow \union {NoRow}]
    BY DEF IInv, TypeOK
  <2>2. CASE ~Transitions(h)
    BY <1>1, <1>4, <2>1, <2>2 DEF WriteEffect
  <2>3. CASE Transitions(h)
    <3>1. /\ paymentAudit' =
               [paymentAudit EXCEPT ![h] = [payment |-> e.order, status |-> status]]
          /\ [payment |-> e.order, status |-> status] \in AuditRow
      BY <1>1, <2>3 DEF WriteEffect, AuditRow
    <3>2. QED
      BY <2>1, <2>3, <3>1
  <2>4. QED
    BY <2>2, <2>3
<1>9. TypeOK'
  BY <1>2, <1>3, <1>5, <1>7, <1>8 DEF IInv, TypeOK, MovedTo
<1>10. ASSUME NEW g \in HookReqs PROVE HandlerInv(g)'
  <2>1. CASE g = h
    BY <1>5, <2>1
  <2>2. CASE g # h
    <3>1. hookReq'[g] = hookReq[g] /\ HandlerInv(g)
      BY <1>5, <2>2 DEF MovedTo, IInv
    <3>2. OutcomesStay
      BY <1>3 DEF OutcomesStay
    <3>3. QED
      BY <1>2, <3>1, <3>2, HandlerKnows
  <2>3. QED
    BY <2>1, <2>2
<1>11. OneRowPerDedupeKey'
  <2>1. ASSUME NEW g \in HookReqs, events[g] # NoRow
        PROVE  DedupeKey(events[g].event) # DedupeKey(e)
    BY <1>1, <2>1 DEF Insertable, Recorded
  <2>2. events'[h].event = e
    BY <1>7
  <2>3. QED
    BY <1>7, <2>1, <2>2 DEF IInv, OneRowPerDedupeKey
<1>12. CapturedWasPaid'
  <2> SUFFICES ASSUME NEW r \in PayReqs, payments'[r] # NoRow,
                      payments'[r].status = "captured"
               PROVE  \E g \in HookReqs, p \in Attempts :
                        /\ events'[g] # NoRow
                        /\ events'[g].valid
                        /\ events'[g].processed
                        /\ events'[g].event =
                             [type |-> "payment.captured", payment |-> p, order |-> r]
                        /\ attempts'[p] = [order |-> r, status |-> "captured"]
    BY DEF CapturedWasPaid
  <2>1. CASE payments'[r] = payments[r]
    <3>1. PICK g \in HookReqs, p \in Attempts :
            /\ events[g] # NoRow
            /\ events[g].valid
            /\ events[g].processed
            /\ events[g].event =
                 [type |-> "payment.captured", payment |-> p, order |-> r]
            /\ attempts[p] = [order |-> r, status |-> "captured"]
      BY <2>1 DEF IInv, CapturedWasPaid
    <3>2. events'[g] = events[g] /\ attempts' = attempts
      BY <1>3, <1>4, <1>7, <3>1
    <3>3. QED
      BY <3>1, <3>2
  <2>2. CASE payments'[r] # payments[r]
    <3>1. Transitions(h) /\ r = e.order /\ status = "captured"
      BY <1>2, <2>2
    <3>2. /\ hookReq[h].valid
          /\ e.payment \in Attempts
          /\ e = [type |-> "payment.captured", payment |-> e.payment, order |-> r]
          /\ attempts[e.payment] = [order |-> r, status |-> "captured"]
      BY <1>1, <3>1 DEF WriteEffect
    <3>3. /\ events'[h] # NoRow
          /\ events'[h].valid
          /\ events'[h].processed
          /\ events'[h].event = e
      <4>1. events'[h] # NoRow
        BY <1>7, RowsAreRows
      <4>2. events'[h].valid /\ events'[h].event = e
        BY <1>7, <3>2
      <4>3. events'[h].processed
        BY <1>7, <3>1
      <4>4. QED
        BY <4>1, <4>2, <4>3
    <3>4. attempts' = attempts
      BY <1>3
    <3>5. QED
      BY <3>2, <3>3, <3>4
  <2>3. QED
    BY <2>1, <2>2
<1>13. ProcessedIsAudited'
  <2> SUFFICES ASSUME NEW g \in HookReqs
               PROVE  /\ paymentAudit'[g] # NoRow
                           <=> events'[g] # NoRow /\ events'[g].processed
                      /\ paymentAudit'[g] # NoRow =>
                           /\ events'[g].valid
                           /\ paymentAudit'[g] =
                                [payment |-> events'[g].event.order,
                                 status |-> TargetOf(events'[g].event)]
                      /\ TookIn(g)' <=> events'[g] # NoRow
    BY DEF ProcessedIsAudited, TookIn
  <2>1. CASE g # h
    <3>1. /\ events'[g] = events[g]
          /\ paymentAudit'[g] = paymentAudit[g]
          /\ hookReq'[g] = hookReq[g]
      BY <1>5, <1>7, <1>8, <2>1 DEF MovedTo
    <3>2. QED
      BY <3>1 DEF IInv, ProcessedIsAudited, TookIn
  <2>2. CASE g = h
    <3>1. events'[h] # NoRow
      BY <1>7, RowsAreRows
    <3>2. events'[h].event = e /\ (events'[h].valid <=> hookReq[h].valid)
      BY <1>7
    <3>3. events'[h].processed <=> Transitions(h)
      BY <1>7
    <3>4. Transitions(h) => paymentAudit'[h] # NoRow /\ hookReq[h].valid
      <4>1. [payment |-> e.order, status |-> status] \in AuditRow
              \/ ~Transitions(h)
        BY <1>1 DEF WriteEffect, AuditRow
      <4>2. QED
        BY <1>1, <1>8, <4>1, RowsAreRows DEF WriteEffect
    <3>5. hookReq'[h].code \in {200, 401} /\ ~hookReq'[h].duplicate
      BY <1>5
    <3>6. TookIn(h)'
      BY <3>5 DEF TookIn
    <3>7. paymentAudit'[h] # NoRow <=> Transitions(h)
      BY <1>8, <3>4
    <3>8. paymentAudit'[h] # NoRow =>
            /\ events'[h].valid
            /\ paymentAudit'[h] = [payment |-> events'[h].event.order,
                                   status |-> TargetOf(events'[h].event)]
      BY <1>8, <3>2, <3>4, <3>7
    <3>9. QED
      BY <2>2, <3>1, <3>3, <3>6, <3>7, <3>8
  <2>3. QED
    BY <2>1, <2>2
<1>14. QED
  BY <1>9, <1>10, <1>11, <1>12, <1>13 DEF IInv

--------------------------------------------------------------------------------
(* Razorpay, the payment handler and the process. *)

\* A step that stores no event and touches no handler keeps the invariant if the
\* rows stay, none of them is captured by it, and no capture is taken back.
LEMMA OutsideStep ==
  ASSUME IInv, TypeOK', RowsStay, OutcomesStay,
         UNCHANGED <<events, paymentAudit, hookReq>>,
         \A r \in PayReqs : payments'[r] # payments[r] => payments'[r].status # "captured"
  PROVE  IInv'
<1>1. ASSUME NEW h \in HookReqs PROVE HandlerInv(h)'
  BY HandlerKnows DEF IInv
<1>2. CapturedWasPaid'
  <2> SUFFICES ASSUME NEW r \in PayReqs, payments'[r] # NoRow,
                      payments'[r].status = "captured"
               PROVE  \E g \in HookReqs, p \in Attempts :
                        /\ events'[g] # NoRow
                        /\ events'[g].valid
                        /\ events'[g].processed
                        /\ events'[g].event =
                             [type |-> "payment.captured", payment |-> p, order |-> r]
                        /\ attempts'[p] = [order |-> r, status |-> "captured"]
    BY DEF CapturedWasPaid
  <2>1. payments'[r] = payments[r]
    OBVIOUS
  <2>2. PICK g \in HookReqs, p \in Attempts :
          /\ events[g] # NoRow
          /\ events[g].valid
          /\ events[g].processed
          /\ events[g].event =
               [type |-> "payment.captured", payment |-> p, order |-> r]
          /\ attempts[p] = [order |-> r, status |-> "captured"]
    BY <2>1 DEF IInv, CapturedWasPaid
  <2>3. attempts'[p] = attempts[p]
    BY <2>2 DEF OutcomesStay
  <2>4. QED
    BY <2>2, <2>3
<1>3. OneRowPerDedupeKey' /\ ProcessedIsAudited'
  BY DEF IInv, OneRowPerDedupeKey, ProcessedIsAudited
<1>4. QED
  BY <1>1, <1>2, <1>3 DEF IInv

\* An attempt to pay, and its capture.
LEMMA AttemptIInv ==
  ASSUME IInv, NEW p \in Attempts, AttemptMade(p) \/ AttemptCaptured(p)
  PROVE  IInv'
<1>1. attempts \in [Attempts -> [order : PayReqs \union {NoOrder}, status : AttemptStatus]]
  BY DEF IInv, TypeOK
<1>2. /\ UNCHANGED <<lockFree, tables, hookReq>>
      /\ attempts[p].status \in {"none", "authorized"}
      /\ attempts' \in
           [Attempts -> [order : PayReqs \union {NoOrder}, status : AttemptStatus]]
      /\ \A q \in Attempts \ {p} : attempts'[q] = attempts[q]
  <2>1. CASE AttemptMade(p)
    <3>1. PICK order \in PayReqs, status \in {"authorized", "failed"} :
            attempts' = [attempts EXCEPT ![p] = [order |-> order, status |-> status]]
      BY <2>1 DEF AttemptMade
    <3>2. QED
      BY <1>1, <2>1, <3>1 DEF AttemptMade, AttemptStatus
  <2>2. CASE AttemptCaptured(p)
    <3>1. /\ attempts' = [attempts EXCEPT ![p].status = "captured"]
          /\ attempts[p] \in [order : PayReqs \union {NoOrder}, status : AttemptStatus]
      BY <1>1, <2>2 DEF AttemptCaptured
    <3>2. [attempts[p] EXCEPT !.status = "captured"]
            \in [order : PayReqs \union {NoOrder}, status : AttemptStatus]
      BY <3>1 DEF AttemptStatus
    <3>3. attempts' \in
            [Attempts -> [order : PayReqs \union {NoOrder}, status : AttemptStatus]]
      BY <1>1, <3>1, <3>2
    <3>4. \A q \in Attempts \ {p} : attempts'[q] = attempts[q]
      BY <1>1, <3>1
    <3>5. QED
      BY <2>2, <3>3, <3>4 DEF AttemptCaptured
  <2>3. QED
    BY <2>1, <2>2
<1>3. RowsStay /\ \A r \in PayReqs : payments'[r] = payments[r]
  BY <1>2 DEF RowsStay, tables
<1>4. OutcomesStay
  BY <1>2 DEF OutcomesStay
<1>5. TypeOK'
  BY <1>2 DEF IInv, TypeOK, tables
<1>6. UNCHANGED <<events, paymentAudit, hookReq>>
  BY <1>2 DEF tables
<1>7. QED
  BY <1>3, <1>4, <1>5, <1>6, OutsideStep

\* A row is inserted where there was none, and not as captured.
LEMMA InsertedIInv ==
  ASSUME IInv, NEW r \in PayReqs, PaymentInserted(r)
  PROVE  IInv'
<1>1. PICK row \in PaymentRow :
        row.status \in InitialPaymentStatus /\ payments' = [payments EXCEPT ![r] = row]
  BY DEF PaymentInserted
<1>2. /\ payments[r] = NoRow
      /\ payments \in [PayReqs -> PaymentRow \union {NoRow}]
      /\ UNCHANGED <<lockFree, events, paymentAudit, attempts, hookReq>>
  BY DEF PaymentInserted, IInv, TypeOK
<1>3. /\ payments' \in [PayReqs -> PaymentRow \union {NoRow}]
      /\ payments'[r] = row
      /\ \A q \in PayReqs \ {r} : payments'[q] = payments[q]
  BY <1>1, <1>2
<1>4. RowsStay /\ OutcomesStay
  BY <1>2, <1>3 DEF RowsStay, OutcomesStay
<1>5. row.status # "captured"
  BY <1>1 DEF InitialPaymentStatus
<1>6. \A q \in PayReqs : payments'[q] # payments[q] => payments'[q].status # "captured"
  BY <1>3, <1>5
<1>7. TypeOK'
  BY <1>2, <1>3 DEF IInv, TypeOK
<1>8. QED
  BY <1>2, <1>4, <1>6, <1>7, OutsideStep

\* A crash leaves the tables as they were: a transaction commits in one step.
LEMMA CrashIInv ==
  ASSUME IInv, Crash
  PROVE  IInv'
<1>1. /\ hookReq \in [HookReqs -> HookState]
      /\ UNCHANGED <<payments, events, paymentAudit, attempts>>
  BY DEF IInv, TypeOK, Crash, tables
<1>2. ASSUME NEW h \in HookReqs
      PROVE  /\ hookReq'[h] \in HookState
             /\ hookReq'[h].code = hookReq[h].code
             /\ hookReq'[h].duplicate = hookReq[h].duplicate
             /\ \/ hookReq'[h] = hookReq[h]
                \/ hookReq'[h].pc = "lost" /\ hookReq'[h].code = 0
  <2>1. hookReq'[h] = IF h \in ActiveHooks THEN [hookReq[h] EXCEPT !.pc = "lost"]
                      ELSE hookReq[h]
    BY DEF Crash, HooksLost
  <2>2. hookReq[h] \in HookState
    BY <1>1
  <2>3. CASE h \in ActiveHooks
    <3>1. hookReq'[h] = [hookReq[h] EXCEPT !.pc = "lost"] /\ hookReq[h].pc \in HookPcs
      BY <2>1, <2>3 DEF ActiveHooks
    <3>2. hookReq[h].code = 0
      BY <3>1, NothingStored
    <3>3. QED
      BY <2>2, <3>1, <3>2 DEF HookState, HookFinished
  <2>4. CASE h \notin ActiveHooks
    BY <2>1, <2>2, <2>4
  <2>5. QED
    BY <2>3, <2>4
<1>3. hookReq' \in [HookReqs -> HookState]
  BY <1>2 DEF Crash, HooksLost
<1>4. TypeOK'
  BY <1>1, <1>3 DEF IInv, TypeOK, Crash
<1>5. RowsStay /\ OutcomesStay
  BY <1>1 DEF RowsStay, OutcomesStay
<1>6. ASSUME NEW h \in HookReqs PROVE HandlerInv(h)'
  BY <1>2, <1>5, HandlerKnows DEF IInv
<1>7. OneRowPerDedupeKey' /\ CapturedWasPaid'
  BY <1>1 DEF IInv, OneRowPerDedupeKey, CapturedWasPaid
<1>8. ProcessedIsAudited'
  BY <1>1, <1>2 DEF IInv, ProcessedIsAudited
<1>9. QED
  BY <1>4, <1>6, <1>7, <1>8 DEF IInv

\* Another handler takes SQLite's write lock or releases it.
LEMMA LockIInv ==
  ASSUME IInv, LockMoves
  PROVE  IInv'
<1>1. lockFree' \in BOOLEAN /\ UNCHANGED <<tables, attempts, hookReq>>
  BY DEF LockMoves
<1>2. TypeOK' /\ RowsStay /\ OutcomesStay
  BY <1>1 DEF IInv, TypeOK, tables, RowsStay, OutcomesStay
<1>3. UNCHANGED <<payments, events, paymentAudit, hookReq>>
  BY <1>1 DEF tables
<1>4. QED
  BY <1>2, <1>3, OutsideStep

--------------------------------------------------------------------------------
(* The theorems. *)

\* Every step keeps the invariant: one case per action.
LEMMA NextIInv ==
  ASSUME IInv, [Next]_vars
  PROVE  IInv'
<1>1. CASE UNCHANGED vars
  <2>1. UNCHANGED <<lockFree, payments, events, paymentAudit, attempts, hookReq>>
    BY <1>1 DEF vars, tables
  <2>2. TypeOK' /\ RowsStay /\ OutcomesStay
    BY <2>1 DEF IInv, TypeOK, RowsStay, OutcomesStay
  <2>3. QED
    BY <2>1, <2>2, OutsideStep
<1>2. ASSUME NEW h \in HookReqs, HookArrive(h) PROVE IInv'
  BY <1>2, ArriveIInv
<1>3. ASSUME NEW h \in HookReqs, HookStep(h) PROVE IInv'
  <2>1. CASE HookDuplicate(h)
    <3>1. /\ HookAnswer(h, 200, TRUE)
          /\ UNCHANGED <<lockFree, tables, attempts>>
          /\ hookReq[h].pc \in HookPcs
      BY <2>1 DEF HookDuplicate, HookPcs
    <3>2. 200 \in Answers /\ TRUE \in BOOLEAN /\ (200 = 500 \/ TRUE)
      BY DEF Answers
    <3>3. QED
      BY <3>1, <3>2, UnstoredAnswer, Zenon
  <2>2. CASE HookFresh(h)
    BY <2>2, FreshIInv
  <2>3. CASE HookRead(h)
    BY <2>3, ReadIInv
  <2>4. CASE HookWrite(h)
    BY <2>4, WriteIInv
  <2>5. CASE HookClash(h) \/ HookBusy(h)
    <3>1. /\ HookAnswer(h, 500, FALSE)
          /\ UNCHANGED <<lockFree, tables, attempts>>
          /\ hookReq[h].pc \in HookPcs
      BY <2>5 DEF HookClash, HookBusy, HookPcs
    <3>2. 500 \in Answers /\ FALSE \in BOOLEAN
      BY DEF Answers
    <3>3. \A code \in Answers, dup \in BOOLEAN :
            code = 500 /\ HookAnswer(h, code, dup) => IInv'
      BY <3>1, UnstoredAnswer
    <3>4. QED
      BY <3>1, <3>2, <3>3, Zenon
  <2>6. QED
    BY <1>3, <2>1, <2>2, <2>3, <2>4, <2>5 DEF HookStep
<1>4. ASSUME NEW p \in Attempts, AttemptMade(p) \/ AttemptCaptured(p) PROVE IInv'
  BY <1>4, AttemptIInv
<1>5. ASSUME NEW r \in PayReqs, PaymentInserted(r) PROVE IInv'
  BY <1>5, InsertedIInv
<1>6. ASSUME Crash PROVE IInv'
  BY <1>6, CrashIInv
<1>7. ASSUME LockMoves PROVE IInv'
  BY <1>7, LockIInv
<1>8. QED
  BY <1>1, <1>2, <1>3, <1>4, <1>5, <1>6, <1>7 DEF Next

\* The inductive invariant holds in every behaviour.
LEMMA SpecIInv == Spec => []IInv
<1>1. IInv /\ [Next]_vars => IInv'
  BY NextIInv
<1>2. QED
  BY InitIInv, <1>1, PTL DEF Spec

\* Every table and every handler hold values of their kind, in every behaviour of
\* the webhook handler.
THEOREM TypeCorrect == Spec => []TypeOK
<1>1. IInv => TypeOK
  BY DEF IInv
<1>2. QED
  BY <1>1, SpecIInv, PTL

\* Any number of deliveries racing on a dedupe key, crashing and being repeated,
\* leave one webhook_events row for it.
THEOREM OneRowPerDedupeKeyHolds == Spec => []OneRowPerDedupeKey
<1>1. IInv => OneRowPerDedupeKey
  BY DEF IInv
<1>2. QED
  BY <1>1, SpecIInv, PTL

\* A payment is marked captured only if Razorpay captured an attempt on its order
\* and a signed event said so.
THEOREM CapturedWasPaidHolds == Spec => []CapturedWasPaid
<1>1. IInv => CapturedWasPaid
  BY DEF IInv
<1>2. QED
  BY <1>1, SpecIInv, PTL

\* The webhook_events and audit_events tables agree on which events moved a status,
\* and what was answered 200 or 401 for the first time is what was stored.
THEOREM ProcessedIsAuditedHolds == Spec => []ProcessedIsAudited
<1>1. IInv => ProcessedIsAudited
  BY DEF IInv
<1>2. QED
  BY <1>1, SpecIInv, PTL

\* A status moves only from "created" as its handler saw it, on a row with an order
\* at Razorpay, and with an audit row that says so.
THEOREM StatusMovesOnRecordHolds == Spec => StatusMovesOnRecord
<1> DEFINE OnRecord ==
      \A r \in PayReqs :
       payments[r] # NoRow /\ payments'[r] # payments[r] =>
         /\ payments[r].order = r
         /\ payments'[r] = [payments[r] EXCEPT !.status = payments'[r].status]
         /\ \E h \in HookReqs :
              /\ hookReq[h].seen = "created"
              /\ paymentAudit[h] = NoRow
              /\ paymentAudit'[h] =
                   [payment |-> r, status |-> payments'[r].status]
<1>1. ASSUME IInv, [Next]_vars PROVE [OnRecord]_vars
  <2> SUFFICES ASSUME NEW r \in PayReqs, payments[r] # NoRow, payments'[r] # payments[r]
               PROVE  /\ payments[r].order = r
                      /\ payments'[r] = [payments[r] EXCEPT !.status = payments'[r].status]
                      /\ \E h \in HookReqs :
                           /\ hookReq[h].seen = "created"
                           /\ paymentAudit[h] = NoRow
                           /\ paymentAudit'[h] =
                                [payment |-> r, status |-> payments'[r].status]
    OBVIOUS
  <2>1. PICK h \in HookReqs : HookWrite(h)
    <3>1. payments' # payments
      OBVIOUS
    <3>2. ASSUME NEW q \in PayReqs, PaymentInserted(q) PROVE FALSE
      <4>1. payments[q] = NoRow /\ \E row : payments' = [payments EXCEPT ![q] = row]
        BY <3>2 DEF PaymentInserted
      <4>2. payments \in [PayReqs -> PaymentRow \union {NoRow}]
        BY <1>1 DEF IInv, TypeOK
      <4>3. QED
        BY <4>1, <4>2
    <3>3. ~Crash /\ ~LockMoves /\ ~UNCHANGED vars
      BY <3>1 DEF Crash, LockMoves, vars, tables
    <3>4. \A p \in Attempts : ~AttemptMade(p) /\ ~AttemptCaptured(p)
      BY <3>1 DEF AttemptMade, AttemptCaptured, tables
    <3>5. PICK h \in HookReqs : HookArrive(h) \/ HookStep(h)
      BY <1>1, <3>2, <3>3, <3>4 DEF Next
    <3>6. HookWrite(h)
      BY <3>1, <3>5 DEF HookArrive, HookStep, HookDuplicate, HookFresh, HookRead,
                        HookClash, HookBusy, tables
    <3>7. QED
      BY <3>6
  <2>2. WriteEffect(h)
    BY <1>1, <2>1, WriteDoes
  <2>3. /\ Transitions(h)
        /\ r = hookReq[h].event.order
        /\ payments'[r] = [payments[r] EXCEPT !.status = TargetOf(hookReq[h].event)]
        /\ payments'[r].status = TargetOf(hookReq[h].event)
    BY <1>1, <2>2, WriteKeepsRows
  <2>4. /\ hookReq[h].seen = "created"
        /\ payments[r].order = r
        /\ paymentAudit' =
             [paymentAudit EXCEPT ![h] = [payment |-> r, status |-> payments'[r].status]]
    BY <2>2, <2>3 DEF WriteEffect
  <2>5. paymentAudit[h] = NoRow
    BY <1>1, <2>2, NothingStored DEF WriteEffect, HookPcs
  <2>6. paymentAudit'[h] = [payment |-> r, status |-> payments'[r].status]
    BY <1>1, <2>4 DEF IInv, TypeOK
  <2>7. QED
    BY <2>3, <2>4, <2>5, <2>6
<1> HIDE DEF OnRecord
<1>2. IInv /\ [Next]_vars => [OnRecord]_vars
  BY <1>1
<1>3. Spec => [][OnRecord]_vars
  BY SpecIInv, <1>2, PTL DEF Spec
<1>4. QED
  BY <1>3 DEF OnRecord, StatusMovesOnRecord

--------------------------------------------------------------------------------
(* The abstract payment life. *)

\* A new event brings news of an attempt if it is processed; nothing else does.
LEMMA NewsOfEvent ==
  ASSUME IInv, NEW h \in HookReqs, WriteEffect(h), Insertable(h), NEW p \in Attempts
  PROVE  /\ HeardOf(p)' <=> HeardOf(p) \/ (Transitions(h) /\ p = hookReq[h].event.payment)
         /\ Transitions(h) /\ p = hookReq[h].event.payment => ~HeardOf(p)
<1> DEFINE e == hookReq[h].event
<1>1. events \in [HookReqs -> EventRow \union {NoRow}] /\ hookReq[h] \in HookState
  BY DEF IInv, TypeOK
<1>2. /\ events' = [events EXCEPT ![h] = [event |-> e, valid |-> hookReq[h].valid,
                                          processed |-> Transitions(h)]]
      /\ e \in Event
      /\ events[h] = NoRow
  BY NothingStored DEF WriteEffect, HookPcs
<1>3. [event |-> e, valid |-> hookReq[h].valid, processed |-> Transitions(h)] \in EventRow
  BY <1>1, <1>2 DEF EventRow, HookState, Transitions
<1>4. /\ events'[h] # NoRow
      /\ events'[h].event = e
      /\ events'[h].processed <=> Transitions(h)
      /\ \A g \in HookReqs \ {h} : events'[g] = events[g]
  BY <1>1, <1>2, <1>3, RowsAreRows
<1>5. HeardOf(p)' <=> HeardOf(p) \/ (Transitions(h) /\ p = e.payment)
  <2>1. HeardOf(p)' <=> \E g \in HookReqs :
          events'[g] # NoRow /\ events'[g].processed /\ events'[g].event.payment = p
    BY DEF HeardOf
  <2>2. HeardOf(p) <=> \E g \in HookReqs \ {h} :
          events[g] # NoRow /\ events[g].processed /\ events[g].event.payment = p
    BY <1>2 DEF HeardOf
  <2> HIDE DEF e
  <2>3. QED
    BY <1>4, <2>1, <2>2
<1>6. ASSUME p = e.payment, NEW g \in HookReqs, events[g] # NoRow,
             events[g].event.payment = p
      PROVE  FALSE
  <2>1. p # NoId
    BY WebhookAssumption
  <2>2. DedupeKey(events[g].event) = DedupeKey(e)
    BY <1>6, <2>1 DEF DedupeKey
  <2>3. QED
    BY <1>6, <2>2 DEF Insertable, Recorded
<1>7. QED
  BY <1>5, <1>6 DEF HeardOf

\* The write of a delivery is Hear of its event's attempt, or a stutter.
LEMMA WriteIsHear ==
  ASSUME IInv, NEW h \in HookReqs, HookWrite(h)
  PROVE  [Life!LifeNext]_(Life!lifeVars)
<1> DEFINE e == hookReq[h].event
           p == e.payment
           r == e.order
           heard == {q \in Attempts : HeardOf(q)}
<1>1. WriteEffect(h) /\ Insertable(h)
  BY WriteDoes
<1>2. \A q \in Attempts :
        /\ HeardOf(q)' <=> HeardOf(q) \/ (Transitions(h) /\ q = p)
        /\ Transitions(h) /\ q = p => ~HeardOf(q)
  BY <1>1, NewsOfEvent
<1>3. CASE ~Transitions(h)
  <2>1. UNCHANGED payments
    BY <1>1, <1>3 DEF WriteEffect
  <2>2. heard' = heard
    BY <1>2, <1>3
  <2>3. QED
    BY <2>1, <2>2 DEF Life!lifeVars
<1>4. CASE Transitions(h)
  <2>1. /\ p \in Attempts
        /\ r \in PayReqs
        /\ TargetOf(e) \in {"captured", "failed"}
        /\ payments[r] \in PaymentRow
        /\ payments[r].order = r
        /\ payments' = [payments EXCEPT ![r].status = TargetOf(e)]
        /\ attempts[p] = [order |-> r, status |-> TargetOf(e)]
    BY <1>1, <1>4 DEF WriteEffect
  <2>2. attempts[p].order = r /\ attempts[p].status = TargetOf(e)
    BY <2>1
  <2>3. payments[r] # NoRow
    BY <2>1, RowsAreRows
  <2>4. p \notin heard /\ heard' = heard \union {p}
    <3> HIDE DEF p
    <3>1. p \in Attempts
      BY <2>1
    <3>2. \A q \in Attempts : HeardOf(q)' <=> HeardOf(q) \/ q = p
      BY <1>2, <1>4
    <3>3. ~HeardOf(p)
      BY <1>2, <1>4, <3>1
    <3>4. heard' = {q \in Attempts : HeardOf(q)'}
      OBVIOUS
    <3>5. QED
      BY <3>1, <3>2, <3>3, <3>4
  <2>5. Life!Hear(p)
    BY <2>1, <2>2, <2>3, <2>4 DEF Life!Hear
  <2>6. QED
    BY <2>1, <2>5 DEF Life!LifeNext
<1>5. QED
  BY <1>3, <1>4

\* An insert of the payment handler is Book.
LEMMA InsertIsBook ==
  ASSUME IInv, NEW r \in PayReqs, PaymentInserted(r)
  PROVE  Life!Book(r)
<1>1. PICK row \in PaymentRow :
        /\ row.status \in InitialPaymentStatus
        /\ row.status = "created" <=> row.order = r
        /\ payments' = [payments EXCEPT ![r] = row]
  BY DEF PaymentInserted
<1>2. payments[r] = NoRow /\ UNCHANGED events
  BY DEF PaymentInserted
<1>3. payments'[r] = row
  BY <1>1 DEF IInv, TypeOK
<1>4. UNCHANGED {p \in Attempts : HeardOf(p)}
  BY <1>2 DEF HeardOf
<1>5. Life!PaymentRow = PaymentRow /\ Life!InitialPaymentStatus = InitialPaymentStatus
  BY DEF Life!PaymentRow, PaymentRow, Life!PaymentStatus, PaymentStatus,
         Life!InitialPaymentStatus, InitialPaymentStatus
<1>6. payments' = [payments EXCEPT ![r] = payments'[r]]
  BY <1>1, <1>3
<1>7. /\ payments'[r] \in PaymentRow
      /\ payments'[r].status \in InitialPaymentStatus
      /\ payments'[r].status = "created" <=> payments'[r].order = r
  BY <1>1, <1>3
<1>8. QED
  BY <1>2, <1>4, <1>5, <1>6, <1>7 DEF Life!Book

\* A step that leaves payments and events alone is a stutter.
LEMMA QuietStutters ==
  ASSUME UNCHANGED <<payments, events>>
  PROVE  UNCHANGED Life!lifeVars
<1>1. UNCHANGED {p \in Attempts : HeardOf(p)}
  BY DEF HeardOf
<1>2. QED
  BY <1>1 DEF Life!lifeVars

\* The webhook handler, whatever happens to its deliveries, implements the abstract life
\* of a payment: each attempt's true outcome moves its own payment, once at most.
THEOREM SpecImplementsLife == Spec => ImplementsLife
<1>1. Init => Life!LifeInit
  <2> SUFFICES ASSUME Init PROVE Life!LifeInit
    OBVIOUS
  <2>1. {p \in Attempts : HeardOf(p)} = {}
    BY DEF Init, HookInit, HeardOf
  <2>2. QED
    BY <2>1 DEF Init, Life!LifeInit
<1>2. ASSUME IInv, [Next]_vars PROVE [Life!LifeNext]_(Life!lifeVars)
  <2>1. CASE UNCHANGED vars
    BY <2>1, QuietStutters DEF vars, tables
  <2>2. ASSUME NEW h \in HookReqs, HookWrite(h) PROVE [Life!LifeNext]_(Life!lifeVars)
    BY <1>2, <2>2, WriteIsHear
  <2>3. ASSUME NEW r \in PayReqs, PaymentInserted(r)
        PROVE  [Life!LifeNext]_(Life!lifeVars)
    BY <1>2, <2>3, InsertIsBook DEF Life!LifeNext
  <2>4. ASSUME NEW h \in HookReqs, HookArrive(h) \/ HookStep(h), ~HookWrite(h)
        PROVE  [Life!LifeNext]_(Life!lifeVars)
    <3>1. UNCHANGED tables
      BY <2>4 DEF HookArrive, HookStep, HookDuplicate, HookFresh, HookRead, HookClash,
                  HookBusy
    <3>2. QED
      BY <3>1, QuietStutters DEF tables
  <2>5. ASSUME NEW p \in Attempts, AttemptMade(p) \/ AttemptCaptured(p)
        PROVE  [Life!LifeNext]_(Life!lifeVars)
    BY <2>5, QuietStutters DEF AttemptMade, AttemptCaptured, tables
  <2>6. CASE Crash \/ LockMoves
    BY <2>6, QuietStutters DEF Crash, LockMoves, tables
  <2>7. QED
    BY <1>2, <2>1, <2>2, <2>3, <2>4, <2>5, <2>6 DEF Next
<1>3. IInv /\ [Next]_vars => [Life!LifeNext]_(Life!lifeVars)
  BY <1>2
<1>4. QED
  BY <1>1, <1>3, SpecIInv, PTL DEF Spec, ImplementsLife, Life!LifeSpec

================================================================================
