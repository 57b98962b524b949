--------------------------- MODULE MerchantDeskProofs ---------------------------
(***************************************************************************)
(* Theorems of MerchantDesk: every published decision is, and stays, what  *)
(* the pipeline made of the message and the provider's reply it answers;   *)
(* from that follow the properties of the offers, the views and the scope. *)
(***************************************************************************)
EXTENDS MerchantDesk, OfferPipelineProofs

--------------------------------------------------------------------------------
(* What a message comes to. *)

AdviceOn(i) == Advice(inbox[i], replies[i])
DealOn(i) == Deal(inbox[i], AdviceOn(i).expedited)
RunOn(i) == RunPipeline(DealOn(i))

\* The deal of a message for a product and a policy on record is made of integers.
LEMMA DealTyped ==
  ASSUME NEW msg, IsMessage(msg), Known(msg), NEW expedited
  PROVE  IsDeal(Deal(msg, expedited))
<1>1. ProductOf[msg.product] \in ProductRow /\ PolicyOf[msg.merchant] \in PolicyRow
  BY DeskAssumption DEF Known
<1>2. QED
  BY <1>1 DEF IsDeal, Deal, Product, Policy, IsMessage

\* Whoever answers, the strategy of a proposal is one of the four.
LEMMA AdviceTyped ==
  ASSUME NEW msg, NEW reply
  PROVE  Advice(msg, reply).strategy \in Strategies
<1>1. ParseReply(reply).strategy \in Strategies
  BY DEF ParseReply, ProviderError, Escapes, FromRaw, Slips, ValidRaw, Proposed, Strategies
<1>2. QED
  BY <1>1 DEF Advice

\* An offer is a row of integers, its terms too; a feasible offer has a value.
LEMMA OfferTyped ==
  ASSUME NEW deal, IsDeal(deal), ChanceIsInteger, Computable(deal),
         NEW n \in DOMAIN RunPipeline(deal).offers
  PROVE  /\ RunPipeline(deal).offers[n] \in OfferRow
         /\ TermsOf(RunPipeline(deal).offers[n]) \in TermsRow
<1> DEFINE c == Candidates(deal)[n]
<1>1. n \in DOMAIN Candidates(deal) /\ RunPipeline(deal).offers[n] = Offer(deal, c)
  BY RunOffers
<1>2. c \in CandidateRow
  BY <1>1, CandidateTyped
<1>3. /\ Contribution(deal, c) \in Int
      /\ FirstViolation(deal, c) \in 0 .. 9
      /\ FirstViolation(deal, c) = 0 => Value(deal, c) \in Int
  BY <1>1, <1>2, ValueTyped, FirstViolationTyped DEF Computable
<1>4. deal.intent.quantity \in Int
  BY DEF IsDeal
<1>5. QED
  BY <1>1, <1>2, <1>3, <1>4 DEF Offer, OfferRow, TermsOf, TermsRow, CandidateRow

\* The outcome of a run: its action, its selection, and the terms that are frozen.
LEMMA RunTyped ==
  ASSUME NEW deal, IsDeal(deal), ChanceIsInteger, Computable(deal)
  PROVE  LET run == RunPipeline(deal)
         IN  /\ run.action \in Actions
             /\ run.selected \in 0 .. AskTurn
             /\ run.selected = 0 <=> run.action = "REJECT"
             /\ run.selected = 0 <=> FrozenTerms(run) = NoTerms
             /\ run.selected # 0 => /\ run.selected \in DOMAIN run.offers
                                    /\ FrozenTerms(run) = TermsOf(run.offers[run.selected])
                                    /\ FrozenTerms(run) \in TermsRow
<1> DEFINE run == RunPipeline(deal)
<1>1. run.action = Action(deal, run.offers, run.selected) /\ OffersTyped(run.offers)
  BY RunOffers
<1>2. run.selected # 0 => run.selected \in DOMAIN run.offers
  BY RunSelects
<1>3. run.selected \in 0 .. AskTurn
  BY <1>1, <1>2 DEF OffersTyped, AskTurn
<1>4. run.selected # 0 => TermsOf(run.offers[run.selected]) \in TermsRow
  BY <1>2, OfferTyped
<1>5. NoTerms \notin TermsRow
  BY DeskAssumption
<1>6. QED
  BY <1>1, <1>2, <1>3, <1>4, <1>5 DEF Action, Actions, FrozenTerms

--------------------------------------------------------------------------------
(* The inductive invariant. *)

DeskRow ==
  [merchant : Merchants, action : Actions, selected : 0 .. AskTurn,
   requiresApproval : BOOLEAN, state : NegotiationState,
   terms : TermsRow \union {NoTerms}]

\* The rows of one request, as the pipeline's answer to a message and a reply, except
\* that the decision's state has a life of its own.
RowsOf(msg, reply, session, intent, offered, decision, trail, answer) ==
  LET advice == Advice(msg, reply)
      run == RunPipeline(Deal(msg, advice.expedited))
  IN  /\ IsMessage(msg)
      /\ Known(msg)
      /\ ~Raises(msg, reply)
      /\ session = SessionRow(msg, NewState(run))
      /\ intent = IntentRow(msg, advice)
      /\ offered = run.offers
      /\ decision = [merchant |-> msg.merchant, action |-> run.action,
                     selected |-> run.selected,
                     requiresApproval |-> run.action = "ESCALATE",
                     state |-> decision.state, terms |-> FrozenTerms(run)]
      /\ decision.state \in NegotiationState
      /\ trail = AuditTrail(msg, advice, run)
      /\ answer = AnswerRow(run)

Written(i) ==
  RowsOf(inbox[i], replies[i], sessions[i], intents[i], offers[i], decisions[i],
         audits[i], answers[i])

Unwritten(i) ==
  /\ sessions[i] = NoRow
  /\ offers[i] = <<>>
  /\ decisions[i] = NoRow
  /\ audits[i] = <<>>

Tabular ==
  /\ DOMAIN replies = IntentReqs
  /\ DOMAIN sessions = IntentReqs
  /\ DOMAIN intents = IntentReqs
  /\ DOMAIN offers = IntentReqs
  /\ decisions = [i \in IntentReqs |-> decisions[i]]
  /\ DOMAIN audits = IntentReqs
  /\ DOMAIN answers = IntentReqs
  /\ authorizations = [a \in ApprovalReqs |-> authorizations[a]]
  /\ DOMAIN outcomes = OutcomeReqs

RowsInv ==
  \A i \in IntentReqs :
    /\ inbox[i] # NoRow => IsMessage(inbox[i])
    /\ Unwritten(i) \/ Written(i)

OutcomeInv ==
  \A o \in OutcomeReqs :
    outcomes[o] # NoRow =>
      /\ outcomes[o].decision \in IntentReqs
      /\ ScopedRow(decisions, outcomes[o].by, outcomes[o].decision)
      /\ outcomes[o].error \in Nat \union {None}

RuledOn(i) ==
  \E a \in ApprovalReqs : authorizations[a] # NoRow /\ authorizations[a].decision = i

AuthorizationInv ==
  /\ \A a \in ApprovalReqs :
       authorizations[a] # NoRow =>
         /\ authorizations[a].decision \in IntentReqs
         /\ ScopedRow(decisions, authorizations[a].merchant, authorizations[a].decision)
  /\ \A i \in IntentReqs :
       decisions[i] # NoRow =>
         (decisions[i].action = "ESCALATE"
            <=> decisions[i].state = "PENDING_APPROVAL" \/ RuledOn(i))

IInv == Tabular /\ RowsInv /\ OutcomeInv /\ AuthorizationInv

\* What is written for a request is a row of each table, none of them the empty one.
LEMMA RowsTyped ==
  ASSUME ChanceIsInteger, NEW msg, NEW reply, NEW session, NEW intent, NEW offered,
         NEW decision, NEW trail, NEW answer,
         RowsOf(msg, reply, session, intent, offered, decision, trail, answer)
  PROVE  /\ decision \in DeskRow
         /\ session # NoRow
         /\ decision # NoRow
         /\ answer # NoRow
<1> DEFINE deal == Deal(msg, Advice(msg, reply).expedited)
           run == RunPipeline(deal)
<1>1. IsDeal(deal) /\ Computable(deal)
  BY DealTyped DEF RowsOf, Raises
<1>2. /\ run.action \in Actions
      /\ run.selected \in 0 .. AskTurn
      /\ FrozenTerms(run) \in TermsRow \union {NoTerms}
  BY <1>1, RunTyped
<1>3. NewState(run) \in NegotiationState
  BY DEF NewState, NegotiationState
<1>4. /\ session \in [merchant : Merchants, product : DOMAIN ProductOf,
                      state : NegotiationState]
      /\ decision \in DeskRow
      /\ answer \in [code : {200}, action : Actions, offer : TermsRow \union {NoTerms}]
  <2> HIDE DEF run
  <2>1. /\ session = SessionRow(msg, NewState(run))
        /\ answer = AnswerRow(run)
        /\ decision = [merchant |-> msg.merchant, action |-> run.action,
                       selected |-> run.selected,
                       requiresApproval |-> run.action = "ESCALATE",
                       state |-> decision.state, terms |-> FrozenTerms(run)]
        /\ decision.state \in NegotiationState
        /\ msg.merchant \in Merchants
        /\ msg.product \in DOMAIN ProductOf
    BY DEF RowsOf, run, IsMessage, Known
  <2>2. session \in [merchant : Merchants, product : DOMAIN ProductOf,
                     state : NegotiationState]
    BY <1>3, <2>1 DEF SessionRow
  <2>3. answer \in [code : {200}, action : Actions, offer : TermsRow \union {NoTerms}]
    BY <1>2, <2>1 DEF AnswerRow
  <2>4. decision \in DeskRow
    <3> DEFINE escalated == run.action = "ESCALATE"
    <3>1. escalated \in BOOLEAN
      OBVIOUS
    <3>2. decision = [merchant |-> msg.merchant, action |-> run.action,
                      selected |-> run.selected, requiresApproval |-> escalated,
                      state |-> decision.state, terms |-> FrozenTerms(run)]
      BY <2>1
    <3> HIDE DEF escalated
    <3>3. QED
      BY <1>2, <2>1, <3>1, <3>2 DEF DeskRow
  <2>5. QED
    BY <2>2, <2>3, <2>4
<1>5. QED
  BY <1>4, DeskAssumption DEF DeskRow

\* A request that still waits has nothing written.
LEMMA WaitingUnwritten ==
  ASSUME ChanceIsInteger, IInv, NEW i \in IntentReqs, Waiting(i)
  PROVE  Unwritten(i) /\ IsMessage(inbox[i])
  BY RowsTyped DEF IInv, RowsInv, Written, Waiting

\* A decision on record is a row, and the pipeline's.
LEMMA DecisionTyped ==
  ASSUME ChanceIsInteger, IInv, NEW i \in IntentReqs, decisions[i] # NoRow
  PROVE  decisions[i] \in DeskRow /\ Written(i)
  BY RowsTyped DEF IInv, RowsInv, Written, Unwritten

\* Before the first message the tables are empty.
LEMMA InitIInv == Init => IInv
<1> SUFFICES ASSUME Init PROVE IInv
  OBVIOUS
<1>1. Tabular
  BY DEF Init, Tabular
<1>2. RowsInv
  BY DeskAssumption DEF Init, RowsInv, Unwritten
<1>3. OutcomeInv /\ AuthorizationInv
  BY DEF Init, OutcomeInv, AuthorizationInv
<1>4. QED
  BY <1>1, <1>2, <1>3 DEF IInv

\* A message that is refused or fails leaves the tables alone.
LEMMA FailIInv ==
  ASSUME ChanceIsInteger, IInv, NEW i \in IntentReqs, Waiting(i), Fail(i),
         DOMAIN replies' = IntentReqs,
         \A j \in IntentReqs \ {i} : replies'[j] = replies[j]
  PROVE  IInv'
<1> USE DEF Fail, tables
<1>1. Tabular'
  BY DEF IInv, Tabular
<1>2. RowsInv'
  <2> SUFFICES ASSUME NEW j \in IntentReqs
               PROVE  (/\ inbox[j] # NoRow => IsMessage(inbox[j])
                       /\ Unwritten(j) \/ Written(j))'
    BY DEF RowsInv
  <2>1. CASE j = i
    BY <2>1, WaitingUnwritten DEF Unwritten
  <2>2. CASE j # i
    BY <2>2 DEF IInv, Tabular, RowsInv, Unwritten, Written
  <2>3. QED
    BY <2>1, <2>2
<1>3. OutcomeInv'
  BY DEF IInv, OutcomeInv, ScopedRow
<1>4. AuthorizationInv'
  BY DEF IInv, AuthorizationInv, ScopedRow, RuledOn
<1>5. QED
  BY <1>1, <1>2, <1>3, <1>4 DEF IInv

\* A message that goes through leaves the rows the pipeline makes of it, and no one
\* else's rows change.
LEMMA PublishedRows ==
  ASSUME ChanceIsInteger, IInv, NEW i \in IntentReqs, NEW reply, IntentPublished(i, reply)
  PROVE  /\ Written(i)'
         /\ decisions'[i] = NewDecision(inbox[i], RunOn(i)')
         /\ \A j \in IntentReqs \ {i} :
              /\ decisions'[j] = decisions[j]
              /\ (Unwritten(j) => Unwritten(j)')
              /\ (Written(j) => Written(j)')
<1> DEFINE msg == inbox[i]
           advice == Advice(msg, reply)
           run == RunPipeline(Deal(msg, advice.expedited))
<1>1. /\ replies' = [replies EXCEPT ![i] = reply]
      /\ inbox' = inbox
      /\ sessions' = [sessions EXCEPT ![i] = SessionRow(msg, NewState(run))]
      /\ intents' = [intents EXCEPT ![i] = IntentRow(msg, advice)]
      /\ offers' = [offers EXCEPT ![i] = run.offers]
      /\ decisions' = [decisions EXCEPT ![i] = NewDecision(msg, run)]
      /\ audits' = [audits EXCEPT ![i] = AuditTrail(msg, advice, run)]
      /\ answers' = [answers EXCEPT ![i] = AnswerRow(run)]
      /\ Known(msg) /\ ~Raises(msg, reply) /\ IsMessage(msg)
  BY WaitingUnwritten DEF IntentPublished, Replied
<1>2. NewState(run) \in NegotiationState
  BY DEF NewState, NegotiationState
<1> HIDE DEF run, advice
<1>3. /\ replies'[i] = reply
      /\ inbox'[i] = msg
      /\ sessions'[i] = SessionRow(msg, NewState(run))
      /\ intents'[i] = IntentRow(msg, advice)
      /\ offers'[i] = run.offers
      /\ decisions'[i] = NewDecision(msg, run)
      /\ audits'[i] = AuditTrail(msg, advice, run)
      /\ answers'[i] = AnswerRow(run)
  BY <1>1 DEF IInv, Tabular
<1>4. \A j \in IntentReqs \ {i} :
        /\ replies'[j] = replies[j]
        /\ inbox'[j] = inbox[j]
        /\ sessions'[j] = sessions[j]
        /\ intents'[j] = intents[j]
        /\ offers'[j] = offers[j]
        /\ decisions'[j] = decisions[j]
        /\ audits'[j] = audits[j]
        /\ answers'[j] = answers[j]
  BY <1>1 DEF IInv, Tabular
<1>5. RunOn(i)' = run
  BY <1>3 DEF RunOn, DealOn, AdviceOn, run, advice
<1>6. Written(i)'
  BY <1>1, <1>2, <1>3 DEF Written, RowsOf, NewDecision, run, advice
<1>7. QED
  BY <1>3, <1>4, <1>5, <1>6 DEF Unwritten, Written

\* So it keeps the invariant: nothing was ruled on, or reported of, a decision that did
\* not exist.
LEMMA PublishedIInv ==
  ASSUME ChanceIsInteger, IInv, NEW i \in IntentReqs, NEW reply, IntentPublished(i, reply)
  PROVE  IInv'
<1>1. /\ UNCHANGED <<inbox, authorizations, outcomes>>
      /\ decisions[i] = NoRow
      /\ DOMAIN replies' = IntentReqs
      /\ decisions' = [decisions EXCEPT ![i] = decisions'[i]]
  BY WaitingUnwritten DEF IntentPublished, Replied, IInv, Tabular, Unwritten
<1>2. Tabular'
  BY <1>1 DEF IntentPublished, IInv, Tabular
<1>3. RowsInv'
  BY <1>1, PublishedRows DEF IInv, RowsInv
<1>4. OutcomeInv'
  BY <1>1, PublishedRows DEF IInv, OutcomeInv, ScopedRow
<1>5. AuthorizationInv'
  <2>1. \A a \in ApprovalReqs :
          authorizations'[a] # NoRow =>
            /\ authorizations'[a].decision \in IntentReqs \ {i}
            /\ ScopedRow(decisions', authorizations'[a].merchant,
                         authorizations'[a].decision)
    BY <1>1, PublishedRows DEF IInv, AuthorizationInv, ScopedRow
  <2>2. ~RuledOn(i)'
    BY <2>1 DEF RuledOn
  <2>3. decisions'[i].action = "ESCALATE" <=> decisions'[i].state = "PENDING_APPROVAL"
    <3>1. PICK run : decisions'[i] = NewDecision(inbox[i], run)
      BY PublishedRows
    <3>2. QED
      BY <3>1 DEF NewDecision, NewState
  <2>4. \A j \in IntentReqs \ {i} : RuledOn(j)' <=> RuledOn(j)
    BY <1>1 DEF RuledOn
  <2>5. QED
    BY <2>1, <2>2, <2>3, <2>4, PublishedRows DEF IInv, AuthorizationInv
<1>6. QED
  BY <1>2, <1>3, <1>4, <1>5 DEF IInv

\* A ruling finds the decision waiting for it, and moves nothing but its state.
LEMMA RuledRow ==
  ASSUME ChanceIsInteger, IInv, NEW a \in ApprovalReqs, NEW m, NEW d \in IntentReqs,
         NEW verdict \in Verdict, Rule(a, m, d, verdict)
  PROVE  /\ decisions[d] # NoRow
         /\ decisions[d].merchant = m
         /\ decisions[d].state = "PENDING_APPROVAL"
         /\ decisions'[d].state = ClosedBy(verdict)
         /\ decisions'[d].merchant = m
         /\ decisions'[d].action = decisions[d].action
         /\ Written(d)'
         /\ \A j \in IntentReqs : j # d => decisions'[j] = decisions[j]
<1>1. decisions[d] \in DeskRow /\ Written(d)
  BY DecisionTyped DEF Rule, Visible, ScopedRow
<1>2. decisions[d] # NoRow /\ decisions[d].merchant = m
  BY DEF Rule, Visible, ScopedRow
<1>3. decisions[d].state = "PENDING_APPROVAL"
  BY DEF Rule, AllowedTransitions, Verdict
<1>4. /\ decisions'[d] = [decisions[d] EXCEPT !.state = ClosedBy(verdict)]
      /\ \A j \in IntentReqs \ {d} : decisions'[j] = decisions[j]
  BY DEF Rule, IInv, Tabular
<1>5. ClosedBy(verdict) \in NegotiationState
  BY DEF ClosedBy, NegotiationState
<1>6. Written(d)'
  BY <1>1, <1>4, <1>5 DEF Written, RowsOf, Rule, DeskRow
<1>7. QED
  BY <1>1, <1>2, <1>3, <1>4, <1>6 DEF DeskRow

\* So the rows stay the pipeline's, and what was escalated is now ruled on.
LEMMA RuleIInv ==
  ASSUME ChanceIsInteger, IInv, NEW a \in ApprovalReqs, NEW m, NEW d \in IntentReqs,
         NEW verdict \in Verdict, Rule(a, m, d, verdict)
  PROVE  IInv'
<1>1. /\ UNCHANGED <<inbox, replies, sessions, intents, offers, audits, outcomes,
                     answers>>
      /\ authorizations' =
           [authorizations EXCEPT ![a] =
              [decision |-> d, merchant |-> m, previous |-> decisions[d].state,
               new |-> verdict, at |-> 0]]
  BY DEF Rule
<1>2. Tabular'
  BY <1>1 DEF Rule, IInv, Tabular
<1>3. /\ decisions[d] # NoRow
      /\ decisions[d].merchant = m
      /\ decisions[d].state = "PENDING_APPROVAL"
      /\ decisions'[d].merchant = m
      /\ decisions'[d].action = decisions[d].action
      /\ Written(d)'
      /\ \A j \in IntentReqs : j # d => decisions'[j] = decisions[j]
  BY RuledRow
<1>4. RowsInv'
  <2> SUFFICES ASSUME NEW j \in IntentReqs
               PROVE  (/\ inbox[j] # NoRow => IsMessage(inbox[j])
                       /\ Unwritten(j) \/ Written(j))'
    BY DEF RowsInv
  <2>1. CASE j = d
    BY <1>1, <1>3, <2>1 DEF IInv, RowsInv
  <2>2. CASE j # d
    <3>1. decisions'[j] = decisions[j]
      BY <1>3, <2>2
    <3>2. QED
      BY <1>1, <3>1 DEF IInv, RowsInv, Unwritten, Written
  <2>3. QED
    BY <2>1, <2>2
<1>5. decisions'[d] # NoRow
  BY <1>3, RowsTyped DEF Written
<1>6. \A by : \A j \in IntentReqs :
        ScopedRow(decisions, by, j) => ScopedRow(decisions', by, j)
  BY <1>3, <1>5 DEF ScopedRow
<1>7. OutcomeInv'
  BY <1>1, <1>6 DEF IInv, OutcomeInv
<1>8. \A b \in ApprovalReqs :
        authorizations'[b] = IF b = a THEN [decision |-> d, merchant |-> m,
                                            previous |-> decisions[d].state,
                                            new |-> verdict, at |-> 0]
                             ELSE authorizations[b]
  BY <1>1 DEF IInv, Tabular
<1>9. authorizations[a] = NoRow
  BY DEF Rule
<1>10. authorizations'[a] # NoRow
  <2>1. m \in Merchants /\ decisions[d].state \in NegotiationState
    BY <1>3, DecisionTyped DEF DeskRow
  <2>2. authorizations'[a] \in [decision : IntentReqs, merchant : Merchants,
                                previous : NegotiationState, new : Verdict, at : {0}]
    BY <1>8, <2>1
  <2>3. QED
    BY <2>2, DeskAssumption
<1>11. \A b \in ApprovalReqs :
         authorizations'[b] # NoRow =>
           /\ authorizations'[b].decision \in IntentReqs
           /\ ScopedRow(decisions', authorizations'[b].merchant,
                        authorizations'[b].decision)
  <2> SUFFICES ASSUME NEW b \in ApprovalReqs, authorizations'[b] # NoRow
               PROVE  /\ authorizations'[b].decision \in IntentReqs
                      /\ ScopedRow(decisions', authorizations'[b].merchant,
                                   authorizations'[b].decision)
    OBVIOUS
  <2>1. CASE b = a
    BY <1>3, <1>5, <1>8, <2>1 DEF ScopedRow
  <2>2. CASE b # a
    BY <1>6, <1>8, <2>2 DEF IInv, AuthorizationInv
  <2>3. QED
    BY <2>1, <2>2
<1>12. /\ RuledOn(d)'
       /\ \A j \in IntentReqs \ {d} : RuledOn(j)' <=> RuledOn(j)
  BY <1>8, <1>9, <1>10 DEF RuledOn
<1>13. decisions'[d].action = "ESCALATE"
  BY <1>3 DEF IInv, AuthorizationInv
<1>14. AuthorizationInv'
  <2>1. \A j \in IntentReqs :
          decisions'[j] # NoRow =>
            (decisions'[j].action = "ESCALATE"
               <=> decisions'[j].state = "PENDING_APPROVAL" \/ RuledOn(j)')
    <3> SUFFICES ASSUME NEW j \in IntentReqs, decisions'[j] # NoRow
                 PROVE  decisions'[j].action = "ESCALATE"
                          <=> decisions'[j].state = "PENDING_APPROVAL" \/ RuledOn(j)'
      OBVIOUS
    <3>1. CASE j = d
      BY <1>3, <1>12, <1>13, <3>1
    <3>2. CASE j # d
      <4>1. decisions'[j] = decisions[j]
        BY <1>3, <3>2
      <4>2. RuledOn(j)' <=> RuledOn(j)
        BY <1>12, <3>2
      <4>3. decisions[j].action = "ESCALATE"
              <=> decisions[j].state = "PENDING_APPROVAL" \/ RuledOn(j)
        BY <4>1 DEF IInv, AuthorizationInv
      <4>4. QED
        BY <4>1, <4>2, <4>3
    <3>3. QED
      BY <3>1, <3>2
  <2>2. QED
    BY <1>11, <2>1 DEF AuthorizationInv
<1>15. QED
  BY <1>2, <1>4, <1>7, <1>14 DEF IInv

\* An outcome is reported of a decision its reporter can see.
LEMMA OutcomeIInv ==
  ASSUME ChanceIsInteger, IInv, NEW o \in OutcomeReqs, NEW m, NEW d \in IntentReqs,
         NEW predicted \in Predictions, NEW converted \in BOOLEAN,
         RecordOutcome(o, m, d, predicted, converted)
  PROVE  IInv'
<1> USE DEF RecordOutcome
<1>1. Tabular'
  BY DEF IInv, Tabular
<1>2. RowsInv'
  BY DEF IInv, RowsInv, Unwritten, Written
<1>3. PredictionError(predicted, converted) \in Nat \union {None}
  BY DeskAssumption DEF PredictionError, ChanceIsInteger
<1>4. OutcomeInv'
  BY <1>3 DEF IInv, Tabular, OutcomeInv, Visible, ScopedRow
<1>5. AuthorizationInv'
  BY DEF IInv, AuthorizationInv, ScopedRow, RuledOn
<1>6. QED
  BY <1>1, <1>2, <1>4, <1>5 DEF IInv

\* Nothing that is written is changed by a step that changes no table.
LEMMA StutterIInv ==
  ASSUME IInv, UNCHANGED vars
  PROVE  IInv'
  BY DEF vars, tables, IInv, Tabular, RowsInv, Unwritten, Written, OutcomeInv,
         AuthorizationInv, ScopedRow, RuledOn

\* Each step keeps the invariant.
LEMMA NextIInv ==
  ASSUME ChanceIsInteger, IInv, [Next]_vars
  PROVE  IInv'
<1>1. ASSUME NEW i \in IntentReqs, IntentRefused(i) PROVE IInv'
  BY <1>1, FailIInv DEF IntentRefused, IInv, Tabular
<1>2. ASSUME NEW i \in IntentReqs, NEW reply, IntentRaises(i, reply) PROVE IInv'
  BY <1>2, FailIInv DEF IntentRaises, Replied, IInv, Tabular
<1>3. CASE Idle \/ UNCHANGED vars
  BY <1>3, StutterIInv DEF Idle
<1>4. QED
  BY <1>1, <1>2, <1>3, PublishedIInv, RuleIInv, OutcomeIInv DEF Next

\* The invariant holds of every behaviour.
LEMMA SpecIInv ==
  ASSUME ChanceIsInteger
  PROVE  Spec => []IInv
  BY InitIInv, NextIInv, PTL DEF Spec

--------------------------------------------------------------------------------
(* What follows. *)

\* A published decision stands on a deal that could be computed; it is what the pipeline
\* made of that deal.
LEMMA PublishedRun ==
  ASSUME ChanceIsInteger, IInv, NEW i \in Published
  PROVE  /\ i \in IntentReqs
         /\ DealOf(i) = DealOn(i)
         /\ IsMessage(inbox[i]) /\ Known(inbox[i])
         /\ IsDeal(DealOf(i)) /\ Computable(DealOf(i))
         /\ decisions[i] \in DeskRow
         /\ decisions[i].merchant = inbox[i].merchant
         /\ decisions[i].action = RunOn(i).action
         /\ decisions[i].selected = RunOn(i).selected
         /\ decisions[i].requiresApproval <=> RunOn(i).action = "ESCALATE"
         /\ decisions[i].terms = FrozenTerms(RunOn(i))
         /\ offers[i] = RunOn(i).offers
<1>1. i \in IntentReqs /\ decisions[i] \in DeskRow /\ Written(i)
  BY DecisionTyped DEF Published
<1>2. IsMessage(inbox[i]) /\ Known(inbox[i]) /\ ~Raises(inbox[i], replies[i])
  BY <1>1 DEF Written, RowsOf
<1>3. DealOf(i) = DealOn(i)
  BY <1>1 DEF Written, RowsOf, DealOf, DealOn, AdviceOn, IntentRow
<1>4. IsDeal(DealOn(i)) /\ Computable(DealOn(i))
  BY <1>2, DealTyped DEF DealOn, AdviceOn, Raises
<1>5. /\ decisions[i] = [merchant |-> inbox[i].merchant, action |-> RunOn(i).action,
                         selected |-> RunOn(i).selected,
                         requiresApproval |-> RunOn(i).action = "ESCALATE",
                         state |-> decisions[i].state, terms |-> FrozenTerms(RunOn(i))]
      /\ offers[i] = RunOn(i).offers
  BY <1>1 DEF Written, RowsOf, RunOn, DealOn, AdviceOn
<1>6. /\ decisions[i].merchant = inbox[i].merchant
      /\ decisions[i].action = RunOn(i).action
      /\ decisions[i].selected = RunOn(i).selected
      /\ decisions[i].requiresApproval = (RunOn(i).action = "ESCALATE")
      /\ decisions[i].terms = FrozenTerms(RunOn(i))
  BY <1>5
<1>7. QED
  BY <1>1, <1>2, <1>3, <1>4, <1>5, <1>6

\* The selected offer: a feasible row of the ledger, the valuation of a candidate.
LEMMA SelectedOffer ==
  ASSUME ChanceIsInteger, IInv, NEW i \in Published
  PROVE  /\ decisions[i].selected = 0 <=> decisions[i].terms = NoTerms
         /\ decisions[i].selected = 0 <=> Feasible(offers[i]) = {}
         /\ decisions[i].selected # 0 =>
              /\ decisions[i].selected \in Feasible(offers[i])
              /\ decisions[i].selected \in DOMAIN Candidates(DealOf(i))
              /\ Selected(i)
                   = Offer(DealOf(i), Candidates(DealOf(i))[decisions[i].selected])
              /\ decisions[i].terms = TermsOf(Selected(i))
<1>1. /\ IsDeal(DealOf(i)) /\ Computable(DealOf(i))
      /\ offers[i] = RunPipeline(DealOf(i)).offers
      /\ decisions[i].selected = RunPipeline(DealOf(i)).selected
      /\ decisions[i].terms = FrozenTerms(RunPipeline(DealOf(i)))
  BY PublishedRun DEF RunOn
<1>2. QED
  BY <1>1, RunTyped, RunSelects, RunOffers DEF Selected

\* The terms of a decision are those of a candidate that passed the policy, on every
\* one of its amounts: no stage after the check changes them.
THEOREM OfferKeepsPolicyHolds ==
  ASSUME ChanceIsInteger
  PROVE  Spec => []OfferKeepsPolicy
<1>1. ASSUME IInv PROVE OfferKeepsPolicy
  <2> SUFFICES ASSUME NEW i \in Published, decisions[i].terms # NoTerms
               PROVE  LET t == decisions[i].terms
                          product == Product(inbox[i])
                          policy == Policy(decisions[i].merchant)
                          given == IF t.price < product.base THEN product.base - t.price
                                   ELSE 0
                      IN  /\ (t.price - product.cost - product.delivery) * t.quantity
                               >= policy.marginFloor
                          /\ given <= policy.maxDiscount
                          /\ given + t.cashback <= policy.incentiveBudget - policy.spend
                          /\ t.quantity <= product.inventory
                          /\ t.delivery = "expedited" => t.quantity <= product.capacity
    BY DEF OfferKeepsPolicy
  <2> DEFINE deal == DealOf(i)
             c == Candidates(deal)[decisions[i].selected]
             t == decisions[i].terms
  <2>1. /\ IsDeal(deal)
        /\ deal.product = Product(inbox[i])
        /\ deal.policy = Policy(decisions[i].merchant)
    BY <1>1, PublishedRun DEF DealOf, Deal
  <2>2. /\ decisions[i].selected \in Feasible(offers[i])
        /\ decisions[i].selected \in DOMAIN Candidates(deal)
        /\ Selected(i) = Offer(deal, c)
        /\ t = TermsOf(Selected(i))
    BY <1>1, SelectedOffer
  <2>3. /\ t.price = c.price /\ t.discount = c.discount /\ t.cashback = c.cashback
        /\ t.delivery = c.delivery /\ t.quantity = deal.intent.quantity
    BY <2>2 DEF TermsOf, Offer
  <2>4. FirstViolation(deal, c) = 0
    BY <2>2 DEF Feasible, Selected, Offer
  <2>5. c \in CandidateRow /\ c.discount = Discount(deal, c.price)
    BY <2>1, <2>2, CandidateTyped
  <2>6. /\ Contribution(deal, c) >= deal.policy.marginFloor
        /\ c.discount <= deal.policy.maxDiscount
        /\ BudgetAllows(deal, c)
        /\ deal.intent.quantity <= deal.product.inventory
        /\ c.delivery = "expedited" => deal.intent.quantity <= deal.product.capacity
    BY <2>4, FeasiblePasses
  <2> HIDE DEF deal, c
  <2>7. /\ Contribution(deal, c)
               = (t.price - deal.product.cost - deal.product.delivery) * t.quantity
        /\ c.discount = IF t.price < deal.product.base THEN deal.product.base - t.price
                        ELSE 0
    BY <2>3, <2>5 DEF Contribution, Discount
  <2>8. c.discount + t.cashback <= deal.policy.incentiveBudget - deal.policy.spend
    BY <2>1, <2>3, <2>5, <2>6 DEF BudgetAllows, IsDeal, PolicyRow, CandidateRow
  <2>9. QED
    BY <2>1, <2>3, <2>6, <2>7, <2>8
<1>2. QED
  BY <1>1, SpecIInv, PTL

\* No feasible candidate is worth more than the winner, and the ties go as promised.
THEOREM WinnerIsBestHolds ==
  ASSUME ChanceIsInteger
  PROVE  Spec => []WinnerIsBest
<1>1. ASSUME IInv PROVE WinnerIsBest
  <2> SUFFICES ASSUME NEW i \in Published, decisions[i].selected # 0,
                      NEW n \in Feasible(offers[i])
               PROVE  LET row == offers[i][n]
                          best == Selected(i)
                      IN  /\ row.eov <= best.eov
                          /\ row.eov = best.eov =>
                               /\ row.contribution <= best.contribution
                               /\ row.contribution = best.contribution
                                    => best.price <= row.price
    BY DEF WinnerIsBest
  <2> DEFINE best == decisions[i].selected
  <2>1. /\ OffersTyped(offers[i])
        /\ best \in Feasible(offers[i])
        /\ \A k \in Feasible(offers[i]) \ {best} : Ahead(offers[i], best, k)
    BY <1>1, PublishedRun, RunOffers, RunSelects DEF RunOn
  <2>2. CASE n = best
    BY <2>1, <2>2 DEF Selected, OffersTyped
  <2>3. CASE n # best
    BY <2>1, <2>3, AheadIsBetter DEF Selected
  <2>4. QED
    BY <2>2, <2>3
<1>2. QED
  BY <1>1, SpecIInv, PTL

\* What waits for a human is an offer over the threshold and nothing else, and what is
\* rejected had no feasible candidate.
THEOREM GateIsThresholdHolds ==
  ASSUME ChanceIsInteger
  PROVE  Spec => []GateIsThreshold
<1>1. ASSUME IInv PROVE GateIsThreshold
  <2> SUFFICES ASSUME NEW i \in Published
               PROVE  LET d == decisions[i]
                          threshold == Policy(d.merchant).threshold
                      IN  /\ d.action = "REJECT" <=> Feasible(offers[i]) = {}
                          /\ d.requiresApproval <=>
                               d.terms # NoTerms
                                 /\ d.terms.cashback + d.terms.discount > threshold
    BY DEF GateIsThreshold
  <2> DEFINE d == decisions[i]
             deal == DealOf(i)
             best == Selected(i)
  <2>1. /\ IsDeal(deal) /\ Computable(deal)
        /\ offers[i] = RunPipeline(deal).offers
        /\ d.action = RunPipeline(deal).action
        /\ d.selected = RunPipeline(deal).selected
        /\ d.requiresApproval <=> RunPipeline(deal).action = "ESCALATE"
        /\ deal.policy = Policy(d.merchant)
    BY <1>1, PublishedRun DEF RunOn, DealOf, Deal
  <2>2. d.action = Action(deal, offers[i], d.selected)
    BY <2>1, RunOffers
  <2>3. CASE d.selected = 0
    BY <1>1, <2>1, <2>2, <2>3, SelectedOffer DEF Action
  <2>4. CASE d.selected # 0
    <3>1. /\ Feasible(offers[i]) # {}
          /\ d.terms # NoTerms
          /\ d.selected \in DOMAIN RunPipeline(deal).offers
          /\ d.terms = TermsOf(best)
      BY <1>1, <2>1, <2>4, SelectedOffer DEF Feasible
    <3>2. /\ best \in OfferRow
          /\ d.terms.discount = best.discount
          /\ d.terms.cashback = best.cashback
      BY <2>1, <3>1, OfferTyped DEF Selected, TermsOf
    <3>3. d.action = IF OverThreshold(deal, best) THEN "ESCALATE"
                     ELSE IF MatchesAsk(deal, best) THEN "ACCEPT" ELSE "COUNTER"
      BY <2>2, <2>4 DEF Action, Selected
    <3>4. best.discount + best.cashback = best.cashback + best.discount
      BY <3>2 DEF OfferRow
    <3> HIDE DEF d, deal, best
    <3>5. QED
      BY <2>1, <3>1, <3>2, <3>3, <3>4 DEF OverThreshold, d
  <2>5. QED
    BY <2>3, <2>4
<1>2. QED
  BY <1>1, SpecIInv, PTL

\* Every ledger, and every later round of a message, keeps what generation promises.
THEOREM CandidatesAreBoundedHolds ==
  ASSUME ChanceIsInteger
  PROVE  Spec => []CandidatesAreBounded
<1>1. ASSUME NEW deal, IsDeal(deal) PROVE Bounded(deal, Candidates(deal))
  BY <1>1, CandidatesDiffer, CandidateTyped DEF Bounded
<1>2. ASSUME IInv PROVE CandidatesAreBounded
  <2>1. ASSUME NEW i \in Published PROVE Bounded(DealOf(i), offers[i])
    <3> DEFINE deal == DealOf(i)
    <3>1. /\ IsDeal(deal) /\ Computable(deal)
          /\ offers[i] = RunPipeline(deal).offers
      BY <1>2, <2>1, PublishedRun DEF RunOn
    <3>2. /\ DOMAIN offers[i] = DOMAIN Candidates(deal)
          /\ \A n \in DOMAIN offers[i] : offers[i][n] = Offer(deal, Candidates(deal)[n])
      BY <3>1, RunOffers
    <3>3. \A n \in DOMAIN offers[i] :
            /\ offers[i][n].price = Candidates(deal)[n].price
            /\ offers[i][n].discount = Candidates(deal)[n].discount
            /\ offers[i][n].cashback = Candidates(deal)[n].cashback
            /\ offers[i][n].delivery = Candidates(deal)[n].delivery
      <4>1. \A c : LET row == Offer(deal, c)
                   IN  /\ row.price = c.price /\ row.discount = c.discount
                       /\ row.cashback = c.cashback /\ row.delivery = c.delivery
        BY DEF Offer
      <4>2. QED
        BY <3>2, <4>1
    <3>4. \A n, k \in DOMAIN offers[i] : offers[i][n] = offers[i][k]
            => Candidates(deal)[n] = Candidates(deal)[k]
      BY <3>1, <3>2, <3>3, CandidateTyped DEF CandidateRow
    <3>5. QED
      BY <1>1, <3>1, <3>2, <3>3, <3>4 DEF Bounded
  <2>2. ASSUME NEW i \in IntentReqs, Waiting(i), Known(inbox[i]), NEW prices
        PROVE  LET deal == [Deal(inbox[i], FALSE) EXCEPT !.intent.round = 2,
                                                        !.rejected = prices]
               IN  Bounded(deal, Candidates(deal))
    <3> DEFINE first == Deal(inbox[i], FALSE)
               later == [first EXCEPT !.intent.round = 2, !.rejected = prices]
    <3>1. IsDeal(first)
      BY <1>2, <2>2, WaitingUnwritten, DealTyped
    <3>2. /\ later.product = first.product /\ later.policy = first.policy
          /\ later.intent.budget = first.intent.budget
          /\ later.intent.quantity = first.intent.quantity
          /\ later.intent.price = first.intent.price
          /\ later.intent.cashback = first.intent.cashback
      BY DEF Deal
    <3>3. IsDeal(later)
      BY <3>1, <3>2 DEF IsDeal
    <3>4. QED
      BY <1>1, <3>3
  <2>3. QED
    BY <2>1, <2>2 DEF CandidatesAreBounded, Published
<1>3. QED
  BY <1>2, SpecIInv, PTL

\* A buyer whose own terms pass the policy is made an offer worth at least those terms:
\* they are among the candidates.
THEOREM AskIsHeardHolds ==
  ASSUME ChanceIsInteger
  PROVE  Spec => []AskIsHeard
<1>1. ASSUME IInv PROVE AskIsHeard
  <2> SUFFICES ASSUME NEW i \in Published, ValidAnchor(DealOf(i)),
                      FirstViolation(DealOf(i),
                                     Candidate(DealOf(i), AnchorKey(DealOf(i)))) = 0
               PROVE  /\ decisions[i].selected # 0
                      /\ Selected(i).eov
                           >= Value(DealOf(i), Candidate(DealOf(i), AnchorKey(DealOf(i))))
    BY DEF AskIsHeard
  <2> DEFINE deal == DealOf(i)
             ask == Candidate(deal, AnchorKey(deal))
             best == decisions[i].selected
  <2>1. /\ IsDeal(deal) /\ Computable(deal)
        /\ offers[i] = RunPipeline(deal).offers
        /\ best = RunPipeline(deal).selected
    BY <1>1, PublishedRun DEF RunOn
  <2>2. ask.price = deal.intent.price /\ ask.price >= deal.product.cost
    BY FeasiblePasses DEF Candidate, AnchorKey
  <2>3. Anchored(deal)
    BY <2>2 DEF Anchored
  <2>4. PICK n \in DOMAIN Candidates(deal) : Candidates(deal)[n] = ask
    <3>1. CASE \E k \in GridKeys(deal) : Grid(deal)[k] = AnchorKey(deal)
      BY <3>1 DEF Candidates
    <3>2. CASE \A k \in GridKeys(deal) : Grid(deal)[k] # AnchorKey(deal)
      <4>1. AskTurn \notin GridKeys(deal)
        BY <2>1, GridTyped DEF GridKeys, AskTurn
      <4>2. QED
        BY <2>3, <3>2, <4>1 DEF Candidates
    <3>3. QED
      BY <3>1, <3>2
  <2>5. /\ n \in Feasible(offers[i])
        /\ offers[i][n].eov = Value(deal, ask)
    <3>1. n \in DOMAIN offers[i] /\ offers[i][n] = Offer(deal, ask)
      BY <2>1, <2>4, RunOffers
    <3>2. FirstViolation(deal, ask) = 0
      OBVIOUS
    <3> HIDE DEF ask, deal
    <3>3. Offer(deal, ask).violation = 0 /\ Offer(deal, ask).eov = Value(deal, ask)
      BY <3>2 DEF Offer
    <3>4. QED
      BY <3>1, <3>3 DEF Feasible
  <2>6. /\ OffersTyped(offers[i])
        /\ best \in Feasible(offers[i]) /\ best # 0
        /\ \A k \in Feasible(offers[i]) \ {best} : Ahead(offers[i], best, k)
    BY <2>1, <2>5, RunOffers, RunSelects
  <2>7. offers[i][n].eov <= offers[i][best].eov
    BY <2>5, <2>6, AheadIsBetter DEF OffersTyped
  <2>8. offers[i][n].eov \in Int /\ offers[i][best].eov \in Int
    BY <2>5, <2>6 DEF OffersTyped
  <2> HIDE DEF ask, deal
  <2>9. QED
    BY <2>5, <2>6, <2>7, <2>8 DEF Selected, ask, deal
<1>2. QED
  BY <1>1, SpecIInv, PTL

\* At a price the pipeline has a candidate for, in a benchmark scenario, it has one that
\* gives no cashback: a point of the grid, or the buyer's ask as it is.
LEMMA PlainCandidate ==
  ASSUME NEW deal, IsDeal(deal), IsScenario(deal), NEW n \in DOMAIN Candidates(deal)
  PROVE  \E k \in DOMAIN Candidates(deal) :
           /\ Candidates(deal)[k].price = Candidates(deal)[n].price
           /\ Candidates(deal)[k].discount = Candidates(deal)[n].discount
           /\ Candidates(deal)[k].cashback = 0
<1>1. CASE n \in GridKeys(deal)
  <2>1. deal.intent.round = 1
    BY DEF IsScenario
  <2>2. PICK k \in GridKeys(deal) :
          Grid(deal)[k] = [price |-> Grid(deal)[n].price, cashback |-> 0,
                           delivery |-> "standard"]
    BY <1>1, <2>1, PlainPoint
  <2>3. k \in DOMAIN Candidates(deal)
    BY DEF Candidates
  <2>4. /\ Candidates(deal)[k] = Candidate(deal, Grid(deal)[k])
        /\ Candidates(deal)[n] = Candidate(deal, Grid(deal)[n])
    BY <1>1 DEF Candidates
  <2>5. QED
    BY <2>2, <2>3, <2>4 DEF Candidate
<1>2. CASE n \notin GridKeys(deal)
  <2>1. Candidates(deal)[n] = Candidate(deal, AnchorKey(deal))
    BY <1>2, CandidateKey
  <2>2. AnchorKey(deal).cashback = 0
    BY DEF AnchorKey, IsScenario, IsDeal, PolicyRow
  <2>3. QED
    BY <2>1, <2>2 DEF Candidate
<1>3. QED
  BY <1>1, <1>2

\* Such a candidate passes the policy if a sale at its price does: its delivery, if
\* expedited, is of the one unit there is capacity for.
LEMMA PlainPasses ==
  ASSUME NEW deal, IsDeal(deal), IsScenario(deal), NEW k \in DOMAIN Candidates(deal),
         NEW sale, FirstViolation(deal, sale) = 0,
         Candidates(deal)[k].price = sale.price,
         Candidates(deal)[k].discount = sale.discount,
         Candidates(deal)[k].cashback = sale.cashback
  PROVE  FirstViolation(deal, Candidates(deal)[k]) = 0
<1> DEFINE c == Candidates(deal)[k]
<1>1. \A m \in 1 .. 9 : Checks(deal, sale)[m]
  BY FirstViolationTyped
<1>2. c.delivery = "expedited" => deal.intent.quantity <= deal.product.capacity
  <2>1. c.delivery = "expedited" => deal.product.capacity > 0
    BY CandidateTyped
  <2>2. QED
    BY <2>1 DEF IsScenario, IsDeal, ProductRow
<1> HIDE DEF c
<1>3. \A m \in 1 .. 9 : Checks(deal, c)[m]
  <2>1. /\ Checks(deal, sale)[1] /\ Checks(deal, sale)[2] /\ Checks(deal, sale)[3]
        /\ Checks(deal, sale)[4] /\ Checks(deal, sale)[5] /\ Checks(deal, sale)[6]
        /\ Checks(deal, sale)[8] /\ Checks(deal, sale)[9]
    BY <1>1
  <2>2. /\ Checks(deal, c)[1] /\ Checks(deal, c)[2] /\ Checks(deal, c)[3]
        /\ Checks(deal, c)[4] /\ Checks(deal, c)[5] /\ Checks(deal, c)[6]
        /\ Checks(deal, c)[7] /\ Checks(deal, c)[8] /\ Checks(deal, c)[9]
    BY <1>2, <2>1 DEF Checks, Contribution, BudgetAllows, c
  <2>3. 1 .. 9 = {1, 2, 3, 4, 5, 6, 7, 8, 9}
    OBVIOUS
  <2>4. QED
    BY <2>2, <2>3
<1>4. QED
  BY <1>3, FirstViolationTyped DEF c

\* What the policy passes, the benchmark does not count as a violation.
LEMMA PassesAreCompliant ==
  ASSUME NEW deal, IsDeal(deal), IsScenario(deal), NEW sale, sale.price \in Int,
         sale.discount = Discount(deal, sale.price), FirstViolation(deal, sale) = 0
  PROVE  ~BreaksPolicy(deal, sale.price)
<1> DEFINE gain == sale.price - deal.product.cost - deal.product.delivery
<1>1. gain \in Int /\ deal.intent.quantity = 1
  BY DEF IsDeal, ProductRow, IsScenario
<1>2. Contribution(deal, sale) = gain
  BY <1>1 DEF Contribution
<1>3. /\ gain >= deal.policy.marginFloor
      /\ Discount(deal, sale.price) <= deal.policy.maxDiscount
  BY <1>2, FeasiblePasses
<1>4. /\ deal.policy.marginFloor \in Int /\ deal.policy.maxDiscount \in Int
      /\ Discount(deal, sale.price) \in Int
  BY DiscountTyped DEF IsDeal, PolicyRow
<1>5. BreaksPolicy(deal, sale.price) <=>
        \/ Discount(deal, sale.price) > deal.policy.maxDiscount
        \/ gain < deal.policy.marginFloor
  BY DEF BreaksPolicy
<1> HIDE DEF gain
<1>6. QED
  BY <1>1, <1>3, <1>4, <1>5

\* Its value is at least the baseline's: they have one contribution, which is no loss,
\* and only the pipeline counts urgency.
LEMMA PlainIsWorthMore ==
  ASSUME NEW deal, IsDeal(deal), IsScenario(deal), ChanceIsInteger, ChanceIsIncreasing,
         deal.intent.budget # 0, deal.product.base # 0,
         NEW c \in CandidateRow, c.cashback = 0, FirstViolation(deal, c) = 0
  PROVE  /\ BaselineValue(deal, c.price) \in Int
         /\ Value(deal, c) \in Int
         /\ BaselineValue(deal, c.price) <= Value(deal, c)
<1> DEFINE gain == c.price - deal.product.cost - deal.product.delivery
<1>1. gain \in Int /\ deal.intent.quantity = 1 /\ c.price \in Int
  BY DEF IsDeal, ProductRow, CandidateRow, IsScenario
<1>2. Contribution(deal, c) = gain
  BY <1>1 DEF Contribution
<1>3. gain >= 0
  <2>1. gain >= deal.policy.marginFloor
    BY <1>2, FeasiblePasses
  <2>2. deal.policy.marginFloor >= 0 /\ deal.policy.marginFloor \in Int
    BY DEF IsScenario, IsDeal, PolicyRow
  <2> HIDE DEF gain
  <2>3. QED
    BY <1>1, <2>1, <2>2
<1>4. deal.intent.budget > 0 /\ deal.product.base > 0
  BY DEF IsScenario, IsDeal, ProductRow
<1>5. /\ PConv(deal, c.price, 0, FALSE) * gain \in Int
      /\ PConv(deal, c.price, 0, deal.intent.expedited) * gain \in Int
      /\ PConv(deal, c.price, 0, FALSE) * gain
           <= PConv(deal, c.price, 0, deal.intent.expedited) * gain
  <2> HIDE DEF gain
  <2>1. QED
    BY <1>1, <1>3, <1>4, UrgencyHelps
<1>6. BaselineValue(deal, c.price) = PConv(deal, c.price, 0, FALSE) * gain
  BY DEF BaselineValue
<1>7. Value(deal, c) = PConv(deal, c.price, 0, deal.intent.expedited) * gain
  <2>1. Value(deal, c) = PConv(deal, c.price, 0, deal.intent.expedited) * gain - Scale * 0
    BY <1>2 DEF Value
  <2>2. Scale \in Int
    BY DEF ChanceIsInteger
  <2> HIDE DEF gain
  <2>3. QED
    BY <1>5, <2>1, <2>2
<1>8. QED
  BY <1>5, <1>6, <1>7

\* What run_benchmark compares: in no scenario does a baseline that keeps the policy, at a
\* price the pipeline has a candidate for, expect more from the sale than the pipeline's
\* offer is worth.  The sigmoid has to be increasing for that, and the floor no loss.
THEOREM EconexBeats ==
  ASSUME ChanceIsInteger, ChanceIsIncreasing
  PROVE  Spec => []EconexBeatsCompliantBaselines
<1>1. ASSUME IInv PROVE EconexBeatsCompliantBaselines
  <2> SUFFICES ASSUME NEW i \in Published, IsScenario(DealOf(i)),
                      NEW n \in DOMAIN offers[i],
                      FirstViolation(DealOf(i),
                        Candidate(DealOf(i), [price |-> offers[i][n].price, cashback |-> 0,
                                              delivery |-> "standard"])) = 0
               PROVE  /\ ~BreaksPolicy(DealOf(i), offers[i][n].price)
                      /\ decisions[i].selected # 0
                      /\ Selected(i).eov >= BaselineValue(DealOf(i), offers[i][n].price)
    BY DEF EconexBeatsCompliantBaselines
  <2> DEFINE deal == DealOf(i)
             price == offers[i][n].price
             sale == Candidate(deal, [price |-> price, cashback |-> 0,
                                      delivery |-> "standard"])
             best == decisions[i].selected
  <2>1. /\ IsDeal(deal) /\ Computable(deal)
        /\ offers[i] = RunPipeline(deal).offers
        /\ best = RunPipeline(deal).selected
    BY <1>1, PublishedRun DEF RunOn
  <2>2. /\ DOMAIN offers[i] = DOMAIN Candidates(deal)
        /\ \A k \in DOMAIN offers[i] : offers[i][k] = Offer(deal, Candidates(deal)[k])
        /\ OffersTyped(offers[i])
    BY <2>1, RunOffers
  <2>3. /\ sale.price = price /\ sale.cashback = 0
        /\ sale.discount = Discount(deal, price)
        /\ FirstViolation(deal, sale) = 0
    BY DEF Candidate
  <2>4. /\ price = Candidates(deal)[n].price
        /\ Candidates(deal)[n].discount = Discount(deal, price)
    <3>1. n \in DOMAIN Candidates(deal) /\ offers[i][n] = Offer(deal, Candidates(deal)[n])
      BY <2>2
    <3> HIDE DEF deal
    <3>2. price = Candidates(deal)[n].price
      BY <3>1 DEF Offer
    <3>3. QED
      BY <2>1, <3>1, <3>2, CandidateTyped
  <2> HIDE DEF sale, price, deal, best
  <2>5. IsScenario(deal)
    BY DEF deal
  <2>6. PICK k \in DOMAIN Candidates(deal) :
          /\ Candidates(deal)[k].price = price
          /\ Candidates(deal)[k].discount = Discount(deal, price)
          /\ Candidates(deal)[k].cashback = 0
    BY <2>1, <2>2, <2>4, <2>5, PlainCandidate
  <2> DEFINE c == Candidates(deal)[k]
  <2>7. c \in CandidateRow
    BY <2>1, CandidateTyped
  <2>8. FirstViolation(deal, c) = 0
    BY <2>1, <2>3, <2>5, <2>6, PlainPasses
  <2>9. /\ BaselineValue(deal, price) \in Int /\ Value(deal, c) \in Int
        /\ BaselineValue(deal, price) <= Value(deal, c)
    <3>1. deal.intent.budget # 0 /\ deal.product.base # 0
      BY <2>1, <2>8 DEF Computable
    <3>2. QED
      BY <2>1, <2>5, <2>6, <2>7, <2>8, <3>1, PlainIsWorthMore
  <2>10. k \in Feasible(offers[i]) /\ offers[i][k].eov = Value(deal, c)
    <3>1. k \in DOMAIN offers[i] /\ offers[i][k] = Offer(deal, c)
      BY <2>2
    <3> HIDE DEF c
    <3>2. QED
      BY <2>8, <3>1 DEF Feasible, Offer
  <2>11. /\ best \in Feasible(offers[i]) /\ best # 0
         /\ \A j \in Feasible(offers[i]) \ {best} : Ahead(offers[i], best, j)
    BY <2>1, <2>10, RunSelects
  <2>12. Value(deal, c) <= offers[i][best].eov
    BY <2>2, <2>10, <2>11, AheadIsBetter DEF OffersTyped
  <2>13. offers[i][best].eov \in Int
    BY <2>2, <2>11 DEF OffersTyped
  <2>14. ~BreaksPolicy(deal, price)
    BY <2>1, <2>3, <2>5, <2>6, <2>7, PassesAreCompliant DEF CandidateRow
  <2>15. QED
    BY <2>9, <2>11, <2>12, <2>13, <2>14 DEF Selected, best, deal, price
<1>2. QED
  BY <1>1, SpecIInv, PTL

\* Rulings and outcomes are on record only from the merchant the decision belongs to, and
\* no other merchant is shown its ledger or its timeline.
THEOREM MerchantsAreIsolatedHolds ==
  ASSUME ChanceIsInteger
  PROVE  Spec => []MerchantsAreIsolated
<1>1. ASSUME IInv PROVE MerchantsAreIsolated
  <2>1. ASSUME NEW m \in Merchants, NEW i \in Published, m # decisions[i].merchant
        PROVE  LedgerView(m, i) = NoRow /\ TimelineView(m, i) = <<>>
    <3>1. Written(i) /\ decisions[i].merchant = inbox[i].merchant
      BY <1>1, PublishedRun, DecisionTyped DEF Published
    <3>2. sessions[i].merchant = inbox[i].merchant
      BY <3>1 DEF Written, RowsOf, SessionRow
    <3>3. QED
      BY <2>1, <3>1, <3>2 DEF LedgerView, TimelineView
  <2>2. QED
    BY <1>1, <2>1 DEF IInv, OutcomeInv, AuthorizationInv, MerchantsAreIsolated
<1>2. QED
  BY <1>1, SpecIInv, PTL

\* The trail says of a proposal what the provider said, and of a failure that it failed.
THEOREM ProposalIsGenuineHolds ==
  ASSUME ChanceIsInteger
  PROVE  Spec => []ProposalIsGenuine
<1>1. ASSUME IInv PROVE ProposalIsGenuine
  <2> SUFFICES ASSUME NEW i \in Published
               PROVE  LET told == audits[i].proposal
                          valid == replies[i].kind = "object" /\ ValidRaw(replies[i].raw)
                      IN  /\ told.failed <=> ~valid
                          /\ told.strategy = intents[i].strategy
                          /\ valid => told.strategy = replies[i].raw.strategy
                          /\ ~valid => /\ told.agent = "NONE" /\ told.strategy = "NONE"
                                       /\ intents[i].expedited <=>
                                            "wants_expedited_delivery" \in inbox[i].context
    BY DEF ProposalIsGenuine
  <2> DEFINE valid == replies[i].kind = "object" /\ ValidRaw(replies[i].raw)
             proposal == ParseReply(replies[i])
  <2>1. Written(i)
    BY <1>1, DecisionTyped DEF Published
  <2>2. /\ audits[i].proposal
             = [agent |-> AdviceOn(i).agent, strategy |-> AdviceOn(i).strategy,
                failed |-> AdviceOn(i).failed]
        /\ intents[i].strategy = AdviceOn(i).strategy
        /\ intents[i].expedited = AdviceOn(i).expedited
        /\ proposal.result # "escapes"
    BY <2>1 DEF Written, RowsOf, AuditTrail, IntentRow, Raises, AdviceOn
  <2>3. /\ valid => /\ proposal.result = "proposal"
                    /\ proposal.strategy = replies[i].raw.strategy
        /\ ~valid => proposal.result = "error" /\ proposal.strategy = "NONE"
    BY <2>2 DEF ParseReply, ProviderError, Escapes, FromRaw, Slips, Proposed
  <2>4. /\ AdviceOn(i).strategy = proposal.strategy
        /\ AdviceOn(i).failed = (proposal.result = "error")
        /\ proposal.result = "error" =>
             /\ AdviceOn(i).agent = "NONE"
             /\ AdviceOn(i).expedited = ("wants_expedited_delivery" \in inbox[i].context)
    BY DEF AdviceOn, Advice
  <2>5. /\ audits[i].proposal.failed = (proposal.result = "error")
        /\ audits[i].proposal.strategy = proposal.strategy
        /\ audits[i].proposal.agent = AdviceOn(i).agent
    BY <2>2, <2>4
  <2> HIDE DEF valid, proposal
  <2>6. QED
    BY <2>2, <2>3, <2>4, <2>5 DEF valid
<1>2. QED
  BY <1>1, SpecIInv, PTL

\* Every table holds rows of its kind, and a decision selects one of its own offers.
THEOREM TypeCorrect ==
  ASSUME ChanceIsInteger
  PROVE  Spec => []TypeOK
<1>1. ASSUME IInv PROVE TypeOK
  <2>1. \A i \in IntentReqs : \A n \in DOMAIN offers[i] : offers[i][n] \in OfferRow
    <3> SUFFICES ASSUME NEW i \in IntentReqs, NEW n \in DOMAIN offers[i]
                 PROVE  offers[i][n] \in OfferRow
      OBVIOUS
    <3>1. CASE Unwritten(i)
      BY <3>1 DEF Unwritten
    <3>2. CASE Written(i)
      <4>1. i \in Published
        BY <3>2, RowsTyped DEF Written, Published
      <4>2. QED
        BY <1>1, <4>1, PublishedRun, OfferTyped DEF RunOn
    <3>3. QED
      BY <1>1, <3>1, <3>2 DEF IInv, RowsInv
  <2>2. \A i \in IntentReqs : DOMAIN audits[i] \in {{}, Stages}
    <3> SUFFICES ASSUME NEW i \in IntentReqs
                 PROVE  DOMAIN audits[i] \in {{}, Stages}
      OBVIOUS
    <3>1. CASE Unwritten(i)
      BY <3>1 DEF Unwritten
    <3>2. CASE Written(i)
      <4>1. PICK advice, run : audits[i] = AuditTrail(inbox[i], advice, run)
        BY <3>2 DEF Written, RowsOf
      <4>2. QED
        BY <4>1 DEF AuditTrail, Stages
    <3>3. QED
      BY <1>1, <3>1, <3>2 DEF IInv, RowsInv
  <2>3. ASSUME NEW i \in Published
        PROVE  /\ decisions[i] \in DeskRow
               /\ decisions[i].selected \in {0} \union DOMAIN offers[i]
               /\ sessions[i].state \in NegotiationState
               /\ intents[i].strategy \in Strategies
    <3>1. decisions[i] \in DeskRow /\ Written(i)
      BY <1>1, DecisionTyped DEF Published
    <3>2. decisions[i].selected \in {0} \union DOMAIN offers[i]
      BY <1>1, <2>3, SelectedOffer DEF Feasible
    <3>3. PICK run : sessions[i] = SessionRow(inbox[i], NewState(run))
      BY <3>1 DEF Written, RowsOf
    <3>4. sessions[i].state \in NegotiationState
      BY <3>3 DEF SessionRow, NewState, NegotiationState
    <3>5. intents[i].strategy = AdviceOn(i).strategy
      BY <3>1 DEF Written, RowsOf, IntentRow, AdviceOn
    <3>6. QED
      BY <3>1, <3>2, <3>4, <3>5, AdviceTyped DEF AdviceOn
  <2>4. \A o \in OutcomeReqs :
          outcomes[o] # NoRow => outcomes[o].error \in Nat \union {None}
    BY <1>1 DEF IInv, OutcomeInv
  <2>5. QED
    BY <2>1, <2>2, <2>3, <2>4 DEF TypeOK, DeskRow
<1>2. QED
  BY <1>1, SpecIInv, PTL

\* The answer, the ledger, the frozen terms, the trail and the dashboard tell one story.
THEOREM ViewsAgreeHolds ==
  ASSUME ChanceIsInteger
  PROVE  Spec => []ViewsAgree
<1>1. ASSUME IInv, NEW i \in Published
      PROVE  LET d == decisions[i]
                 ledger == LedgerView(d.merchant, i)
                 trail == TimelineView(d.merchant, i)
                 marked == {n \in DOMAIN ledger : ledger[n].selected}
             IN  /\ Cardinality(marked) = IF answers[i].action = "REJECT" THEN 0 ELSE 1
                 /\ answers[i].offer = d.terms
                 /\ \A n \in marked :
                      TermsOf(ledger[n].offer) = d.terms /\ n = trail.selection
                 /\ trail.decision = answers[i].action
                 /\ trail.candidate_generation = Cardinality(DOMAIN ledger)
                 /\ trail.policy =
                      Cardinality({n \in DOMAIN ledger : ledger[n].offer.eov # None})
  <2> DEFINE d == decisions[i]
             run == RunOn(i)
             ledger == LedgerView(d.merchant, i)
             trail == TimelineView(d.merchant, i)
             marked == {n \in DOMAIN ledger : ledger[n].selected}
  <2>1. Written(i) /\ d.merchant = inbox[i].merchant
    BY <1>1, PublishedRun, DecisionTyped DEF Published
  <2>2. /\ IsDeal(DealOf(i)) /\ Computable(DealOf(i))
        /\ run = RunPipeline(DealOf(i))
        /\ d.selected = run.selected /\ d.action = run.action
        /\ d.terms = FrozenTerms(run) /\ offers[i] = run.offers
    BY <1>1, PublishedRun DEF RunOn
  <2>3. /\ sessions[i] = SessionRow(inbox[i], NewState(run))
        /\ sessions[i] # NoRow
        /\ answers[i] = AnswerRow(run)
        /\ audits[i] = AuditTrail(inbox[i], AdviceOn(i), run)
    <3>1. sessions[i] # NoRow
      BY <2>1, RowsTyped DEF Written
    <3>2. QED
      BY <2>1, <3>1 DEF Written, RowsOf, RunOn, DealOn, AdviceOn
  <2>4. sessions[i].merchant = d.merchant
    BY <2>1, <2>3 DEF SessionRow
  <2>5. /\ ledger = [n \in DOMAIN offers[i] |->
                       [offer |-> offers[i][n], selected |-> IsSelected(i, n)]]
        /\ trail = audits[i]
    BY <2>3, <2>4 DEF LedgerView, TimelineView
  <2>6. /\ trail.selection = run.selected
        /\ trail.decision = run.action
        /\ trail.candidate_generation = Cardinality(DOMAIN run.offers)
        /\ trail.policy = Cardinality(Feasible(run.offers))
    BY <2>3, <2>5 DEF AuditTrail
  <2>7. answers[i].action = run.action /\ answers[i].offer = FrozenTerms(run)
    BY <2>3 DEF AnswerRow
  <2>8. /\ DOMAIN ledger = DOMAIN offers[i]
        /\ \A n \in DOMAIN ledger : /\ ledger[n].offer = offers[i][n]
                                    /\ ledger[n].selected <=> n = run.selected
    <3> HIDE DEF ledger, run, trail
    <3>1. \A n : IsSelected(i, n) = (n = run.selected)
      BY <2>2 DEF IsSelected
    <3>2. DOMAIN ledger = DOMAIN offers[i]
      BY <2>5
    <3>3. \A n \in DOMAIN ledger :
            ledger[n] = [offer |-> offers[i][n], selected |-> IsSelected(i, n)]
      BY <2>5, <3>2
    <3>4. \A n \in DOMAIN ledger : ledger[n].offer = offers[i][n]
      BY <3>3
    <3>5. \A n \in DOMAIN ledger : ledger[n].selected = IsSelected(i, n)
      BY <3>3
    <3>6. QED
      BY <3>1, <3>2, <3>4, <3>5
  <2>9. /\ run.selected = 0 <=> run.action = "REJECT"
        /\ run.selected # 0 => /\ run.selected \in DOMAIN run.offers
                               /\ FrozenTerms(run) = TermsOf(run.offers[run.selected])
        /\ 0 \notin DOMAIN run.offers
    BY <2>2, RunTyped, RunOffers DEF OffersTyped
  <2>10. marked = IF run.action = "REJECT" THEN {} ELSE {run.selected}
    <3> HIDE DEF ledger
    <3>1. QED
      BY <2>2, <2>8, <2>9
  <2>11. Cardinality(marked) = IF answers[i].action = "REJECT" THEN 0 ELSE 1
    BY <2>7, <2>10, FS_EmptySet, FS_Singleton
  <2>12. \A n \in DOMAIN run.offers :
           run.offers[n].violation = 0 <=> run.offers[n].eov # None
    <3> SUFFICES ASSUME NEW n \in DOMAIN run.offers
                 PROVE  run.offers[n].violation = 0 <=> run.offers[n].eov # None
      OBVIOUS
    <3> DEFINE c == Candidates(DealOf(i))[n]
    <3>1. run.offers[n] = Offer(DealOf(i), c)
      BY <2>2, RunOffers
    <3>2. CASE FirstViolation(DealOf(i), c) = 0
      <4>1. n \in Feasible(run.offers)
        BY <3>1, <3>2 DEF Feasible, Offer
      <4>2. run.offers[n].eov \in Int
        BY <2>2, <4>1, RunOffers DEF OffersTyped
      <4>3. QED
        BY <4>1, <4>2, DeskAssumption DEF Feasible
    <3>3. CASE FirstViolation(DealOf(i), c) # 0
      BY <3>1, <3>3 DEF Offer
    <3>4. QED
      BY <3>2, <3>3
  <2>13. Feasible(run.offers) = {n \in DOMAIN ledger : ledger[n].offer.eov # None}
    <3> HIDE DEF ledger
    <3>1. QED
      BY <2>2, <2>8, <2>12 DEF Feasible
  <2> HIDE DEF ledger, trail, run
  <2>14. \A n \in marked : TermsOf(ledger[n].offer) = d.terms /\ n = trail.selection
    BY <2>2, <2>6, <2>8, <2>9, <2>10
  <2>15. QED
    BY <2>2, <2>6, <2>7, <2>8, <2>11, <2>13, <2>14 DEF ledger, trail
<1>2. ASSUME IInv, NEW i \in Published
      PROVE  DecisionCount(decisions[i].merchant, "ESCALATE") =
               Cardinality({j \in Published :
                              /\ decisions[j].merchant = decisions[i].merchant
                              /\ \/ decisions[j].state = "PENDING_APPROVAL"
                                 \/ \E a \in ApprovalReqs :
                                      /\ authorizations[a] # NoRow
                                      /\ authorizations[a].decision = j})
  <2>1. \A j \in Published :
          decisions[j].action = "ESCALATE"
            <=> \/ decisions[j].state = "PENDING_APPROVAL"
                \/ \E a \in ApprovalReqs :
                     authorizations[a] # NoRow /\ authorizations[a].decision = j
    BY <1>2 DEF IInv, AuthorizationInv, RuledOn, Published
  <2>2. {j \in IntentReqs : /\ ScopedRow(decisions, decisions[i].merchant, j)
                            /\ decisions[j].action = "ESCALATE"}
          = {j \in Published :
               /\ decisions[j].merchant = decisions[i].merchant
               /\ \/ decisions[j].state = "PENDING_APPROVAL"
                  \/ \E a \in ApprovalReqs : /\ authorizations[a] # NoRow
                                             /\ authorizations[a].decision = j}
    BY <2>1 DEF ScopedRow, Published
  <2>3. QED
    BY <2>2 DEF DecisionCount
<1>3. IInv => ViewsAgree
  BY <1>1, <1>2 DEF ViewsAgree
<1>4. QED
  BY <1>3, SpecIInv, PTL

--------------------------------------------------------------------------------
(* The refinement. *)

\* The tables as DecisionLedger sees them.
SeenSession(row) == IF row = NoRow THEN NoRow ELSE row.state

SeenDecision(row) ==
  IF row = NoRow THEN NoRow
  ELSE [merchant |-> row.merchant, terms |-> row.terms,
        requiresApproval |-> row.requiresApproval, state |-> row.state, expiresAt |-> 0]

seenSessions == [i \in IntentReqs |-> SeenSession(sessions[i])]
seenAudits == [i \in IntentReqs |-> DOMAIN audits[i]]
seenDecisions == [i \in IntentReqs |-> SeenDecision(decisions[i])]

\* A new decision is one the ledger may publish.
LEMMA NewDecisionLegal ==
  ASSUME ChanceIsInteger, TermsRow \subseteq Terms,
         NEW deal, IsDeal(deal), Computable(deal), NEW msg, IsMessage(msg),
         NEW row, row = NewDecision(msg, RunPipeline(deal)), row # NoRow
  PROVE  /\ LegalRow(SeenDecision(row))
         /\ SeenDecision(row) # NoRow
         /\ SeenDecision(row).state = NewState(RunPipeline(deal))
<1> DEFINE run == RunPipeline(deal)
           escalated == run.action = "ESCALATE"
           seen == SeenDecision(row)
<1>1. /\ run.selected = 0 <=> run.action = "REJECT"
      /\ run.selected = 0 <=> FrozenTerms(run) = NoTerms
      /\ FrozenTerms(run) \in Terms \union {NoTerms}
  BY RunTyped
<1>2. seen = [merchant |-> msg.merchant, terms |-> FrozenTerms(run),
              requiresApproval |-> escalated, state |-> NewState(run), expiresAt |-> 0]
  BY DEF SeenDecision, NewDecision
<1>3. /\ escalated \in BOOLEAN
      /\ escalated => run.selected # 0
      /\ NewState(run) = IF escalated THEN "PENDING_APPROVAL"
                         ELSE IF run.selected = 0 THEN "CLOSED_REJECTED"
                         ELSE "AWAITING_BUYER_RESPONSE"
  BY <1>1 DEF NewState
<1>4. msg.merchant \in Merchants
  BY DEF IsMessage
<1> HIDE DEF run, escalated, seen
<1>5. seen \in DecisionRow
  BY <1>1, <1>2, <1>3, <1>4 DEF DecisionRow, NegotiationState
<1>6. /\ seen.terms = FrozenTerms(run) /\ seen.state = NewState(run)
      /\ seen.requiresApproval = escalated
  BY <1>2
<1>7. LegalRow(seen)
  BY <1>1, <1>3, <1>5, <1>6 DEF LegalRow
<1>8. QED
  BY <1>5, <1>6, <1>7, RowAssumption DEF seen, run

\* A message that goes through is a decision the ledger publishes.
LEMMA PublishedRefines ==
  ASSUME ChanceIsInteger, TermsRow \subseteq Terms, IInv, IInv',
         NEW i \in IntentReqs, NEW reply, IntentPublished(i, reply)
  PROVE  Table!Publish(i)
<1> DEFINE run == RunOn(i)'
<1>1. /\ decisions[i] = NoRow
      /\ IsMessage(inbox[i])
      /\ UNCHANGED <<inbox, authorizations>>
  BY WaitingUnwritten DEF IntentPublished, Replied, Unwritten
<1>2. /\ Written(i)'
      /\ decisions'[i] = NewDecision(inbox[i], run)
      /\ \A j \in IntentReqs \ {i} : /\ decisions'[j] = decisions[j]
                                     /\ sessions'[j] = sessions[j]
                                     /\ audits'[j] = audits[j]
  BY PublishedRows DEF IntentPublished, IInv, Tabular
<1>3. /\ decisions'[i] # NoRow
      /\ sessions'[i] # NoRow
      /\ sessions'[i] = SessionRow(inbox[i], NewState(run))
      /\ audits'[i] = AuditTrail(inbox[i], AdviceOn(i)', run)
      /\ run = RunPipeline(DealOn(i)')
      /\ Known(inbox[i]) /\ ~Raises(inbox[i], replies'[i])
      /\ DealOn(i)' = Deal(inbox[i], Advice(inbox[i], replies'[i]).expedited)
  <2>1. RowsOf(inbox[i], replies'[i], sessions'[i], intents'[i], offers'[i],
               decisions'[i], audits'[i], answers'[i])
    BY <1>1, <1>2 DEF Written
  <2>2. decisions'[i] # NoRow /\ sessions'[i] # NoRow
    BY <2>1, RowsTyped
  <2>3. QED
    BY <1>1, <2>1, <2>2 DEF RowsOf, RunOn, DealOn, AdviceOn
<1>4. IsDeal(DealOn(i)') /\ Computable(DealOn(i)')
  BY <1>1, <1>3, DealTyped DEF Raises
<1>5. /\ LegalRow(SeenDecision(decisions'[i]))
      /\ SeenDecision(decisions'[i]) # NoRow
      /\ SeenDecision(decisions'[i]).state = NewState(run)
  BY <1>1, <1>2, <1>3, <1>4, NewDecisionLegal
<1>6. SeenSession(sessions'[i]) = NewState(run)
  BY <1>3 DEF SeenSession, SessionRow
<1>7. DOMAIN audits'[i] = Stages
  BY <1>3 DEF AuditTrail, Stages
<1> HIDE DEF run
<1>8. /\ seenDecisions[i] = NoRow
      /\ seenDecisions'[i] = SeenDecision(decisions'[i])
  BY <1>1 DEF seenDecisions, SeenDecision
<1>9. seenDecisions' = [seenDecisions EXCEPT ![i] = seenDecisions'[i]]
  BY <1>2 DEF seenDecisions
<1>10. seenSessions' = [seenSessions EXCEPT ![i] = seenDecisions'[i].state]
  BY <1>2, <1>5, <1>6, <1>8 DEF seenSessions
<1>11. seenAudits' = [seenAudits EXCEPT ![i] = Stages]
  BY <1>2, <1>7 DEF seenAudits
<1>12. Table!Publish(i) <=>
         /\ seenDecisions[i] = NoRow
         /\ seenDecisions'[i] # NoRow
         /\ seenDecisions' = [seenDecisions EXCEPT ![i] = seenDecisions'[i]]
         /\ Table!LegalRow(seenDecisions'[i])
         /\ seenSessions' = [seenSessions EXCEPT ![i] = seenDecisions'[i].state]
         /\ seenAudits' = [seenAudits EXCEPT ![i] = Stages]
         /\ UNCHANGED authorizations
  BY Zenon DEF Table!Publish, seenDecisions, seenSessions, seenAudits, SeenDecision,
         SeenSession
<1>13. Table!LegalRow(seenDecisions'[i])
  BY <1>5, <1>8 DEF LegalRow, DecisionRow, NegotiationState, Table!LegalRow,
         Table!DecisionRow, Table!NegotiationState
<1>14. QED
  BY <1>1, <1>5, <1>8, <1>9, <1>10, <1>11, <1>12, <1>13

\* A ruling is one the ledger admits: of an escalated decision, in its owner's name.
LEMMA RuledRefines ==
  ASSUME ChanceIsInteger, TermsRow \subseteq Terms, IInv, IInv', NEW a \in ApprovalReqs,
         NEW m, NEW d \in IntentReqs, NEW verdict \in Verdict, Rule(a, m, d, verdict)
  PROVE  Table!Rule(a, d, verdict)
<1> DEFINE entry == [decision |-> d, merchant |-> m, previous |-> "PENDING_APPROVAL",
                     new |-> verdict, at |-> 0]
<1>1. /\ decisions[d] # NoRow
      /\ decisions[d].merchant = m
      /\ decisions[d].state = "PENDING_APPROVAL"
      /\ \A j \in IntentReqs : j # d => decisions'[j] = decisions[j]
  BY RuledRow
<1>2. /\ authorizations[a] = NoRow
      /\ authorizations' = [authorizations EXCEPT ![a] = entry]
      /\ UNCHANGED <<sessions, audits>>
  BY <1>1 DEF Rule
<1>3. decisions[d] \in DeskRow /\ Written(d)
  BY <1>1, DecisionTyped
<1>4. decisions[d].requiresApproval
  <2>1. decisions[d].action = "ESCALATE"
    BY <1>1 DEF IInv, AuthorizationInv
  <2>2. d \in Published
    BY <1>1 DEF Published
  <2>3. QED
    BY <2>1, <2>2, PublishedRun
<1>5. /\ decisions'[d] = [decisions[d] EXCEPT !.state = ClosedBy(verdict)]
      /\ decisions'[d] # NoRow
  <2>1. decisions'[d] = [decisions[d] EXCEPT !.state = ClosedBy(verdict)]
    BY DEF Rule, IInv, Tabular
  <2>2. Written(d)'
    BY RuledRow
  <2>3. QED
    BY <2>1, <2>2, RowsTyped DEF Written
<1>6. /\ SeenDecision(decisions[d])
           = [merchant |-> m, terms |-> decisions[d].terms,
              requiresApproval |-> decisions[d].requiresApproval,
              state |-> "PENDING_APPROVAL", expiresAt |-> 0]
      /\ SeenDecision(decisions'[d])
           = [merchant |-> m, terms |-> decisions[d].terms,
              requiresApproval |-> decisions[d].requiresApproval,
              state |-> ClosedBy(verdict), expiresAt |-> 0]
  BY <1>1, <1>3, <1>5 DEF SeenDecision, DeskRow
<1>7. /\ SeenDecision(decisions[d]) # NoRow
      /\ SeenDecision(decisions[d]).merchant = m
      /\ SeenDecision(decisions[d]).requiresApproval
      /\ SeenDecision(decisions'[d])
           = [SeenDecision(decisions[d]) EXCEPT !.state = ClosedBy(verdict)]
  <2>1. SeenDecision(decisions[d]) \in DecisionRow
    BY <1>1, <1>3, <1>6 DEF DeskRow, DecisionRow, NegotiationState
  <2>2. SeenDecision(decisions[d]) # NoRow
    BY <2>1, RowAssumption
  <2>3. /\ SeenDecision(decisions[d]).merchant = m
        /\ SeenDecision(decisions[d]).requiresApproval = decisions[d].requiresApproval
    BY <1>6
  <2>4. SeenDecision(decisions'[d])
          = [SeenDecision(decisions[d]) EXCEPT !.state = ClosedBy(verdict)]
    BY <1>6
  <2>5. QED
    BY <1>4, <2>2, <2>3, <2>4
<1>8. /\ seenDecisions[d] = SeenDecision(decisions[d])
      /\ seenDecisions' = [seenDecisions EXCEPT ![d].state = ClosedBy(verdict)]
  BY <1>1, <1>7 DEF seenDecisions
<1>9. UNCHANGED <<seenSessions, seenAudits>>
  BY <1>2 DEF seenSessions, seenAudits
<1>10. Table!Rule(a, d, verdict) <=>
         /\ seenDecisions[d] # NoRow
         /\ seenDecisions[d].requiresApproval
         /\ authorizations[a] = NoRow
         /\ seenDecisions' = [seenDecisions EXCEPT ![d].state = ClosedBy(verdict)]
         /\ authorizations' =
              [authorizations EXCEPT ![a] =
                 [decision |-> d, merchant |-> seenDecisions[d].merchant,
                  previous |-> "PENDING_APPROVAL", new |-> verdict, at |-> 0]]
         /\ UNCHANGED <<seenSessions, seenAudits>>
  BY Zenon DEF Table!Rule, Table!ClosedBy, ClosedBy, seenDecisions, seenSessions,
         seenAudits, SeenDecision, SeenSession
<1>11. QED
  BY <1>2, <1>7, <1>8, <1>9, <1>10

\* The desk's contents are those of decisions the ledger allows.
THEOREM DeskImplementsLedger ==
  ASSUME ChanceIsInteger, TermsRow \subseteq Terms
  PROVE  Spec => TablesImplementLedger
<1>1. Init => Table!LedgerInit
  BY DEF Init, Table!LedgerInit
<1>2. ASSUME IInv, IInv', [Next]_vars
      PROVE  [Table!LedgerNext]_(Table!ledgerVars)
  <2>1. ASSUME NEW i \in IntentReqs, NEW reply, IntentPublished(i, reply)
        PROVE  Table!LedgerNext
    BY <1>2, <2>1, PublishedRefines DEF Table!LedgerNext
  <2>2. ASSUME NEW a \in ApprovalReqs, NEW m, NEW d \in IntentReqs,
               NEW verdict \in Verdict, Rule(a, m, d, verdict)
        PROVE  Table!LedgerNext
    BY <1>2, <2>2, RuledRefines DEF Table!LedgerNext, Table!Verdict, Verdict
  <2>3. CASE UNCHANGED <<sessions, decisions, audits, authorizations>>
    BY <2>3 DEF Table!ledgerVars
  <2>4. ASSUME NEW i \in IntentReqs, NEW reply,
               IntentRefused(i) \/ IntentRaises(i, reply)
        PROVE  UNCHANGED <<sessions, decisions, audits, authorizations>>
    BY <2>4 DEF IntentRefused, IntentRaises, Fail, tables
  <2>5. ASSUME NEW o, NEW m, NEW d, NEW predicted, NEW converted,
               RecordOutcome(o, m, d, predicted, converted)
        PROVE  UNCHANGED <<sessions, decisions, audits, authorizations>>
    BY <2>5 DEF RecordOutcome
  <2>6. CASE Idle \/ UNCHANGED vars
    BY <2>3, <2>6 DEF Idle, vars, tables
  <2>7. QED
    BY <1>2, <2>1, <2>2, <2>3, <2>4, <2>5, <2>6 DEF Next
<1>3. QED
  BY <1>1, <1>2, SpecIInv, PTL DEF Spec, TablesImplementLedger, Table!LedgerSpec

================================================================================
