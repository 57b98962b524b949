--------------------------- MODULE NegotiationProofs ---------------------------
(***************************************************************************)
(* Proofs about Negotiation, for any merchants, requests, terms and time.  *)
(* None of its invariants is inductive by itself: what an open transaction *)
(* will commit, and what an approval request read before it writes, have   *)
(* to be known too.  IInv is the conjunction that is.                      *)
(***************************************************************************)
EXTENDS Negotiation, TLAPS

\* An intent request knows its merchant, and has answered nothing before it answers.
IntentInv ==
  \A i \in IntentReqs :
    /\ intentReq[i].pc # "idle" => intentReq[i].merchant \in Merchants
    /\ intentReq[i].pc # "answered" => intentReq[i].code = 0

\* What the open transaction has written, at each point of handle_buyer_intent.
TxnInv ==
  txn # NoRow =>
    /\ intentReq[txn.by].pc = "proposing" => txn.stages = {"intent"}
    /\ intentReq[txn.by].pc = "deciding" => txn.stages = {"intent", "proposal"}
    /\ intentReq[txn.by].pc = "committing" =>
         /\ txn.stages = Stages
         /\ LegalRow(txn.decision)
         /\ txn.session = txn.decision.state

\* What an approval request read is still so when it writes, except that the decision
\* may meanwhile have been ruled on.
ApprovalInv ==
  \A a \in ApprovalReqs :
    LET req == approvalReq[a]
    IN  /\ req.pc # "answered" => req.code = 0
        /\ req.pc = "writing" =>
             /\ req.merchant \in Merchants
             /\ req.decision \in IntentReqs
             /\ ScopedRow(decisions, req.merchant, req.decision)
             /\ decisions[req.decision].requiresApproval
             /\ req.previous = "PENDING_APPROVAL"

Inv == LockHeldByItsTransaction /\ IntentIsAtomic /\ StateIsOnRecord
         /\ AuthorizationsAreTheOwners

IInv == TypeOK /\ Inv /\ IntentInv /\ TxnInv /\ ApprovalInv

--------------------------------------------------------------------------------
(* The initial states. *)

\* Before the first request nothing is stored and nothing is open.
LEMMA InitIInv == Init => IInv
<1> SUFFICES ASSUME Init PROVE IInv
  OBVIOUS
<1> USE DEF Init
<1>1. TypeOK
  BY DEF TypeOK, IntentState, ApprovalState, Verdict, NegotiationState, Stages
<1>2. Inv
  BY DEF Inv, LockHeldByItsTransaction, IntentIsAtomic, StateIsOnRecord,
         AuthorizationsAreTheOwners, InTransaction
<1>3. IntentInv /\ TxnInv /\ ApprovalInv
  BY DEF IntentInv, TxnInv, ApprovalInv
<1>4. QED
  BY <1>1, <1>2, <1>3 DEF IInv

--------------------------------------------------------------------------------
(* The steps of an intent request. *)

IntentMovedTo(i, pc, m, code) ==
  /\ intentReq' \in [IntentReqs -> IntentState]
  /\ \A k \in IntentReqs \ {i} : intentReq'[k] = intentReq[k]
  /\ intentReq'[i].pc = pc
  /\ intentReq'[i].merchant = m
  /\ intentReq'[i].code = code

IntentPc == {"arrived"} \union InTransaction \union Finished

\* IntentSet replaces the state of one intent request.
LEMMA IntentSetTo ==
  ASSUME TypeOK, NEW i \in IntentReqs, NEW pc \in IntentPc,
         NEW m \in Merchants \union {NoRow}, NEW code \in {0, 200, 500},
         IntentSet(i, pc, m, code)
  PROVE  IntentMovedTo(i, pc, m, code)
BY DEF TypeOK, IntentState, IntentSet, IntentPc, IntentMovedTo

\* An answer moves the request to its end and gives it a code.
LEMMA IntentAnswered ==
  ASSUME TypeOK, NEW i \in IntentReqs, NEW code \in {200, 500}, IntentAnswer(i, code)
  PROVE  IntentMovedTo(i, "answered", intentReq[i].merchant, code)
<1>1. intentReq[i].merchant \in Merchants \union {NoRow}
  BY DEF TypeOK, IntentState
<1>2. QED
  BY <1>1, IntentSetTo DEF IntentAnswer, IntentPc, Finished

\* A step inside the handler moves only its pc.
LEMMA IntentAdvanced ==
  ASSUME TypeOK, NEW i \in IntentReqs, NEW pc \in IntentPc,
         intentReq' = [intentReq EXCEPT ![i].pc = pc]
  PROVE  IntentMovedTo(i, pc, intentReq[i].merchant, intentReq[i].code)
<1>1. intentReq' \in [IntentReqs -> IntentState]
  BY DEF TypeOK, IntentState, IntentPc
<1>2. QED
  BY <1>1 DEF TypeOK, IntentState, IntentPc, IntentMovedTo

\* A new request has stored nothing.
LEMMA ArriveIInv ==
  ASSUME IInv, NEW i \in IntentReqs, NEW m \in Merchants, IntentArrive(i, m)
  PROVE  IInv'
<1> USE DEF IInv, IntentArrive, tables
<1>1. IntentMovedTo(i, "arrived", m, 0)
  BY IntentSetTo DEF IntentPc
<1>2. intentReq[i].pc = "idle" /\ intentReq[i].code = 0
  BY DEF IntentInv
<1> USE DEF IntentMovedTo
<1>3. TypeOK'
  BY <1>1 DEF TypeOK
<1>4. LockHeldByItsTransaction'
  BY <1>1 DEF Inv, LockHeldByItsTransaction, InTransaction
<1>5. IntentIsAtomic'
  BY <1>1, <1>2 DEF Inv, IntentIsAtomic
<1>6. StateIsOnRecord' /\ AuthorizationsAreTheOwners'
  BY DEF Inv, StateIsOnRecord, AuthorizationsAreTheOwners
<1>7. IntentInv'
  BY <1>1 DEF IntentInv
<1>8. ApprovalInv'
  BY DEF ApprovalInv, ScopedRow
<1>9. TxnInv'
  BY <1>1 DEF TxnInv, TypeOK, Transaction
<1>10. QED
  BY <1>3, <1>4, <1>5, <1>6, <1>7, <1>8, <1>9 DEF Inv

\* The first INSERT takes a lock that is free.
LEMMA OpenIInv ==
  ASSUME IInv, NEW i \in IntentReqs, IntentOpen(i)
  PROVE  IInv'
<1> USE DEF IInv, IntentOpen, LockFree, tables
<1>0. txn' \in Transaction /\ txn' # NoRow
  BY NegotiationAssumption DEF Transaction, NegotiationState, Stages
<1>1. TypeOK'
  BY <1>0 DEF TypeOK, IntentState, InTransaction
<1>2. LockHeldByItsTransaction'
  BY <1>0 DEF Inv, LockHeldByItsTransaction, InTransaction, TypeOK, IntentState
<1>3. IntentIsAtomic' /\ StateIsOnRecord' /\ AuthorizationsAreTheOwners'
  BY DEF Inv, IntentIsAtomic, StateIsOnRecord, AuthorizationsAreTheOwners, TypeOK,
         IntentState
<1>4. IntentInv' /\ TxnInv' /\ ApprovalInv'
  BY DEF IntentInv, TxnInv, ApprovalInv, TypeOK, IntentState, ScopedRow
<1>5. QED
  BY <1>1, <1>2, <1>3, <1>4 DEF Inv

\* A refusal, a busy lock or a failure leaves the tables as they were, and the lock free if
\* the request had it.
LEMMA AnswerIInv ==
  ASSUME IInv, NEW i \in IntentReqs, IntentRefuse(i) \/ IntentBusy(i) \/ IntentFail(i)
  PROVE  IInv'
<1> USE DEF IInv, tables
<1>1. /\ intentReq[i].pc \in {"arrived", "proposing", "deciding"}
      /\ IntentAnswer(i, 500)
      /\ UNCHANGED <<now, sessions, decisions, audits, authorizations, approvalReq>>
      /\ txn' = IF intentReq[i].pc = "arrived" THEN txn ELSE NoRow
  BY DEF IntentRefuse, IntentBusy, IntentFail
<1>2. IntentMovedTo(i, "answered", intentReq[i].merchant, 500)
  BY <1>1, IntentAnswered
<1> USE DEF IntentMovedTo
<1>3. TypeOK'
  BY <1>1, <1>2 DEF TypeOK
<1>4. intentReq[i].pc \in InTransaction <=> intentReq[i].pc # "arrived"
  BY <1>1 DEF InTransaction
<1>5. LockHeldByItsTransaction'
  BY <1>1, <1>2, <1>4 DEF Inv, LockHeldByItsTransaction, InTransaction
<1>6. IntentIsAtomic'
  BY <1>1, <1>2 DEF Inv, IntentIsAtomic, IntentInv
<1>7. StateIsOnRecord' /\ AuthorizationsAreTheOwners'
  BY <1>1 DEF Inv, StateIsOnRecord, AuthorizationsAreTheOwners
<1>8. IntentInv' /\ ApprovalInv'
  BY <1>1, <1>2 DEF IntentInv, ApprovalInv, ScopedRow
<1>9. TxnInv'
  BY <1>1, <1>2 DEF TxnInv, TypeOK, Transaction
<1>10. QED
  BY <1>3, <1>5, <1>6, <1>7, <1>8, <1>9 DEF Inv

\* A request inside its transaction owns it.
LEMMA Owner ==
  ASSUME IInv, NEW i \in IntentReqs, intentReq[i].pc \in InTransaction
  PROVE  txn \in Transaction /\ txn # NoRow /\ txn.by = i
BY DEF IInv, Inv, TypeOK, LockHeldByItsTransaction

\* The label of the LLM changes nothing but the trail.
LEMMA ProposeIInv ==
  ASSUME IInv, NEW i \in IntentReqs, IntentPropose(i)
  PROVE  IInv'
<1> USE DEF IInv, IntentPropose, tables
<1>1. txn \in Transaction /\ txn # NoRow /\ txn.by = i
  BY Owner DEF InTransaction
<1>2. txn' \in Transaction /\ txn' # NoRow /\ txn'.by = i
  BY <1>1, NegotiationAssumption DEF Transaction, Stages
<1>3. TypeOK'
  BY <1>2 DEF TypeOK, IntentState, InTransaction
<1>4. LockHeldByItsTransaction'
  BY <1>1, <1>2 DEF Inv, LockHeldByItsTransaction, InTransaction, TypeOK, IntentState
<1>5. IntentIsAtomic' /\ StateIsOnRecord' /\ AuthorizationsAreTheOwners'
  BY DEF Inv, IntentIsAtomic, StateIsOnRecord, AuthorizationsAreTheOwners, TypeOK,
         IntentState
<1>6. IntentInv' /\ ApprovalInv'
  BY DEF IntentInv, ApprovalInv, TypeOK, IntentState, ScopedRow
<1>7. TxnInv'
  BY <1>1, <1>2 DEF TxnInv, TypeOK, IntentState, Transaction
<1>8. QED
  BY <1>3, <1>4, <1>5, <1>6, <1>7 DEF Inv

\* What the open transaction now holds is a legal decision with the full trail.
LEMMA DecideIInv ==
  ASSUME IInv, NEW i \in IntentReqs, NEW outcome \in Outcome, IntentDecide(i, outcome)
  PROVE  IInv'
<1> USE DEF IInv, IntentDecide, tables
<1>1. txn \in Transaction /\ txn # NoRow /\ txn.by = i /\ txn.stages = {"intent", "proposal"}
  BY Owner DEF InTransaction, TxnInv
<1>2. /\ LegalRow(NewDecision(i, outcome))
      /\ NewDecision(i, outcome).state = NewState(outcome)
      /\ NewState(outcome) \in NegotiationState
  <2>1. intentReq[i].merchant \in Merchants
    BY DEF IntentInv
  <2>2. now + OfferTtl \in Nat
    BY NegotiationAssumption DEF TypeOK
  <2>3. /\ outcome.terms \in Terms \union {NoTerms}
        /\ outcome.terms = NoTerms <=> outcome.action = "REJECT"
        /\ outcome.action \in {"REJECT", "ESCALATE", "ACCEPT", "COUNTER"}
    BY RowAssumption DEF Outcome
  <2>4. NewState(outcome) \in NegotiationState
    BY DEF NewState, NegotiationState
  <2>5. NewDecision(i, outcome) \in DecisionRow
    BY <2>1, <2>2, <2>3, <2>4 DEF NewDecision, DecisionRow
  <2>6. QED
    BY <2>3, <2>4, <2>5 DEF LegalRow, NewDecision, NewState
<1>3. /\ txn' \in Transaction /\ txn' # NoRow /\ txn'.by = i
      /\ txn'.stages = Stages
      /\ txn'.decision = NewDecision(i, outcome)
      /\ txn'.session = NewState(outcome)
  <2>1. {"intent", "proposal"} \union PipelineStages = Stages
    BY DEF Stages
  <2>2. /\ txn'.by = i
        /\ txn'.stages = Stages
        /\ txn'.decision = NewDecision(i, outcome)
        /\ txn'.session = NewState(outcome)
    BY <1>1, <2>1 DEF Transaction
  <2>3. txn' \in Transaction
    BY <1>1, <1>2, <2>1 DEF Transaction, LegalRow
  <2>4. QED
    BY <2>2, <2>3, NegotiationAssumption
<1>4. IntentMovedTo(i, "committing", intentReq[i].merchant, intentReq[i].code)
  BY IntentAdvanced DEF IntentPc, InTransaction
<1> USE DEF IntentMovedTo
<1>5. TypeOK'
  BY <1>3, <1>4 DEF TypeOK
<1>6. LockHeldByItsTransaction'
  BY <1>1, <1>3, <1>4 DEF Inv, LockHeldByItsTransaction, InTransaction
<1>7. IntentIsAtomic' /\ StateIsOnRecord' /\ AuthorizationsAreTheOwners'
  BY <1>4 DEF Inv, IntentIsAtomic, StateIsOnRecord, AuthorizationsAreTheOwners
<1>8. IntentInv' /\ ApprovalInv'
  BY <1>4 DEF IntentInv, ApprovalInv, ScopedRow
<1>9. TxnInv'
  BY <1>2, <1>3, <1>4 DEF TxnInv
<1>10. QED
  BY <1>5, <1>6, <1>7, <1>8, <1>9 DEF Inv

\* The commit publishes what the transaction holds, where there was nothing.
LEMMA CommitIInv ==
  ASSUME IInv, NEW i \in IntentReqs, IntentCommit(i)
  PROVE  IInv'
<1> USE DEF IInv, IntentCommit
<1>1. /\ txn \in Transaction /\ txn # NoRow /\ txn.by = i
      /\ txn.stages = Stages /\ txn.session = txn.decision.state
      /\ LegalRow(txn.decision)
  BY Owner DEF InTransaction, TxnInv
<1>2. /\ txn.decision \in DecisionRow
      /\ txn.decision # NoRow
      /\ txn.session # NoRow
      /\ txn.session # "OPEN"
  BY <1>1, RowAssumption DEF LegalRow, Transaction
<1>3. IntentMovedTo(i, "answered", intentReq[i].merchant, 200)
  BY IntentAnswered
<1> USE DEF IntentMovedTo
<1>4. sessions[i] = NoRow /\ decisions[i] = NoRow
  BY DEF IntentInv, Inv, IntentIsAtomic
<1>5. /\ \A k \in IntentReqs \ {i} : /\ sessions'[k] = sessions[k]
                                    /\ decisions'[k] = decisions[k]
                                    /\ audits'[k] = audits[k]
      /\ sessions'[i] = txn.session
      /\ decisions'[i] = txn.decision
      /\ audits'[i] = txn.stages
  BY DEF TypeOK
<1>6. TypeOK'
  BY <1>1, <1>2, <1>3 DEF TypeOK, Transaction
<1>7. LockHeldByItsTransaction'
  BY <1>1, <1>3 DEF Inv, LockHeldByItsTransaction, InTransaction
<1>8. IntentIsAtomic'
  BY <1>1, <1>2, <1>3, <1>5 DEF Inv, IntentIsAtomic
<1>9. AuthorizationsAreTheOwners'
  <2>1. \A a \in ApprovalReqs : authorizations[a] # NoRow => authorizations[a].decision # i
    BY <1>4 DEF Inv, AuthorizationsAreTheOwners
  <2>2. \A a \in ApprovalReqs :
          authorizations[a] # NoRow => authorizations[a].decision \in IntentReqs
    BY DEF TypeOK, AuthorizationRow
  <2>3. QED
    BY <1>5, <2>1, <2>2 DEF Inv, AuthorizationsAreTheOwners
<1>10. StateIsOnRecord'
  <2>1. \A a \in ApprovalReqs : authorizations[a] # NoRow => authorizations[a].decision # i
    BY <1>4 DEF Inv, AuthorizationsAreTheOwners
  <2>2. QED
    BY <1>1, <1>2, <1>5, <2>1 DEF Inv, StateIsOnRecord, LegalRow
<1>11. IntentInv' /\ TxnInv'
  BY <1>3 DEF IntentInv, TxnInv
<1>12. ApprovalInv'
  BY <1>4, <1>5 DEF ApprovalInv, ScopedRow
<1>13. QED
  BY <1>6, <1>7, <1>8, <1>9, <1>10, <1>11, <1>12 DEF Inv

--------------------------------------------------------------------------------
(* The steps of an approval request. *)

ApprovalMovedTo(a, req) ==
  /\ approvalReq' \in [ApprovalReqs -> ApprovalState]
  /\ \A b \in ApprovalReqs \ {a} : approvalReq'[b] = approvalReq[b]
  /\ approvalReq'[a] = req

\* A whole record replaces the state of one approval request.
LEMMA ApprovalSetTo ==
  ASSUME TypeOK, NEW a \in ApprovalReqs, NEW req \in ApprovalState,
         approvalReq' = [approvalReq EXCEPT ![a] = req]
  PROVE  ApprovalMovedTo(a, req)
BY DEF TypeOK, ApprovalMovedTo

\* An answer moves the approval request to its end and gives it a code.
LEMMA ApprovalAnswered ==
  ASSUME TypeOK, NEW a \in ApprovalReqs, NEW code \in {200, 500}, ApprovalAnswer(a, code)
  PROVE  /\ ApprovalMovedTo(a, approvalReq'[a])
         /\ approvalReq'[a].pc = "answered"
         /\ approvalReq'[a].code = code
<1>1. approvalReq[a] \in ApprovalState
  BY DEF TypeOK
<1> DEFINE req == [pc |-> "answered", merchant |-> approvalReq[a].merchant,
                   decision |-> approvalReq[a].decision,
                   verdict |-> approvalReq[a].verdict,
                   previous |-> approvalReq[a].previous, code |-> code]
<1>2. req \in ApprovalState
  BY <1>1 DEF ApprovalState, Finished
<1>3. approvalReq' = [approvalReq EXCEPT ![a] = req]
  BY DEF ApprovalAnswer, ApprovalSet
<1>4. req.pc = "answered" /\ req.code = code
  OBVIOUS
<1> HIDE DEF req
<1>5. ApprovalMovedTo(a, req)
  BY <1>2, <1>3, ApprovalSetTo
<1>6. QED
  BY <1>4, <1>5 DEF ApprovalMovedTo

\* Without a write to the tables, only what AuthorizationsAreTheOwners and ApprovalInv
\* say of the request itself is at stake.
LEMMA ApprovalFrame ==
  ASSUME IInv, NEW a \in ApprovalReqs, ApprovalMovedTo(a, approvalReq'[a]),
         UNCHANGED <<now, sessions, decisions, audits, authorizations, txn, intentReq>>,
         approvalReq'[a].code # 200, approvalReq[a].code # 200,
         approvalReq'[a].pc = "answered" \/ approvalReq'[a].pc = "writing",
         approvalReq'[a].pc = "writing" =>
           /\ approvalReq'[a].code = 0
           /\ approvalReq'[a].merchant \in Merchants
           /\ approvalReq'[a].decision \in IntentReqs
           /\ ScopedRow(decisions, approvalReq'[a].merchant, approvalReq'[a].decision)
           /\ decisions[approvalReq'[a].decision].requiresApproval
           /\ approvalReq'[a].previous = "PENDING_APPROVAL"
  PROVE  IInv'
<1> USE DEF IInv, ApprovalMovedTo
<1>1. TypeOK'
  BY DEF TypeOK
<1>2. LockHeldByItsTransaction' /\ IntentIsAtomic' /\ StateIsOnRecord'
  BY DEF Inv, LockHeldByItsTransaction, IntentIsAtomic, StateIsOnRecord
<1>3. AuthorizationsAreTheOwners'
  BY DEF Inv, AuthorizationsAreTheOwners
<1>4. IntentInv' /\ TxnInv'
  BY DEF IntentInv, TxnInv
<1>5. ApprovalInv'
  BY DEF ApprovalInv, ScopedRow
<1>6. QED
  BY <1>1, <1>2, <1>3, <1>4, <1>5 DEF Inv

\* The checks of an approval: nothing is written, and what was read is remembered.
LEMMA ApprovalArriveIInv ==
  ASSUME IInv, NEW a \in ApprovalReqs, ApprovalArrive(a)
  PROVE  IInv'
<1>1. PICK m \in Merchants, d \in IntentReqs, verdict \in Verdict :
        \/ ApprovalUnknown(a, m, d, verdict)
        \/ ApprovalConflict(a, m, d, verdict)
        \/ ApprovalCheck(a, m, d, verdict)
  BY DEF ApprovalArrive
<1>2. approvalReq[a].code # 200 /\ TypeOK
  BY <1>1 DEF IInv, ApprovalInv, ApprovalUnknown, ApprovalConflict, ApprovalCheck
<1>3. decisions[d] # NoRow => decisions[d] \in DecisionRow
  BY <1>2 DEF TypeOK
<1>4. CASE ApprovalUnknown(a, m, d, verdict)
  <2>1. "OPEN" \in NegotiationState
    BY DEF NegotiationState
  <2> DEFINE req == [pc |-> "answered", merchant |-> m, decision |-> d,
                     verdict |-> verdict, previous |-> "OPEN", code |-> 404]
  <2>2. ApprovalMovedTo(a, req)
    <3>1. req \in ApprovalState
      BY <2>1 DEF ApprovalState, Finished
    <3>2. approvalReq' = [approvalReq EXCEPT ![a] = req]
      BY <1>4 DEF ApprovalUnknown, ApprovalSet
    <3> HIDE DEF req
    <3>3. QED
      BY <1>2, <3>1, <3>2, ApprovalSetTo
  <2>3. QED
    BY <1>2, <1>4, <2>2, ApprovalFrame DEF ApprovalUnknown, ApprovalMovedTo, tables
<1>5. CASE ApprovalConflict(a, m, d, verdict)
  <2>1. decisions[d].state \in NegotiationState
    BY <1>3, <1>5 DEF ApprovalConflict, Visible, ScopedRow, DecisionRow
  <2> DEFINE req == [pc |-> "answered", merchant |-> m, decision |-> d,
                     verdict |-> verdict, previous |-> decisions[d].state, code |-> 409]
  <2>2. ApprovalMovedTo(a, req)
    <3>1. req \in ApprovalState
      BY <2>1 DEF ApprovalState, Finished
    <3>2. approvalReq' = [approvalReq EXCEPT ![a] = req]
      BY <1>5 DEF ApprovalConflict, ApprovalSet
    <3> HIDE DEF req
    <3>3. QED
      BY <1>2, <3>1, <3>2, ApprovalSetTo
  <2>3. QED
    BY <1>2, <1>5, <2>2, ApprovalFrame DEF ApprovalConflict, ApprovalMovedTo, tables
<1>6. CASE ApprovalCheck(a, m, d, verdict)
  <2>1. decisions[d].state = "PENDING_APPROVAL"
    BY <1>6 DEF ApprovalCheck, AllowedTransitions, Verdict
  <2>2. decisions[d].requiresApproval
    BY <1>6, <2>1 DEF IInv, Inv, StateIsOnRecord, ApprovalCheck, Visible, ScopedRow
  <2>3. "PENDING_APPROVAL" \in NegotiationState
    BY DEF NegotiationState
  <2> DEFINE req == [pc |-> "writing", merchant |-> m, decision |-> d,
                     verdict |-> verdict, previous |-> "PENDING_APPROVAL", code |-> 0]
  <2>4. ApprovalMovedTo(a, req)
    <3>1. req \in ApprovalState
      BY <2>3 DEF ApprovalState, Finished
    <3>2. approvalReq' = [approvalReq EXCEPT ![a] = req]
      BY <1>6, <2>1 DEF ApprovalCheck, ApprovalSet
    <3> HIDE DEF req
    <3>3. QED
      BY <1>2, <3>1, <3>2, ApprovalSetTo
  <2>5. QED
    BY <1>2, <1>6, <2>2, <2>4, ApprovalFrame
       DEF ApprovalCheck, Visible, ApprovalMovedTo, tables
<1>7. QED
  BY <1>1, <1>4, <1>5, <1>6

\* An approval that does not get the lock writes nothing.
LEMMA ApprovalBusyIInv ==
  ASSUME IInv, NEW a \in ApprovalReqs, ApprovalBusy(a)
  PROVE  IInv'
<1>1. approvalReq[a].code # 200 /\ TypeOK
  BY DEF IInv, ApprovalInv, ApprovalBusy
<1>2. QED
  BY <1>1, ApprovalAnswered, ApprovalFrame DEF ApprovalBusy, tables

\* A ruling moves one escalated decision and records itself, even if another ruling came
\* first.
LEMMA ApprovalWriteIInv ==
  ASSUME IInv, NEW a \in ApprovalReqs, ApprovalWrite(a)
  PROVE  IInv'
<1> USE DEF IInv
<1> DEFINE d == approvalReq[a].decision
           verdict == approvalReq[a].verdict
           auth == [decision |-> d, merchant |-> approvalReq[a].merchant,
                    previous |-> approvalReq[a].previous, new |-> verdict, at |-> now]
           row == [decisions[d] EXCEPT !.state = ClosedBy(verdict)]
<1>1. /\ ScopedRow(decisions, approvalReq[a].merchant, d)
      /\ decisions[d].requiresApproval
      /\ approvalReq[a].merchant \in Merchants
      /\ d \in IntentReqs
      /\ approvalReq[a].previous = "PENDING_APPROVAL"
  BY DEF ApprovalWrite, ApprovalInv
<1>2. verdict \in Verdict /\ approvalReq[a] \in ApprovalState
  BY DEF TypeOK, ApprovalState
<1>3. /\ ClosedBy(verdict) \in {"CLOSED_ACCEPTED", "CLOSED_REJECTED"}
      /\ ClosedBy(verdict) \in NegotiationState
  BY <1>2 DEF ClosedBy, Verdict, NegotiationState
<1>4. decisions[d] \in DecisionRow /\ decisions[d] # NoRow
  BY <1>1 DEF TypeOK, ScopedRow
<1>5. /\ row \in DecisionRow /\ row # NoRow
      /\ row.merchant = decisions[d].merchant
      /\ row.terms = decisions[d].terms
      /\ row.requiresApproval
      /\ row.state = ClosedBy(verdict)
  BY <1>1, <1>3, <1>4, RowAssumption DEF DecisionRow
<1>6. auth \in AuthorizationRow /\ auth # NoRow
  BY <1>1, <1>2, NegotiationAssumption
     DEF AuthorizationRow, TypeOK, NegotiationState
<1>7. /\ auth.decision = d
      /\ auth.merchant = approvalReq[a].merchant
      /\ auth.previous = "PENDING_APPROVAL"
      /\ auth.new = verdict
  BY <1>1
<1>8. /\ decisions' = [decisions EXCEPT ![d] = row]
      /\ authorizations' = [authorizations EXCEPT ![a] = auth]
      /\ UNCHANGED <<now, sessions, audits, txn, intentReq>>
  BY <1>1 DEF ApprovalWrite
<1>9. /\ ApprovalMovedTo(a, approvalReq'[a])
      /\ approvalReq'[a].pc = "answered"
      /\ approvalReq'[a].code = 200
  BY ApprovalAnswered DEF ApprovalWrite
<1> HIDE DEF row, auth
<1>10. /\ \A e \in IntentReqs \ {d} : decisions'[e] = decisions[e]
       /\ decisions'[d] = row
       /\ \A b \in ApprovalReqs \ {a} : authorizations'[b] = authorizations[b]
       /\ authorizations'[a] = auth
  BY <1>1, <1>8 DEF TypeOK
<1>11. TypeOK'
  BY <1>5, <1>6, <1>8, <1>9 DEF TypeOK, ApprovalMovedTo
<1>12. LockHeldByItsTransaction' /\ IntentIsAtomic'
  BY <1>1, <1>4, <1>5, <1>8, <1>10 DEF Inv, LockHeldByItsTransaction, IntentIsAtomic
<1>13. \A e \in IntentReqs :
         decisions[e] # NoRow =>
           /\ decisions'[e] # NoRow
           /\ decisions'[e].merchant = decisions[e].merchant
           /\ decisions[e].requiresApproval => decisions'[e].requiresApproval
  BY <1>5, <1>10
<1>14. AuthorizationsAreTheOwners'
  <2> SUFFICES ASSUME NEW b \in ApprovalReqs
               PROVE  /\ authorizations'[b] # NoRow =>
                           /\ decisions'[authorizations'[b].decision] # NoRow
                           /\ decisions'[authorizations'[b].decision].requiresApproval
                           /\ decisions'[authorizations'[b].decision].merchant
                                = authorizations'[b].merchant
                           /\ authorizations'[b].previous = "PENDING_APPROVAL"
                      /\ approvalReq'[b].code = 200 <=> authorizations'[b] # NoRow
    BY DEF AuthorizationsAreTheOwners
  <2>1. CASE b = a
    BY <1>1, <1>5, <1>6, <1>7, <1>9, <1>10, <2>1 DEF ScopedRow
  <2>2. CASE b # a
    <3>1. authorizations[b] # NoRow => authorizations[b].decision \in IntentReqs
      BY DEF TypeOK, AuthorizationRow
    <3>2. authorizations'[b] = authorizations[b] /\ approvalReq'[b] = approvalReq[b]
      BY <1>9, <1>10, <2>2 DEF ApprovalMovedTo
    <3>3. QED
      BY <1>13, <3>1, <3>2 DEF Inv, AuthorizationsAreTheOwners
  <2>3. QED
    BY <2>1, <2>2
<1>15. StateIsOnRecord'
  <2>1. \A b \in ApprovalReqs :
          authorizations[b] # NoRow => /\ authorizations'[b] # NoRow
                                       /\ authorizations'[b] = authorizations[b]
    <3>1. authorizations[a] = NoRow
      BY DEF Inv, AuthorizationsAreTheOwners, ApprovalInv, ApprovalWrite
    <3>2. QED
      BY <1>10, <3>1
  <2> SUFFICES ASSUME NEW e \in IntentReqs, decisions'[e] # NoRow
               PROVE  LET new == decisions'[e]
                          Ruled(v) ==
                            \E b \in ApprovalReqs : /\ authorizations'[b] # NoRow
                                                    /\ authorizations'[b].decision = e
                                                    /\ authorizations'[b].new = v
                      IN  /\ new.requiresApproval => new.terms # NoTerms
                          /\ new.state = "PENDING_APPROVAL" <=>
                               new.requiresApproval /\ \A v \in Verdict : ~Ruled(v)
                          /\ new.requiresApproval /\ new.state # "PENDING_APPROVAL" =>
                               \E v \in Verdict : Ruled(v) /\ new.state = ClosedBy(v)
                          /\ ~new.requiresApproval =>
                               new.state = IF new.terms = NoTerms THEN "CLOSED_REJECTED"
                                           ELSE "AWAITING_BUYER_RESPONSE"
    BY DEF StateIsOnRecord
  <2>2. CASE e = d
    <3>1. row.terms # NoTerms
      BY <1>1, <1>4, <1>5 DEF Inv, StateIsOnRecord
    <3>2. QED
      BY <1>2, <1>3, <1>5, <1>6, <1>7, <1>10, <2>2, <3>1
  <2>3. CASE e # d
    <3>1. \A b \in ApprovalReqs, v \in Verdict :
            (/\ authorizations'[b] # NoRow
             /\ authorizations'[b].decision = e
             /\ authorizations'[b].new = v)
            <=> (/\ authorizations[b] # NoRow
                 /\ authorizations[b].decision = e
                 /\ authorizations[b].new = v)
      BY <1>7, <1>10, <2>1, <2>3
    <3>2. decisions'[e] = decisions[e]
      BY <1>10, <2>3
    <3>3. QED
      BY <3>1, <3>2 DEF Inv, StateIsOnRecord
  <2>4. QED
    BY <2>2, <2>3
<1>16. IntentInv' /\ TxnInv'
  BY <1>8 DEF IntentInv, TxnInv
<1>17. ApprovalInv'
  BY <1>9, <1>13 DEF ApprovalInv, ApprovalMovedTo, ScopedRow
<1>18. QED
  BY <1>11, <1>12, <1>14, <1>15, <1>16, <1>17 DEF Inv

--------------------------------------------------------------------------------
(* The process, the clock, and the invariant. *)

\* A process death rolls the open transaction back and answers nobody.
LEMMA CrashIInv ==
  ASSUME IInv, Crash
  PROVE  IInv'
<1> USE DEF IInv, Crash, RequestsLost, tables
<1>1. \A i \in IntentReqs :
        /\ intentReq'[i] \in IntentState
        /\ intentReq'[i].pc \in {"idle", "answered", "lost"}
        /\ intentReq'[i].pc \in {"idle", "answered"} => intentReq'[i] = intentReq[i]
        /\ intentReq'[i].merchant = intentReq[i].merchant
        /\ intentReq'[i].code = intentReq[i].code
        /\ intentReq'[i].pc = "lost" => intentReq[i].pc \notin {"idle", "answered"}
  <2> SUFFICES ASSUME NEW i \in IntentReqs
               PROVE  /\ intentReq'[i] \in IntentState
                      /\ intentReq'[i].pc \in {"idle", "answered", "lost"}
                      /\ intentReq'[i].pc \in {"idle", "answered"} =>
                           intentReq'[i] = intentReq[i]
                      /\ intentReq'[i].merchant = intentReq[i].merchant
                      /\ intentReq'[i].code = intentReq[i].code
                      /\ intentReq'[i].pc = "lost" =>
                           intentReq[i].pc \notin {"idle", "answered"}
    OBVIOUS
  <2>1. intentReq[i] \in IntentState
    BY DEF TypeOK
  <2>2. intentReq'[i] = IF i \in ActiveIntents THEN [intentReq[i] EXCEPT !.pc = "lost"]
                        ELSE intentReq[i]
    OBVIOUS
  <2>3. [intentReq[i] EXCEPT !.pc = "lost"] \in IntentState
    BY <2>1 DEF IntentState, Finished
  <2>4. QED
    BY <2>1, <2>2, <2>3 DEF ActiveIntents, IntentState, Finished, InTransaction
<1>2. \A a \in ApprovalReqs :
        /\ approvalReq'[a] \in ApprovalState
        /\ approvalReq'[a].pc # "writing"
        /\ approvalReq'[a].code = approvalReq[a].code
        /\ approvalReq'[a].pc # "answered" => approvalReq[a].pc # "answered"
  <2> SUFFICES ASSUME NEW a \in ApprovalReqs
               PROVE  /\ approvalReq'[a] \in ApprovalState
                      /\ approvalReq'[a].pc # "writing"
                      /\ approvalReq'[a].code = approvalReq[a].code
                      /\ approvalReq'[a].pc # "answered" => approvalReq[a].pc # "answered"
    OBVIOUS
  <2>1. approvalReq[a] \in ApprovalState
    BY DEF TypeOK
  <2>2. approvalReq'[a] =
          IF a \in ActiveApprovals THEN [approvalReq[a] EXCEPT !.pc = "lost"]
          ELSE approvalReq[a]
    OBVIOUS
  <2>3. [approvalReq[a] EXCEPT !.pc = "lost"] \in ApprovalState
    BY <2>1 DEF ApprovalState, Finished
  <2>4. QED
    BY <2>1, <2>2, <2>3 DEF ActiveApprovals, ApprovalState, Finished
<1>3. TypeOK'
  BY <1>1, <1>2 DEF TypeOK
<1>4. LockHeldByItsTransaction'
  BY <1>1 DEF LockHeldByItsTransaction, InTransaction
<1>5. IntentIsAtomic' /\ StateIsOnRecord'
  BY <1>1 DEF Inv, IntentIsAtomic, StateIsOnRecord
<1>6. AuthorizationsAreTheOwners'
  BY <1>2 DEF Inv, AuthorizationsAreTheOwners
<1>7. IntentInv' /\ TxnInv'
  BY <1>1 DEF IntentInv, TxnInv
<1>8. ApprovalInv'
  BY <1>2 DEF ApprovalInv
<1>9. QED
  BY <1>3, <1>4, <1>5, <1>6, <1>7, <1>8 DEF Inv

\* The clock and stuttering touch nothing the invariant speaks of.
LEMMA IdleIInv ==
  ASSUME IInv, UNCHANGED vars \/ Tick
  PROVE  IInv'
<1>1. now' \in Nat /\ UNCHANGED <<tables, txn, intentReq, approvalReq>>
  BY DEF IInv, TypeOK, Tick, vars, tables
<1>2. TypeOK'
  BY <1>1 DEF IInv, TypeOK, tables
<1>3. Inv'
  BY <1>1 DEF IInv, Inv, tables, LockHeldByItsTransaction, IntentIsAtomic,
              StateIsOnRecord, AuthorizationsAreTheOwners
<1>4. QED
  BY <1>1, <1>2, <1>3 DEF IInv, IntentInv, TxnInv, ApprovalInv, tables, ScopedRow

\* No step breaks the invariant.
LEMMA NextIInv == IInv /\ [Next]_vars => IInv'
<1> SUFFICES ASSUME IInv, [Next]_vars PROVE IInv'
  OBVIOUS
<1>1. ASSUME NEW i \in IntentReqs, NEW m \in Merchants, IntentArrive(i, m)
      PROVE  IInv'
  BY <1>1, ArriveIInv
<1>2. ASSUME NEW i \in IntentReqs, IntentStep(i)
      PROVE  IInv'
  <2>1. CASE IntentRefuse(i) \/ IntentBusy(i) \/ IntentFail(i)
    BY <2>1, AnswerIInv
  <2>2. CASE IntentOpen(i)
    BY <2>2, OpenIInv
  <2>3. CASE IntentPropose(i)
    BY <2>3, ProposeIInv
  <2>4. ASSUME NEW outcome \in Outcome, IntentDecide(i, outcome)
        PROVE  IInv'
    BY <2>4, DecideIInv
  <2>5. CASE IntentCommit(i)
    BY <2>5, CommitIInv
  <2>6. QED
    BY <1>2, <2>1, <2>2, <2>3, <2>4, <2>5 DEF IntentStep
<1>3. ASSUME NEW a \in ApprovalReqs, ApprovalArrive(a)
      PROVE  IInv'
  BY <1>3, ApprovalArriveIInv
<1>4. ASSUME NEW a \in ApprovalReqs, ApprovalStep(a)
      PROVE  IInv'
  BY <1>4, ApprovalWriteIInv, ApprovalBusyIInv DEF ApprovalStep
<1>5. CASE Crash
  BY <1>5, CrashIInv
<1>6. CASE Tick \/ Quiescent \/ UNCHANGED vars
  BY <1>6, IdleIInv DEF Quiescent
<1>7. QED
  BY <1>1, <1>2, <1>3, <1>4, <1>5, <1>6 DEF Next

\* IInv holds in every reachable state.
THEOREM SpecIInv == Spec => []IInv
<1>1. QED
  BY InitIInv, NextIInv, PTL DEF Spec

--------------------------------------------------------------------------------
(* The invariants, for every value of the constants. *)

\* The tables, the open transaction and the handlers hold values of their kind.
THEOREM TypeCorrect == Spec => []TypeOK
<1>1. IInv => TypeOK
  BY DEF IInv
<1>2. QED
  BY <1>1, SpecIInv, PTL

\* SQLite's write lock belongs to exactly the intent request between its first INSERT
\* and its commit.
THEOREM LockIsOwned == Spec => []LockHeldByItsTransaction
<1>1. IInv => LockHeldByItsTransaction
  BY DEF IInv, Inv
<1>2. QED
  BY <1>1, SpecIInv, PTL

\* handle_buyer_intent leaves all of its rows or none.
THEOREM IntentsAreAtomic == Spec => []IntentIsAtomic
<1>1. IInv => IntentIsAtomic
  BY DEF IInv, Inv
<1>2. QED
  BY <1>1, SpecIInv, PTL

\* A decision is in the state its outcome and its authorizations call for.
THEOREM StatesAreOnRecord == Spec => []StateIsOnRecord
<1>1. IInv => StateIsOnRecord
  BY DEF IInv, Inv
<1>2. QED
  BY <1>1, SpecIInv, PTL

\* Only the merchant who owns an escalated decision ever rules on it.
THEOREM OwnersAuthorize == Spec => []AuthorizationsAreTheOwners
<1>1. IInv => AuthorizationsAreTheOwners
  BY DEF IInv, Inv
<1>2. QED
  BY <1>1, SpecIInv, PTL

--------------------------------------------------------------------------------
(* Steps: only a commit and a ruling write the tables. *)

\* A commit is a Publish of the ledger.
LEMMA Published ==
  ASSUME IInv, NEW i \in IntentReqs, IntentCommit(i)
  PROVE  Ledger!Publish(i)
<1> USE DEF IInv, IntentCommit
<1>1. /\ txn \in Transaction /\ txn # NoRow /\ txn.by = i
      /\ txn.stages = Stages /\ txn.session = txn.decision.state
      /\ LegalRow(txn.decision)
  BY Owner DEF InTransaction, TxnInv
<1>2. txn.decision # NoRow
  BY <1>1, RowAssumption DEF LegalRow
<1>3. decisions[i] = NoRow
  BY DEF IntentInv, Inv, IntentIsAtomic
<1>4. decisions'[i] = txn.decision
  BY DEF TypeOK
<1>5. Ledger!LegalRow(decisions'[i])
  BY <1>1, <1>4 DEF LegalRow, DecisionRow, NegotiationState,
                    Ledger!LegalRow, Ledger!DecisionRow, Ledger!NegotiationState
<1>6. QED
  BY <1>1, <1>2, <1>3, <1>4, <1>5 DEF Ledger!Publish

\* A written approval is a Rule of the ledger.
LEMMA Ruled ==
  ASSUME IInv, NEW a \in ApprovalReqs, ApprovalWrite(a)
  PROVE  /\ approvalReq[a].decision \in IntentReqs
         /\ approvalReq[a].verdict \in Verdict
         /\ Ledger!Rule(a, approvalReq[a].decision, approvalReq[a].verdict)
<1> USE DEF IInv, ApprovalWrite
<1>1. /\ ScopedRow(decisions, approvalReq[a].merchant, approvalReq[a].decision)
      /\ decisions[approvalReq[a].decision].requiresApproval
      /\ approvalReq[a].decision \in IntentReqs
      /\ approvalReq[a].previous = "PENDING_APPROVAL"
  BY DEF ApprovalInv
<1>2. approvalReq[a].verdict \in Verdict
  BY DEF TypeOK, ApprovalState
<1>3. authorizations[a] = NoRow
  BY DEF ApprovalInv, Inv, AuthorizationsAreTheOwners
<1>4. QED
  BY <1>1, <1>2, <1>3 DEF Ledger!Rule, ScopedRow, Ledger!ClosedBy, ClosedBy

\* No other step writes a table.
LEMMA OtherStepsKeepTables ==
  ASSUME [Next]_vars,
         \A i \in IntentReqs : ~IntentCommit(i),
         \A a \in ApprovalReqs : ~ApprovalWrite(a)
  PROVE  UNCHANGED tables
<1>1. ASSUME NEW i \in IntentReqs, NEW m \in Merchants, IntentArrive(i, m)
      PROVE  UNCHANGED tables
  BY <1>1 DEF IntentArrive
<1>2. ASSUME NEW i \in IntentReqs, IntentStep(i)
      PROVE  UNCHANGED tables
  BY <1>2 DEF IntentStep, IntentRefuse, IntentOpen, IntentBusy, IntentPropose,
              IntentDecide, IntentFail
<1>3. ASSUME NEW a \in ApprovalReqs, ApprovalArrive(a)
      PROVE  UNCHANGED tables
  BY <1>3 DEF ApprovalArrive, ApprovalUnknown, ApprovalConflict, ApprovalCheck
<1>4. ASSUME NEW a \in ApprovalReqs, ApprovalStep(a)
      PROVE  UNCHANGED tables
  BY <1>4 DEF ApprovalStep, ApprovalBusy
<1>5. CASE Crash \/ Tick \/ Quiescent \/ UNCHANGED vars
  BY <1>5 DEF Crash, RequestsLost, Tick, Quiescent, vars
<1>6. QED
  BY <1>1, <1>2, <1>3, <1>4, <1>5 DEF Next

\* Seen without locks, transactions, failures and half-finished requests, the service
\* publishes whole negotiations and records rulings, and does nothing else.
THEOREM SpecImplementsLedger == Spec => ImplementsLedger
<1>1. Init => Ledger!LedgerInit
  BY DEF Init, Ledger!LedgerInit
<1>2. IInv /\ [Next]_vars => [Ledger!LedgerNext]_(Ledger!ledgerVars)
  <2> SUFFICES ASSUME IInv, [Next]_vars
               PROVE  [Ledger!LedgerNext]_(Ledger!ledgerVars)
    OBVIOUS
  <2>1. ASSUME NEW i \in IntentReqs, IntentCommit(i)
        PROVE  Ledger!LedgerNext
    BY <2>1, Published DEF Ledger!LedgerNext
  <2>2. ASSUME NEW a \in ApprovalReqs, ApprovalWrite(a)
        PROVE  Ledger!LedgerNext
    BY <2>2, Ruled DEF Ledger!LedgerNext, Ledger!Verdict, Verdict
  <2>3. CASE /\ ~ \E i \in IntentReqs : IntentCommit(i)
             /\ ~ \E a \in ApprovalReqs : ApprovalWrite(a)
    BY <2>3, OtherStepsKeepTables DEF tables, Ledger!ledgerVars
  <2>4. QED
    BY <2>1, <2>2, <2>3
<1>3. QED
  BY <1>1, <1>2, SpecIInv, PTL DEF Spec, ImplementsLedger, Ledger!LedgerSpec

\* No step removes a decision or alters its terms, owner or expiry, and none changes
\* its state without the authorization that says so.
THEOREM HistoryKept == Spec => HistoryIsKept
<1> DEFINE Kept(d) ==
      decisions[d] # NoRow /\ decisions'[d] # decisions[d] =>
        /\ decisions'[d] = [decisions[d] EXCEPT !.state = decisions'[d].state]
        /\ \E a \in ApprovalReqs :
             /\ authorizations[a] = NoRow
             /\ authorizations'[a] # NoRow
             /\ authorizations'[a].decision = d
             /\ decisions'[d].state = ClosedBy(authorizations'[a].new)
<1>1. IInv /\ [Next]_vars => [\A d \in IntentReqs : Kept(d)]_vars
  <2> SUFFICES ASSUME IInv, [Next]_vars, NEW d \in IntentReqs PROVE Kept(d)
    OBVIOUS
  <2>1. ASSUME NEW i \in IntentReqs, IntentCommit(i)
        PROVE  Kept(d)
    BY <2>1, Published DEF Ledger!Publish, IInv, TypeOK
  <2>2. ASSUME NEW a \in ApprovalReqs, ApprovalWrite(a)
        PROVE  Kept(d)
    <3>1. /\ authorizations[a] = NoRow
          /\ approvalReq[a].decision \in IntentReqs
      BY <2>2, Ruled DEF Ledger!Rule
    <3>2. CASE d = approvalReq[a].decision
      <4>1. authorizations'[a] # NoRow
        BY <2>2, NextIInv, ApprovalAnswered DEF IInv, Inv, AuthorizationsAreTheOwners, ApprovalWrite
      <4>2. /\ authorizations'[a].decision = d
            /\ authorizations'[a].new = approvalReq[a].verdict
        BY <2>2, <3>2 DEF ApprovalWrite, IInv, TypeOK
      <4>3. /\ decisions'[d] = [decisions[d] EXCEPT !.state = ClosedBy(approvalReq[a].verdict)]
            /\ decisions[d] # NoRow
        BY <2>2, <3>1, <3>2, Ruled DEF ApprovalWrite, IInv, TypeOK, Ledger!Rule
      <4>4. decisions[d] \in DecisionRow
        BY <4>3 DEF IInv, TypeOK
      <4>5. decisions'[d].state = ClosedBy(approvalReq[a].verdict)
        BY <4>3, <4>4 DEF DecisionRow
      <4>6. QED
        BY <3>1, <4>1, <4>2, <4>3, <4>5
    <3>3. CASE d # approvalReq[a].decision
      BY <2>2, <3>1, <3>3 DEF ApprovalWrite, IInv, TypeOK
    <3>4. QED
      BY <3>2, <3>3
  <2>3. CASE /\ ~ \E i \in IntentReqs : IntentCommit(i)
             /\ ~ \E a \in ApprovalReqs : ApprovalWrite(a)
    BY <2>3, OtherStepsKeepTables DEF tables
  <2>4. QED
    BY <2>1, <2>2, <2>3
<1>2. QED
  BY <1>1, SpecIInv, PTL DEF Spec, HistoryIsKept

================================================================================
