------------------------------ MODULE Negotiation ------------------------------
(***************************************************************************)
(* Buyer intents and merchant approvals over one SQLite file.              *)
(*                                                                         *)
(* Every HTTP request is a thread of the ThreadingHTTPServer with its own  *)
(* connection.  A connection opens a transaction, and takes the database   *)
(* write lock, at its first INSERT or UPDATE; SELECTs before that hold     *)
(* nothing.  An intent request writes its session row first and then calls *)
(* the LLM, so it holds the lock across that call; `txn` is the open       *)
(* transaction: its owner and the rows nobody else can see yet.  The       *)
(* approval handler reads, decides, and only then writes: its first UPDATE *)
(* to its commit is one step, because the lock it needs is held throughout.*)
(***************************************************************************)
EXTENDS DecisionTable

CONSTANTS
  ApprovalReqs,  \* POST /approvals/<id>/approve and /deny requests
  OfferTtl,      \* record_decision's expires_in_seconds, in ticks
  MaxTime        \* bound on the clock

VARIABLES
  now,             \* the clock
  sessions,        \* negotiation_sessions.state
  decisions,       \* the decisions table
  audits,          \* audit_events: the stages recorded for a session
  authorizations,  \* the authorizations table, by the request that wrote the row
  txn,             \* the open write transaction, or NoRow when the lock is free
  intentReq,       \* the intent handlers
  approvalReq      \* the approval handlers

tables == <<sessions, decisions, audits, authorizations>>
vars == <<now, tables, txn, intentReq, approvalReq>>

--------------------------------------------------------------------------------
(* Rows and request-local state. *)

PipelineStages ==
  {"candidate_generation", "policy", "economic_evaluation", "selection", "decision"}
Stages == {"intent", "proposal"} \union PipelineStages

AuthorizationRow ==
  [decision : IntentReqs, merchant : Merchants, previous : NegotiationState,
   new : Verdict, at : Nat]

Transaction ==
  [by : IntentReqs, session : NegotiationState, stages : SUBSET Stages,
   decision : DecisionRow \union {NoRow}]

\* What run_pipeline may conclude: nothing feasible, a candidate over the
\* approval threshold, or a candidate to accept or counter with.
Outcome ==
  {[action |-> "REJECT", terms |-> NoTerms]}
    \union [action : {"ESCALATE", "ACCEPT", "COUNTER"}, terms : Terms]

InTransaction == {"proposing", "deciding", "committing"}
Finished == {"answered", "lost"}

\* A handler's code is the status it came to, 0 before that.  Whether the answer still
\* reaches the client changes nothing: a client that missed it sends another request.
IntentState ==
  [pc : {"idle", "arrived"} \union InTransaction \union Finished,
   merchant : Merchants \union {NoRow}, code : {0, 200, 500}]

ApprovalState ==
  [pc : {"idle", "writing"} \union Finished, merchant : Merchants \union {NoRow},
   decision : IntentReqs \union {NoRow}, verdict : Verdict,
   previous : NegotiationState, code : {0, 200, 404, 409, 500}]

ASSUME NegotiationAssumption ==
  /\ OfferTtl \in Nat
  /\ MaxTime \in Nat
  /\ NoRow \notin Transaction
  /\ NoRow \notin AuthorizationRow

Init ==
  /\ now = 0
  /\ sessions = [i \in IntentReqs |-> NoRow]
  /\ decisions = [i \in IntentReqs |-> NoRow]
  /\ audits = [i \in IntentReqs |-> {}]
  /\ authorizations = [a \in ApprovalReqs |-> NoRow]
  /\ txn = NoRow
  /\ intentReq =
       [i \in IntentReqs |-> [pc |-> "idle", merchant |-> NoRow, code |-> 0]]
  /\ approvalReq =
       [a \in ApprovalReqs |->
          [pc |-> "idle", merchant |-> NoRow, decision |-> NoRow,
           verdict |-> "APPROVED", previous |-> "OPEN", code |-> 0]]

LockFree == txn = NoRow

--------------------------------------------------------------------------------
(* POST /buyer-intents. *)

IntentSet(i, pc, m, code) ==
  intentReq' = [intentReq EXCEPT ![i] = [pc |-> pc, merchant |-> m, code |-> code]]

IntentAnswer(i, code) == IntentSet(i, "answered", intentReq[i].merchant, code)

\* The merchant's token is checked, the body read, the product and policy found.
IntentArrive(i, m) ==
  /\ intentReq[i].pc = "idle"
  /\ IntentSet(i, "arrived", m, 0)
  /\ UNCHANGED <<now, tables, txn, approvalReq>>

\* get_product or get_policy finds nothing: ValueError, before any write.
IntentRefuse(i) ==
  /\ intentReq[i].pc = "arrived"
  /\ IntentAnswer(i, 500)
  /\ UNCHANGED <<now, tables, txn, approvalReq>>

\* Mutant: the session row is committed at once, so as not to hold the lock during
\* the LLM call.
IntentOpenCommitted(i) ==
  /\ intentReq[i].pc = "arrived"
  /\ LockFree
  /\ sessions' = [sessions EXCEPT ![i] = "OPEN"]
  /\ txn' = [by |-> i, session |-> "OPEN", stages |-> {"intent"}, decision |-> NoRow]
  /\ intentReq' = [intentReq EXCEPT ![i].pc = "proposing"]
  /\ UNCHANGED <<now, decisions, audits, authorizations, approvalReq>>

\* create_session: the first INSERT, which takes the write lock, then the first
\* audit record.
IntentOpen(i) ==
  /\ intentReq[i].pc = "arrived"
  /\ LockFree
  /\ txn' = [by |-> i, session |-> "OPEN", stages |-> {"intent"}, decision |-> NoRow]
  /\ intentReq' = [intentReq EXCEPT ![i].pc = "proposing"]
  /\ UNCHANGED <<now, tables, approvalReq>>

\* Five seconds without the lock: sqlite3.OperationalError, 500.
IntentBusy(i) ==
  /\ intentReq[i].pc = "arrived"
  /\ ~LockFree
  /\ IntentAnswer(i, 500)
  /\ UNCHANGED <<now, tables, txn, approvalReq>>

\* route_and_propose returns, or raises LLMProviderError and the label is NONE;
\* either way the proposal is audited and the pipeline goes on.
IntentPropose(i) ==
  /\ intentReq[i].pc = "proposing"
  /\ txn' = [txn EXCEPT !.stages = @ \union {"proposal"}]
  /\ intentReq' = [intentReq EXCEPT ![i].pc = "deciding"]
  /\ UNCHANGED <<now, tables, approvalReq>>

\* Mutant: the action is stored where the state belongs.
NewStateIsAction(outcome) == outcome.action

\* Mutant: any selected candidate goes straight to the buyer.
NewStateSkipsApproval(outcome) ==
  IF outcome.terms = NoTerms THEN "CLOSED_REJECTED" ELSE "AWAITING_BUYER_RESPONSE"

\* The state handle_buyer_intent gives the decision and the session.
NewState(outcome) ==
  IF outcome.action = "ESCALATE" THEN "PENDING_APPROVAL"
  ELSE IF outcome.terms = NoTerms THEN "CLOSED_REJECTED"
  ELSE "AWAITING_BUYER_RESPONSE"

\* record_decision: the terms are frozen, and expire OfferTtl from here.
NewDecision(i, outcome) ==
  [merchant |-> intentReq[i].merchant, terms |-> outcome.terms,
   requiresApproval |-> outcome.action = "ESCALATE", state |-> NewState(outcome),
   expiresAt |-> now + OfferTtl]

\* run_pipeline concludes; its stages are audited, the decision is recorded and
\* the session moved to the same state.
IntentDecide(i, outcome) ==
  /\ intentReq[i].pc = "deciding"
  /\ txn' = [txn EXCEPT !.stages = @ \union PipelineStages,
                        !.decision = NewDecision(i, outcome),
                        !.session = NewState(outcome)]
  /\ intentReq' = [intentReq EXCEPT ![i].pc = "committing"]
  /\ UNCHANGED <<now, tables, approvalReq>>

\* Mutant: the connection is not closed when the handler raises.
IntentFailHoldingLock(i) ==
  /\ intentReq[i].pc \in {"proposing", "deciding"}
  /\ IntentAnswer(i, 500)
  /\ UNCHANGED <<now, tables, txn, approvalReq>>

\* An exception inside the transaction (a zero budget or price, a malformed
\* field, any error the LLM call does not wrap): 500, and the connection is
\* closed without a commit.
IntentFail(i) ==
  /\ intentReq[i].pc \in {"proposing", "deciding"}
  /\ IntentAnswer(i, 500)
  /\ txn' = NoRow
  /\ UNCHANGED <<now, tables, approvalReq>>

IntentCommit(i) ==
  /\ intentReq[i].pc = "committing"
  /\ sessions' = [sessions EXCEPT ![i] = txn.session]
  /\ decisions' = [decisions EXCEPT ![i] = txn.decision]
  /\ audits' = [audits EXCEPT ![i] = txn.stages]
  /\ txn' = NoRow
  /\ IntentAnswer(i, 200)
  /\ UNCHANGED <<now, authorizations, approvalReq>>

\* Mutant: the LLM call has no timeout and never comes back.
IntentStepLlmHangs(i) ==
  \/ IntentRefuse(i)
  \/ IntentOpen(i)
  \/ IntentBusy(i)

IntentStep(i) ==
  \/ IntentRefuse(i)
  \/ IntentOpen(i)
  \/ IntentBusy(i)
  \/ IntentPropose(i)
  \/ \E outcome \in Outcome : IntentDecide(i, outcome)
  \/ IntentFail(i)
  \/ IntentCommit(i)

--------------------------------------------------------------------------------
(* POST /approvals/<id>/approve and /deny. *)

\* Mutant: get_decision, which ignores the merchant, in place of the scoped lookup.
VisibleToAll(m, d) == decisions[d] # NoRow

Visible(m, d) == ScopedRow(decisions, m, d)

ApprovalSet(a, pc, m, d, verdict, previous, code) ==
  approvalReq' =
    [approvalReq EXCEPT ![a] =
       [pc |-> pc, merchant |-> m, decision |-> d, verdict |-> verdict,
        previous |-> previous, code |-> code]]

ApprovalUnknown(a, m, d, verdict) ==
  /\ approvalReq[a].pc = "idle"
  /\ ~Visible(m, d)
  /\ ApprovalSet(a, "answered", m, d, verdict, "OPEN", 404)
  /\ UNCHANGED <<now, tables, txn, intentReq>>

ApprovalConflict(a, m, d, verdict) ==
  /\ approvalReq[a].pc = "idle"
  /\ Visible(m, d)
  /\ <<decisions[d].state, verdict>> \notin AllowedTransitions
  /\ ApprovalSet(a, "answered", m, d, verdict, decisions[d].state, 409)
  /\ UNCHANGED <<now, tables, txn, intentReq>>

\* The transition is allowed from the state just read.  Nothing is locked, and
\* nothing is read again.
ApprovalCheck(a, m, d, verdict) ==
  /\ approvalReq[a].pc = "idle"
  /\ Visible(m, d)
  /\ <<decisions[d].state, verdict>> \in AllowedTransitions
  /\ ApprovalSet(a, "writing", m, d, verdict, decisions[d].state, 0)
  /\ UNCHANGED <<now, tables, txn, intentReq>>

ApprovalAnswer(a, code) ==
  LET req == approvalReq[a]
  IN  ApprovalSet(a, "answered", req.merchant, req.decision, req.verdict, req.previous,
                  code)

\* Mutant: record_authorization is left out.
ApprovalWriteSilent(a) ==
  /\ approvalReq[a].pc = "writing"
  /\ LockFree
  /\ decisions' = [decisions EXCEPT ![approvalReq[a].decision].state =
                      ClosedBy(approvalReq[a].verdict)]
  /\ ApprovalAnswer(a, 200)
  /\ UNCHANGED <<now, sessions, audits, authorizations, txn, intentReq>>

\* Mutant: approving an offer also renews its expiry.
ApprovalWriteRenews(a) ==
  LET req == approvalReq[a]
  IN  /\ req.pc = "writing"
      /\ LockFree
      /\ decisions' = [decisions EXCEPT ![req.decision].state = ClosedBy(req.verdict),
                                        ![req.decision].expiresAt = now + OfferTtl]
      /\ authorizations' =
           [authorizations EXCEPT ![a] =
              [decision |-> req.decision, merchant |-> req.merchant,
               previous |-> req.previous, new |-> req.verdict, at |-> now]]
      /\ ApprovalAnswer(a, 200)
      /\ UNCHANGED <<now, sessions, audits, txn, intentReq>>

\* Both updates (the verdict, then the state it closes in) and the authorization
\* row, in one transaction.  The UPDATE has no condition on the state.
ApprovalWrite(a) ==
  LET req == approvalReq[a]
  IN  /\ req.pc = "writing"
      /\ LockFree
      /\ decisions' = [decisions EXCEPT ![req.decision].state = ClosedBy(req.verdict)]
      /\ authorizations' =
           [authorizations EXCEPT ![a] =
              [decision |-> req.decision, merchant |-> req.merchant,
               previous |-> req.previous, new |-> req.verdict, at |-> now]]
      /\ ApprovalAnswer(a, 200)
      /\ UNCHANGED <<now, sessions, audits, txn, intentReq>>

ApprovalBusy(a) ==
  /\ approvalReq[a].pc = "writing"
  /\ ~LockFree
  /\ ApprovalAnswer(a, 500)
  /\ UNCHANGED <<now, tables, txn, intentReq>>

ApprovalArrive(a) ==
  \E m \in Merchants, d \in IntentReqs, verdict \in Verdict :
    \/ ApprovalUnknown(a, m, d, verdict)
    \/ ApprovalConflict(a, m, d, verdict)
    \/ ApprovalCheck(a, m, d, verdict)

ApprovalStep(a) == ApprovalWrite(a) \/ ApprovalBusy(a)

--------------------------------------------------------------------------------
(* The process and the clock. *)

ActiveIntents == {i \in IntentReqs : intentReq[i].pc \notin Finished \union {"idle"}}
ActiveApprovals == {a \in ApprovalReqs : approvalReq[a].pc = "writing"}

\* What a process death does here: requests in flight get no answer, the open
\* transaction is rolled back, committed rows stay.
RequestsLost ==
  /\ intentReq' =
       [i \in IntentReqs |->
          IF i \in ActiveIntents THEN [intentReq[i] EXCEPT !.pc = "lost"] ELSE intentReq[i]]
  /\ approvalReq' =
       [a \in ApprovalReqs |->
          IF a \in ActiveApprovals THEN [approvalReq[a] EXCEPT !.pc = "lost"]
          ELSE approvalReq[a]]
  /\ txn' = NoRow
  /\ UNCHANGED tables

Crash ==
  /\ ActiveIntents # {} \/ ActiveApprovals # {}
  /\ RequestsLost
  /\ UNCHANGED now

Tick ==
  /\ now < MaxTime
  /\ now' = now + 1
  /\ UNCHANGED <<tables, txn, intentReq, approvalReq>>

\* Every request of the run has been served: the server idles on.
Quiescent ==
  /\ \A i \in IntentReqs : intentReq[i].pc \in Finished
  /\ \A a \in ApprovalReqs : approvalReq[a].pc \in Finished
  /\ now = MaxTime
  /\ UNCHANGED vars

Next ==
  \/ \E i \in IntentReqs :
       \/ \E m \in Merchants : IntentArrive(i, m)
       \/ IntentStep(i)
  \/ \E a \in ApprovalReqs : ApprovalArrive(a) \/ ApprovalStep(a)
  \/ Crash
  \/ Tick
  \/ Quiescent

Spec == Init /\ [][Next]_vars

--------------------------------------------------------------------------------
(* Properties. *)

\* Every table, the open transaction and every handler hold values of their kind.
TypeOK ==
  /\ now \in Nat
  /\ sessions \in [IntentReqs -> NegotiationState \union {NoRow}]
  /\ decisions \in [IntentReqs -> DecisionRow \union {NoRow}]
  /\ audits \in [IntentReqs -> SUBSET Stages]
  /\ authorizations \in [ApprovalReqs -> AuthorizationRow \union {NoRow}]
  /\ txn \in Transaction \union {NoRow}
  /\ intentReq \in [IntentReqs -> IntentState]
  /\ approvalReq \in [ApprovalReqs -> ApprovalState]

\* The write lock is held by exactly the intent request that is between its first
\* INSERT and its commit: a failed or lost request never leaves it taken, and no
\* two requests are ever inside a transaction together.
LockHeldByItsTransaction ==
  \A i \in IntentReqs :
    intentReq[i].pc \in InTransaction <=> (txn # NoRow /\ txn.by = i)

\* handle_buyer_intent is all or nothing: whatever fails, times out or crashes
\* between the session row and the commit, a session anyone can see has its
\* decision and the whole audit trail, is never OPEN, and a request answered 200
\* has left exactly that.
IntentIsAtomic ==
  \A i \in IntentReqs :
    /\ sessions[i] = NoRow => decisions[i] = NoRow /\ audits[i] = {}
    /\ sessions[i] # NoRow =>
         decisions[i] # NoRow /\ audits[i] = Stages /\ sessions[i] # "OPEN"
    /\ intentReq[i].code = 200 <=> sessions[i] # NoRow

\* A decision is what the pipeline concluded until a merchant rules on it: one
\* without a candidate is closed, one within the threshold waits for the buyer and
\* no approval ever touches it, and an escalated one is pending exactly as long as
\* no authorization names it, and closed only the way some authorization says.
StateIsOnRecord ==
  \A d \in IntentReqs :
    LET row == decisions[d]
        Ruled(verdict) ==
          \E a \in ApprovalReqs : /\ authorizations[a] # NoRow
                                  /\ authorizations[a].decision = d
                                  /\ authorizations[a].new = verdict
    IN  row # NoRow =>
          /\ row.requiresApproval => row.terms # NoTerms
          /\ row.state = "PENDING_APPROVAL" <=>
               row.requiresApproval /\ \A verdict \in Verdict : ~Ruled(verdict)
          /\ row.requiresApproval /\ row.state # "PENDING_APPROVAL" =>
               \E verdict \in Verdict : Ruled(verdict) /\ row.state = ClosedBy(verdict)
          /\ ~row.requiresApproval =>
               row.state = IF row.terms = NoTerms THEN "CLOSED_REJECTED"
                           ELSE "AWAITING_BUYER_RESPONSE"

\* Every authorization row is an answer some request gave: on an escalated decision
\* that exists, by the merchant who owns it, made when the decision was pending.
AuthorizationsAreTheOwners ==
  \A a \in ApprovalReqs :
    LET auth == authorizations[a]
    IN  /\ auth # NoRow =>
             /\ decisions[auth.decision] # NoRow
             /\ decisions[auth.decision].requiresApproval
             /\ decisions[auth.decision].merchant = auth.merchant
             /\ auth.previous = "PENDING_APPROVAL"
        /\ approvalReq[a].code = 200 <=> auth # NoRow

\* The commercial history of a decision: a committed decision is never removed, its
\* terms, owner and expiry never change, and its state changes only in the step that
\* records the authorization for that change.
HistoryIsKept ==
  [][\A d \in IntentReqs :
       decisions[d] # NoRow /\ decisions'[d] # decisions[d] =>
         /\ decisions'[d] = [decisions[d] EXCEPT !.state = decisions'[d].state]
         /\ \E a \in ApprovalReqs :
              /\ authorizations[a] = NoRow
              /\ authorizations'[a] # NoRow
              /\ authorizations'[a].decision = d
              /\ decisions'[d].state = ClosedBy(authorizations'[a].new)]_vars

\* The service keeps the promise of DecisionLedger, in which there are no locks,
\* transactions, failures or half-finished requests.
Ledger == INSTANCE DecisionLedger
ImplementsLedger == Ledger!LedgerSpec

\* docs/SECURITY.md:159-161 says of calling approve or deny twice that it will "fail
\* on the second call, since the decision is no longer in PENDING_APPROVAL": so a
\* closed decision stays closed the way it was.  Two requests that both read the
\* pending state before either writes contradict it.
ClosedIsFinal ==
  [][\A d \in IntentReqs :
       decisions[d] # NoRow /\ IsTerminal(decisions[d].state) =>
         decisions'[d] = decisions[d]]_vars

================================================================================
