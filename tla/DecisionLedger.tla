----------------------------- MODULE DecisionLedger -----------------------------
(***************************************************************************)
(* What the negotiation side of the service promises about its tables,     *)
(* with the write lock, the transactions, the LLM call, crashes and        *)
(* half-finished requests hidden: a decision appears in one step together  *)
(* with its session and the full audit trail, already in the state its     *)
(* outcome calls for; after that only a verdict of the merchant who owns   *)
(* it moves it, only if it was escalated, and the verdict is on record     *)
(* from that very step.  Negotiation is shown to implement this.           *)
(***************************************************************************)
EXTENDS DecisionTable

CONSTANTS ApprovalReqs, Stages

VARIABLES now, sessions, decisions, audits, authorizations

ledgerVars == <<sessions, decisions, audits, authorizations>>

LedgerInit ==
  /\ sessions = [i \in IntentReqs |-> NoRow]
  /\ decisions = [i \in IntentReqs |-> NoRow]
  /\ audits = [i \in IntentReqs |-> {}]
  /\ authorizations = [a \in ApprovalReqs |-> NoRow]

Publish(i) ==
  /\ decisions[i] = NoRow
  /\ decisions'[i] # NoRow
  /\ decisions' = [decisions EXCEPT ![i] = decisions'[i]]
  /\ LegalRow(decisions'[i])
  /\ sessions' = [sessions EXCEPT ![i] = decisions'[i].state]
  /\ audits' = [audits EXCEPT ![i] = Stages]
  /\ UNCHANGED authorizations

Rule(a, d, verdict) ==
  /\ decisions[d] # NoRow
  /\ decisions[d].requiresApproval
  /\ authorizations[a] = NoRow
  /\ decisions' = [decisions EXCEPT ![d].state = ClosedBy(verdict)]
  /\ authorizations' =
       [authorizations EXCEPT ![a] =
          [decision |-> d, merchant |-> decisions[d].merchant,
           previous |-> "PENDING_APPROVAL", new |-> verdict, at |-> now]]
  /\ UNCHANGED <<sessions, audits>>

LedgerNext ==
  \/ \E i \in IntentReqs : Publish(i)
  \/ \E a \in ApprovalReqs, d \in IntentReqs, verdict \in Verdict : Rule(a, d, verdict)

LedgerSpec == LedgerInit /\ [][LedgerNext]_ledgerVars

================================================================================
