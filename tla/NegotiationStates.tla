--------------------------- MODULE NegotiationStates ---------------------------
(***************************************************************************)
(* The negotiation state table of core/state_machine.py: the states a      *)
(* session or a decision can be in, the pairs transition() admits, and the *)
(* two paths the approval handler walks inside one database transaction.   *)
(***************************************************************************)

NegotiationState ==
  {"OPEN", "AWAITING_BUYER_RESPONSE", "PENDING_APPROVAL", "APPROVED",
   "DENIED", "CLOSED_ACCEPTED", "CLOSED_REJECTED"}

AllowedTransitions ==
  {<<"OPEN", "CLOSED_REJECTED">>,
   <<"OPEN", "PENDING_APPROVAL">>,
   <<"OPEN", "AWAITING_BUYER_RESPONSE">>,
   <<"AWAITING_BUYER_RESPONSE", "CLOSED_ACCEPTED">>,
   <<"AWAITING_BUYER_RESPONSE", "CLOSED_REJECTED">>,
   <<"AWAITING_BUYER_RESPONSE", "OPEN">>,
   <<"PENDING_APPROVAL", "APPROVED">>,
   <<"PENDING_APPROVAL", "DENIED">>,
   <<"APPROVED", "CLOSED_ACCEPTED">>,
   <<"DENIED", "CLOSED_REJECTED">>}

IsTerminal(state) == state \in {"CLOSED_ACCEPTED", "CLOSED_REJECTED"}

\* What a merchant may answer, and the state each answer closes a decision in.
Verdict == {"APPROVED", "DENIED"}

ClosedBy(verdict) ==
  IF verdict = "APPROVED" THEN "CLOSED_ACCEPTED" ELSE "CLOSED_REJECTED"

================================================================================
