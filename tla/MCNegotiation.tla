----------------------------- MODULE MCNegotiation -----------------------------
(* Instances of Negotiation for TLC. *)
EXTENDS Negotiation, TLC

\* Requests of one kind, and the merchants, are interchangeable.
Symmetry ==
  Permutations(Merchants) \union Permutations(IntentReqs) \union Permutations(ApprovalReqs)

================================================================================
