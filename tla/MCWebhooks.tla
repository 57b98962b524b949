------------------------------- MODULE MCWebhooks -------------------------------
(* Instances of Webhooks for TLC. *)
EXTENDS Webhooks, TLC

MCAmounts == {1}

Symmetry == Permutations(HookReqs) \union Permutations(Attempts)

================================================================================
