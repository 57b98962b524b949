------------------------------- MODULE MCPayments -------------------------------
(* Instances of Payments for TLC. *)
EXTENDS Payments, TLC

\* An offer of two units, and a body that asked for quantity 0, which nothing refuses
\* before the payment.
MCTerms == {[price |-> 3, quantity |-> 2], [price |-> 3, quantity |-> 0]}
MCOneTerms == {[price |-> 3, quantity |-> 2]}
MCAmounts == 0 .. 6

Symmetry == Permutations(Keys) \union Permutations(PayReqs)

================================================================================
