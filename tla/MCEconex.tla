-------------------------------- MODULE MCEconex --------------------------------
(* Instances of Econex for TLC. *)
EXTENDS Econex

MCTerms == {[price |-> 3, quantity |-> 2]}
MCAmounts == 0 .. 6

================================================================================
