---------------------------- MODULE MCMerchantDesk ----------------------------
(* Instances of MerchantDesk for TLC: amounts in units of 50 rupees. *)
EXTENDS MerchantDesk, TLC

CONSTANTS i1, i2

\* The hero scenario (8000, 4500, 50 rupees; capacity 3), one without capacity, one
\* with little of everything, and one with a zero base price.
MCProductOf ==
  [hero |-> [base |-> 160, cost |-> 90, delivery |-> 1, inventory |-> 18,
             capacity |-> 3],
   last |-> [base |-> 160, cost |-> 90, delivery |-> 1, inventory |-> 1,
             capacity |-> 1],
   cheap |-> [base |-> 12, cost |-> 9, delivery |-> 1, inventory |-> 2, capacity |-> 0],
   free |-> [base |-> 0, cost |-> 0, delivery |-> 0, inventory |-> 2, capacity |-> 0]]

\* The hero policy (discount 800, cashback 500, floor 2000, budget left 200 rupees,
\* threshold 1000), generous ones with odd and zero steps, and one with no budget.
MCPolicyOf ==
  [hero |-> [marginFloor |-> 40, maxDiscount |-> 16, maxCashback |-> 10,
             incentiveBudget |-> 200, spend |-> 196, threshold |-> 20, maxRounds |-> 3],
   generous |-> [marginFloor |-> 1, maxDiscount |-> 16, maxCashback |-> 10,
                 incentiveBudget |-> 200, spend |-> 0, threshold |-> 9,
                 maxRounds |-> 1],
   odd |-> [marginFloor |-> 0, maxDiscount |-> 1, maxCashback |-> 0,
            incentiveBudget |-> 2, spend |-> 1, threshold |-> 0, maxRounds |-> 2],
   broke |-> [marginFloor |-> 40, maxDiscount |-> 3, maxCashback |-> 3,
              incentiveBudget |-> 5, spend |-> 5, threshold |-> 0, maxRounds |-> 2],
   spender |-> [marginFloor |-> 1, maxDiscount |-> 16, maxCashback |-> 10,
                incentiveBudget |-> 25, spend |-> 0, threshold |-> 9, maxRounds |-> 3]]

\* Quantities up to the stock's boundary and past it, asks below cost, on the grid,
\* between its steps, above the base price and absurd, and an empty purse.
Messages ==
  [merchant : {"hero", "generous", "odd", "broke"},
   product : {"hero", "last", "cheap", "free"},
   budget : {0, 130, 160}, quantity : {0, 1, 2},
   price : {None, 0, 10, 120, 136, 144, 150, 170, 1601}, cashback : {0, 4, 99},
   words : {{}, {"urgent"}}, context : {{}}]

Message(merchant, product, price, context) ==
  [merchant |-> merchant, product |-> product, budget |-> 130, quantity |-> 1,
   price |-> price, cashback |-> 0, words |-> {"cheaper"}, context |-> context]

One(msg) == (i1 :> msg) @@ (i2 :> NoRow)
Two(msg1, msg2) == (i1 :> msg1) @@ (i2 :> msg2)

Deployment(name, in) == [provider |-> name, inbox |-> in]

\* Every message alone; every context with every answer of the provider; a purse below
\* zero; two messages, of one merchant and of two, and one for a product nobody sells.
Contexts ==
  {{}, {"churn_risk", "cart_abandoned"}} \union {{f} : f \in ContextFlags}

MCDeployments ==
  {Deployment("mock", One(msg)) : msg \in Messages}
    \union {Deployment(name, One(Message("spender", "hero", 144, context))) :
              name \in {"mock", "claude"}, context \in Contexts}
    \union {Deployment("mock", One([Message("spender", "hero", price, {}) EXCEPT
                                      !.budget = -130])) : price \in {None, 144}}
    \union {Deployment("mock", Two(Message("spender", "hero", 144, {}),
                                   Message(m, product, 136, {"is_repeat_customer"}))) :
              m \in {"spender", "generous", "nobody"}, product \in {"last", "ghost"}}

\* A buyer who pays the full price and wants it tomorrow, which the merchant can do.
AcceptDeployments ==
  {Deployment("mock", One([Message("hero", "hero", 160, {}) EXCEPT !.words = {"urgent"}]))}

\* Two messages to one merchant whose budget has room for one of them.
BudgetDeployments ==
  {Deployment("mock", Two(Message("spender", "hero", 144, {}),
                          Message("spender", "hero", 144, {})))}

\* Valid answers, and each way an answer can fail validation.
MCClaudeReplies ==
  {NoAnswer, OddBody, OddBlocks, OddAnswer, NotAnObject}
    \union {Answer(Raw(strategy, "text", "number", delivery)) :
              strategy \in Strategies \union {"other"},
              delivery \in {"true", "false", "missing"}}
    \union {Answer(Raw("RETENTION", "blank", "number", "true")),
            Answer(Raw("RETENTION", "text", "other", "true")),
            Answer(Raw("RETENTION", "text", "huge", "true")),
            Answer(Raw("RETENTION", "blank", "huge", "true")),
            Answer(Raw("missing", "text", "number", "true")),
            Answer(Raw("unhashable", "text", "number", "true")),
            Answer(Raw("unhashable", "text", "missing", "true"))}

MCRejectedPriceSets == {{}, {144, 160}}

MCPredictions == {None, 250}

\* A rational sigmoid: increasing in num / den, strictly between 0 and Scale.
MCChance(num, den) ==
  LET up == IF den < 0 THEN -num ELSE num
      size == IF num < 0 THEN -num ELSE num
      unit == IF den < 0 THEN -den ELSE den
  IN  500 + ((499 * up) \div (size + unit))

================================================================================
