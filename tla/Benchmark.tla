------------------------------- MODULE Benchmark -------------------------------
(***************************************************************************)
(* The baselines of benchmark.py, each the price it would sell one unit    *)
(* at, valued by the formula the pipeline uses (without urgency: the       *)
(* baselines pass False).  A price of None is no sale.  The random draws   *)
(* that decide conversions are left out, and so are the sums over runs.    *)
(***************************************************************************)
EXTENDS OfferPipeline

\* The scenarios _make_scenario draws: one unit, no cashback, a budget between cost and
\* base price and an ask from 10 percent below it to 5 percent above; and, as for the one
\* policy run_benchmark gives them, a margin floor that is no loss.
IsScenario(deal) ==
  LET budget == deal.intent.budget
  IN  /\ deal.intent.quantity = 1 /\ deal.intent.cashback = 0
      /\ deal.intent.round = 1 /\ ~deal.intent.expired
      /\ deal.policy.marginFloor >= 0
      /\ deal.product.cost <= budget /\ budget <= deal.product.base
      /\ deal.intent.price # None
      /\ deal.intent.price \in (9 * budget) \div 10 .. (21 * budget) \div 20

NotBelowCost(deal, price) ==
  IF price < deal.product.cost THEN deal.product.cost ELSE price

\* A zero ask counts as none.
Asked(deal) ==
  IF deal.intent.price \in {None, 0} THEN deal.product.base ELSE deal.intent.price

BaselineA(deal) == deal.product.base

BaselineB(deal) == NotBelowCost(deal, Asked(deal))

BaselineC(deal) ==
  LET base == deal.product.base
      most == deal.policy.maxDiscount
      gap == base - Asked(deal)
  IN  IF base = 0 \/ gap <= 0 THEN NotBelowCost(deal, base)
      ELSE IF 10 * gap <= base
      THEN NotBelowCost(deal, base - (IF gap \div 2 < most THEN gap \div 2 ELSE most))
      ELSE IF 4 * gap <= base THEN NotBelowCost(deal, base - most)
      ELSE None

\* policy_violation
BreaksPolicy(deal, price) ==
  \/ Discount(deal, price) > deal.policy.maxDiscount
  \/ price - deal.product.cost - deal.product.delivery < deal.policy.marginFloor

\* eov_paise, times Scale.
BaselineValue(deal, price) ==
  PConv(deal, price, 0, FALSE) * (price - deal.product.cost - deal.product.delivery)

================================================================================
