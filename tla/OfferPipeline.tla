----------------------------- MODULE OfferPipeline -----------------------------
(***************************************************************************)
(* run_pipeline: how one buyer intent becomes a decision.  Candidates are  *)
(* generated on a fixed grid plus the buyer's own ask, checked against the *)
(* merchant's policy, valued, ranked, and the best feasible one resolved   *)
(* to an action.  Everything here is a function of a `deal`, the record of *)
(* the intent, the product, the policy and the prices already turned down. *)
(* Prices are integers in whatever unit the instance uses.  The conversion *)
(* probability is a float in the code; here it is the exact score, mapped  *)
(* by Chance, any increasing function into 1 .. Scale - 1.                 *)
(***************************************************************************)
EXTENDS Integers, Sequences, FiniteSets

CONSTANTS
  None,         \* no requested price; the value of an infeasible candidate
  Scale,        \* the probability 1
  Chance(_, _)  \* the sigmoid of a score, given as numerator and denominator

ProductRow ==
  [base : Nat, cost : Nat, delivery : Nat, inventory : Nat, capacity : Nat]

PolicyRow ==
  [marginFloor : Int, maxDiscount : Nat, maxCashback : Nat, incentiveBudget : Int,
   spend : Int, threshold : Int, maxRounds : Int]

--------------------------------------------------------------------------------
(* candidate_generator.py *)

PriceSteps(deal) ==
  LET base == deal.product.base
      most == deal.policy.maxDiscount
  IN  <<base, base - most \div 2, base - most>>

CashbackSteps(deal) == <<0, deal.policy.maxCashback \div 2, deal.policy.maxCashback>>

DeliverySteps(deal) ==
  IF deal.product.capacity > 0 THEN <<"standard", "expedited">> ELSE <<"standard">>

\* The grid, by the turn of the three nested loops at which a point comes up.
Grid(deal) ==
  LET d == Len(DeliverySteps(deal))
  IN  [n \in 1 .. 9 * d |->
         [price |-> PriceSteps(deal)[(n - 1) \div (3 * d) + 1],
          cashback |-> CashbackSteps(deal)[(((n - 1) \div d) % 3) + 1],
          delivery |-> DeliverySteps(deal)[((n - 1) % d) + 1]]]

\* Mutant: repeated grid points are kept.
EmittedWithRepeats(deal, grid, n) ==
  /\ grid[n].price >= deal.product.cost
  /\ ~(deal.intent.round > 1 /\ grid[n].price \in deal.rejected)

Emitted(deal, grid, n) ==
  /\ \A j \in 1 .. n - 1 : grid[j] # grid[n]
  /\ grid[n].price >= deal.product.cost
  /\ ~(deal.intent.round > 1 /\ grid[n].price \in deal.rejected)

\* The points of the grid that become candidates.
GridKeys(deal) == {n \in DOMAIN Grid(deal) : Emitted(deal, Grid(deal), n)}

\* The turn of the buyer's ask, after the loops.
AskTurn == 19

\* The buyer's ask as a candidate, its cashback cut down to what the policy allows.
AnchorKey(deal) ==
  [price |-> deal.intent.price,
   cashback |-> IF deal.intent.cashback < deal.policy.maxCashback
                THEN deal.intent.cashback ELSE deal.policy.maxCashback,
   delivery |-> IF deal.intent.expedited /\ deal.product.capacity > 0
                THEN "expedited" ELSE "standard"]

ValidAnchor(deal) ==
  /\ deal.intent.price # None
  /\ deal.intent.price > 0
  /\ deal.intent.price <= deal.product.base * 10

\* Mutant: an ask above the base price counts as a mistake of the buyer's.
AnchoredUpToBase(deal) ==
  /\ ValidAnchor(deal)
  /\ deal.intent.price >= deal.product.cost
  /\ deal.intent.price <= deal.product.base

Anchored(deal) == ValidAnchor(deal) /\ deal.intent.price >= deal.product.cost

\* Mutant: the discount is not floored at zero.
DiscountBelowZero(deal, price) == deal.product.base - price

Discount(deal, price) ==
  IF price < deal.product.base THEN deal.product.base - price ELSE 0

Candidate(deal, key) ==
  [price |-> key.price, discount |-> Discount(deal, key.price),
   cashback |-> key.cashback, delivery |-> key.delivery]

\* The candidates, by their turns.
Candidates(deal) ==
  LET grid == Grid(deal)
      kept == GridKeys(deal)
      isNew == \A n \in kept : grid[n] # AnchorKey(deal)
      added == IF Anchored(deal) /\ isNew THEN {AskTurn} ELSE {}
  IN  [n \in kept \union added |->
         Candidate(deal, IF n \in kept THEN grid[n] ELSE AnchorKey(deal))]

--------------------------------------------------------------------------------
(* policy_engine.py *)

Contribution(deal, c) ==
  (c.price - deal.product.cost - deal.product.delivery) * deal.intent.quantity

\* Mutant: the budget check counts cashback only.
BudgetAllowsCashback(deal, c) ==
  deal.policy.spend + c.cashback <= deal.policy.incentiveBudget

BudgetAllows(deal, c) ==
  deal.policy.spend + c.discount + c.cashback <= deal.policy.incentiveBudget

\* The nine checks, in order.
Checks(deal, c) ==
  <<c.price >= deal.product.cost,
    Contribution(deal, c) >= deal.policy.marginFloor,
    c.discount <= deal.policy.maxDiscount,
    c.cashback <= deal.policy.maxCashback,
    BudgetAllows(deal, c),
    deal.intent.quantity <= deal.product.inventory,
    c.delivery = "expedited" => deal.intent.quantity <= deal.product.capacity,
    ~deal.intent.expired,
    deal.intent.round <= deal.policy.maxRounds>>

\* The number of the first failing check, 0 if all pass.
FirstViolation(deal, c) ==
  LET failing == {n \in 1 .. 9 : ~Checks(deal, c)[n]}
  IN  IF failing = {} THEN 0 ELSE CHOOSE n \in failing : \A m \in failing : n <= m

--------------------------------------------------------------------------------
(* conversion_heuristic.py, economic_engine.py *)

Clamp(x, low, high) == IF x < low THEN low ELSE IF x > high THEN high ELSE x

Magnitude(x) == IF x < 0 THEN -x ELSE x

\* 2.5 * budget_fit + 1.5 * concession + urgency, over 2 * budget * base.  The fit, a
\* quotient by the budget, is cut to [-1, 1]; nothing refuses a negative budget.
PConv(deal, price, cashback, urgent) ==
  LET budget == deal.intent.budget
      base == deal.product.base
      most == Magnitude(budget)
      den == 2 * budget * base
  IN  Chance(5 * base * Clamp(budget - price, -most, most)
               + 3 * budget * (base - price + cashback) + (IF urgent THEN den ELSE 0),
             den)

\* Mutant: the discount is charged once more, as an incentive.
ValueChargesDiscount(deal, c) ==
  PConv(deal, c.price, c.cashback, deal.intent.expedited) * Contribution(deal, c)
    - Scale * (c.cashback + c.discount)

\* The EOV times Scale.  Only cashback is an incentive cost: the discount is in the
\* price already.
Value(deal, c) ==
  PConv(deal, c.price, c.cashback, deal.intent.expedited) * Contribution(deal, c)
    - Scale * c.cashback

\* compute_p_conv, called for feasible candidates only, divides by the buyer's budget
\* and the base price.
Computable(deal) ==
  \/ deal.intent.budget # 0 /\ deal.product.base # 0
  \/ \A i \in DOMAIN Candidates(deal) : FirstViolation(deal, Candidates(deal)[i]) # 0

\* What becomes a row of the offers table.
Offer(deal, c) ==
  LET violation == FirstViolation(deal, c)
  IN  [price |-> c.price, discount |-> c.discount, cashback |-> c.cashback,
       delivery |-> c.delivery, quantity |-> deal.intent.quantity,
       contribution |-> Contribution(deal, c), violation |-> violation,
       eov |-> IF violation = 0 THEN Value(deal, c) ELSE None]

--------------------------------------------------------------------------------
(* optimizer.py *)

Feasible(offers) == {i \in DOMAIN offers : offers[i].violation = 0}

\* The candidate of turn n is "C" with the number of candidates up to it.
IdNumber(offers, n) == Cardinality({m \in DOMAIN offers : m <= n})

\* The place of "C<i>" in string order, for i up to 99: C1 < C10 < C11 < C2.
IdOrder(i) == IF i < 10 THEN 100 * i ELSE 100 * (i \div 10) + 1 + (i % 10)

\* Mutant: the cheapest candidate first, whatever it is worth.
SortKeyByPrice(offers, i) ==
  <<offers[i].price, -offers[i].contribution, -offers[i].eov, IdOrder(IdNumber(offers, i))>>

SortKey(offers, i) ==
  <<-offers[i].eov, -offers[i].contribution, offers[i].price, IdOrder(IdNumber(offers, i))>>

\* Tuple order, as Python compares sort keys.
Before(s, t) ==
  \E n \in 1 .. 4 : s[n] < t[n] /\ \A m \in 1 .. n - 1 : s[m] = t[m]

\* The turn of the best candidate, 0 for None.
SelectBest(offers) ==
  IF Feasible(offers) = {} THEN 0
  ELSE CHOOSE i \in Feasible(offers) :
         \A j \in Feasible(offers) \ {i} :
           Before(SortKey(offers, i), SortKey(offers, j))

--------------------------------------------------------------------------------
(* decision_resolver.py *)

\* Mutant: the threshold is compared with the cashback alone.
OverThresholdCashback(deal, c) == c.cashback > deal.policy.threshold

OverThreshold(deal, c) == c.discount + c.cashback > deal.policy.threshold

MatchesAsk(deal, c) ==
  /\ deal.intent.price # None
  /\ c.price = deal.intent.price
  /\ c.cashback >= deal.intent.cashback

Action(deal, offers, selected) ==
  IF selected = 0 THEN "REJECT"
  ELSE IF OverThreshold(deal, offers[selected]) THEN "ESCALATE"
  ELSE IF MatchesAsk(deal, offers[selected]) THEN "ACCEPT" ELSE "COUNTER"

--------------------------------------------------------------------------------
(* pipeline.py *)

RunPipeline(deal) ==
  LET candidates == Candidates(deal)
      offers == [i \in DOMAIN candidates |-> Offer(deal, candidates[i])]
      selected == SelectBest(offers)
  IN  [offers |-> offers, selected |-> selected,
       action |-> Action(deal, offers, selected)]

================================================================================
