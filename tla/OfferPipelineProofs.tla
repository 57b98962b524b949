-------------------------- MODULE OfferPipelineProofs --------------------------
(***************************************************************************)
(* Lemmas about run_pipeline, for every product, policy and intent: what   *)
(* is generated, what passes the policy, and that a best candidate exists  *)
(* whenever a feasible one does.                                           *)
(***************************************************************************)
EXTENDS OfferPipeline, FiniteSetTheorems, TLAPS

\* The values a deal is made of.
IsDeal(deal) ==
  /\ deal.product \in ProductRow
  /\ deal.policy \in PolicyRow
  /\ deal.intent.budget \in Int
  /\ deal.intent.quantity \in Int
  /\ deal.intent.price \in Int \union {None}
  /\ deal.intent.cashback \in Int

CandidateRow ==
  [price : Int, discount : Nat, cashback : Int, delivery : {"standard", "expedited"}]

\* The sigmoid is rounded to an integer between 0 and Scale; that it is an integer is
\* all that the proofs need of it, the benchmark's claim excepted.
ChanceIsInteger ==
  /\ Scale \in Int
  /\ \A num \in Int, den \in Int \ {0} : Chance(num, den) \in Int

\* The sigmoid is increasing: of two scores over one positive denominator the higher one
\* has at least the chance of the lower.
ChanceIsIncreasing ==
  \A low \in Int, high \in Int, den \in Int :
    den > 0 /\ low <= high => Chance(low, den) <= Chance(high, den)

--------------------------------------------------------------------------------
(* Numbers. *)

\* Numbers up to some bound have a least one: of the initial segments they end, take one
\* that is least by inclusion.
LEMMA LeastNumber ==
  ASSUME NEW N \in Nat, NEW S \in SUBSET (1 .. N), S # {}
  PROVE  \E n \in S : \A m \in S : n <= m
<1> DEFINE segments == {1 .. n : n \in S}
<1>1. segments \subseteq FiniteSubsetsOf(1 .. N) /\ segments # {}
  <2>1. IsFiniteSet(1 .. N)
    BY FS_Interval
  <2>2. \A n \in S : 1 .. n \in SUBSET (1 .. N)
    OBVIOUS
  <2>3. segments \subseteq SUBSET (1 .. N) /\ segments # {}
    BY <2>2
  <2>4. QED
    BY <2>1, <2>3, FS_FiniteSubsetsOfFinite
<1>2. PICK least \in segments : \A other \in segments :
        <<other, least>> \notin StrictSubsetOrdering(1 .. N)
  <2>1. IsFiniteSet(1 .. N)
    BY FS_Interval
  <2>2. QED
    BY <1>1, <2>1, FS_StrictSubsetOrderingWellFounded, WFMin
<1>3. PICK n \in S : least = 1 .. n
  BY <1>2
<1>4. ASSUME NEW m \in S, m < n PROVE FALSE
  <2>1. 1 .. m \subseteq 1 .. n /\ n \in 1 .. n /\ n \notin 1 .. m
    BY <1>4
  <2>2. <<1 .. m, 1 .. n>> \in StrictSubsetOrdering(1 .. N)
    BY <2>1, <1>4 DEF StrictSubsetOrdering
  <2>3. QED
    BY <1>2, <1>3, <2>2
<1>5. QED
  BY <1>4

--------------------------------------------------------------------------------
(* Generation. *)

\* The three indices of a turn of the loops are within the lists they index.
LEMMA TurnIndices ==
  ASSUME NEW d \in {1, 2}, NEW n \in 1 .. 9 * d
  PROVE  /\ n \in 1 .. 18
         /\ (n - 1) \div (3 * d) + 1 \in 1 .. 3
         /\ (((n - 1) \div d) % 3) + 1 \in 1 .. 3
         /\ ((n - 1) % d) + 1 \in 1 .. d
<1>1. CASE d = 1
  <2>1. n \in 1 .. 9
    BY <1>1
  <2>2. (n - 1) \div (3 * d) = (n - 1) \div 3 /\ (n - 1) \div d = n - 1
        /\ (n - 1) % d = 0
    BY <1>1, <2>1
  <2>3. QED
    BY <1>1, <2>1, <2>2
<1>2. CASE d = 2
  <2>1. n \in 1 .. 18
    BY <1>2
  <2>2. (n - 1) \div (3 * d) = (n - 1) \div 6 /\ (n - 1) \div d = (n - 1) \div 2
        /\ (n - 1) % d = (n - 1) % 2
    BY <1>2, <2>1
  <2>3. /\ (n - 1) \div 6 \in 0 .. 2
        /\ ((n - 1) \div 2) % 3 \in 0 .. 2
        /\ (n - 1) % 2 \in 0 .. 1
    BY <2>1
  <2>4. QED
    BY <1>2, <2>1, <2>2, <2>3
<1>3. QED
  BY <1>1, <1>2

\* Every point of the grid has integer amounts, its cashback within the policy.
LEMMA GridTyped ==
  ASSUME NEW deal, IsDeal(deal), NEW n \in DOMAIN Grid(deal)
  PROVE  /\ n \in 1 .. 18
         /\ Grid(deal)[n].price \in Int
         /\ Grid(deal)[n].cashback \in Int
         /\ Grid(deal)[n].cashback <= deal.policy.maxCashback
         /\ Grid(deal)[n].delivery \in {"standard", "expedited"}
         /\ Grid(deal)[n].delivery = "expedited" => deal.product.capacity > 0
<1> DEFINE d == Len(DeliverySteps(deal))
<1>1. d \in {1, 2}
  BY DEF DeliverySteps
<1>2. n \in 1 .. 9 * d
  BY DEF Grid
<1>3. /\ n \in 1 .. 18
      /\ (n - 1) \div (3 * d) + 1 \in 1 .. 3
      /\ (((n - 1) \div d) % 3) + 1 \in 1 .. 3
      /\ ((n - 1) % d) + 1 \in 1 .. d
  BY <1>1, <1>2, TurnIndices
<1>4. \A k \in 1 .. 3 : PriceSteps(deal)[k] \in Int
  BY DEF PriceSteps, IsDeal, ProductRow, PolicyRow
<1>5. \A k \in 1 .. 3 : /\ CashbackSteps(deal)[k] \in Int
                        /\ CashbackSteps(deal)[k] <= deal.policy.maxCashback
  BY DEF CashbackSteps, IsDeal, ProductRow, PolicyRow
<1>6. \A k \in 1 .. d : /\ DeliverySteps(deal)[k] \in {"standard", "expedited"}
                        /\ DeliverySteps(deal)[k] = "expedited"
                             => deal.product.capacity > 0
  BY DEF DeliverySteps
<1>7. Grid(deal)[n] =
        [price |-> PriceSteps(deal)[(n - 1) \div (3 * d) + 1],
         cashback |-> CashbackSteps(deal)[(((n - 1) \div d) % 3) + 1],
         delivery |-> DeliverySteps(deal)[((n - 1) % d) + 1]]
  BY <1>2 DEF Grid
<1> HIDE DEF d
<1>8. QED
  BY <1>3, <1>4, <1>5, <1>6, <1>7

\* The ask that is added is a positive integer price, its cashback cut to the policy's.
LEMMA AnchorTyped ==
  ASSUME NEW deal, IsDeal(deal), Anchored(deal)
  PROVE  /\ AnchorKey(deal).price = deal.intent.price
         /\ AnchorKey(deal).price \in Int
         /\ AnchorKey(deal).price >= deal.product.cost
         /\ AnchorKey(deal).cashback \in Int
         /\ AnchorKey(deal).cashback <= deal.policy.maxCashback
         /\ AnchorKey(deal).delivery \in {"standard", "expedited"}
         /\ AnchorKey(deal).delivery = "expedited" => deal.product.capacity > 0
  BY DEF AnchorKey, Anchored, ValidAnchor, IsDeal, ProductRow, PolicyRow

\* A price at or above the base price gives nothing away.
LEMMA DiscountTyped ==
  ASSUME NEW deal, IsDeal(deal), NEW price \in Int
  PROVE  Discount(deal, price) \in Nat
  BY DEF Discount, IsDeal, ProductRow

\* What a candidate is: of the grid and emitted, or the buyer's ask, which is no point
\* of the grid that was emitted.
LEMMA CandidateKey ==
  ASSUME NEW deal, IsDeal(deal), NEW n \in DOMAIN Candidates(deal)
  PROVE  /\ n \in 1 .. 19
         /\ \/ /\ n \in GridKeys(deal)
               /\ Candidates(deal)[n] = Candidate(deal, Grid(deal)[n])
            \/ /\ n = AskTurn
               /\ n \notin GridKeys(deal)
               /\ Anchored(deal)
               /\ \A k \in GridKeys(deal) : Grid(deal)[k] # AnchorKey(deal)
               /\ Candidates(deal)[n] = Candidate(deal, AnchorKey(deal))
<1>1. GridKeys(deal) \subseteq 1 .. 18
  BY GridTyped DEF GridKeys
<1>2. CASE n \in GridKeys(deal)
  BY <1>1, <1>2 DEF Candidates
<1>3. CASE n \notin GridKeys(deal)
  BY <1>3 DEF Candidates, AskTurn
<1>4. QED
  BY <1>2, <1>3

\* Every candidate is a row of integers within the bounds generation promises.
LEMMA CandidateTyped ==
  ASSUME NEW deal, IsDeal(deal), NEW n \in DOMAIN Candidates(deal)
  PROVE  LET c == Candidates(deal)[n]
         IN  /\ c \in CandidateRow
             /\ c.discount = Discount(deal, c.price)
             /\ c.price >= deal.product.cost
             /\ c.cashback <= deal.policy.maxCashback
             /\ c.delivery = "expedited" => deal.product.capacity > 0
<1>1. CASE n \in GridKeys(deal)
  <2>1. n \in DOMAIN Grid(deal) /\ Grid(deal)[n].price >= deal.product.cost
    BY <1>1 DEF GridKeys, Emitted
  <2>2. Candidates(deal)[n] = Candidate(deal, Grid(deal)[n])
    BY <1>1, CandidateKey
  <2>3. QED
    BY <2>1, <2>2, GridTyped, DiscountTyped DEF Candidate, CandidateRow
<1>2. CASE n \notin GridKeys(deal)
  <2>1. Anchored(deal) /\ Candidates(deal)[n] = Candidate(deal, AnchorKey(deal))
    BY <1>2, CandidateKey
  <2>2. QED
    BY <2>1, AnchorTyped, DiscountTyped DEF Candidate, CandidateRow
<1>3. QED
  BY <1>1, <1>2

\* No two candidates are the same, and after the first round a price the buyer turned
\* down comes back only as his own ask.
LEMMA CandidatesDiffer ==
  ASSUME NEW deal, IsDeal(deal),
         NEW n \in DOMAIN Candidates(deal), NEW k \in DOMAIN Candidates(deal)
  PROVE  /\ Candidates(deal)[n] = Candidates(deal)[k] => n = k
         /\ deal.intent.round > 1 /\ Candidates(deal)[n].price \in deal.rejected
              => Candidates(deal)[n].price = deal.intent.price
<1> DEFINE key(i) == IF i \in GridKeys(deal) THEN Grid(deal)[i] ELSE AnchorKey(deal)
<1>1. \A i \in DOMAIN Candidates(deal) : Candidates(deal)[i] = Candidate(deal, key(i))
  BY CandidateKey
<1>2. \A i \in DOMAIN Candidates(deal) :
        key(i) = [price |-> key(i).price, cashback |-> key(i).cashback,
                  delivery |-> key(i).delivery]
  BY CandidateKey DEF GridKeys, Grid, AnchorKey
<1>3. \A i, j \in DOMAIN Candidates(deal) : key(i) = key(j) => i = j
  <2> SUFFICES ASSUME NEW i \in DOMAIN Candidates(deal),
                      NEW j \in DOMAIN Candidates(deal), key(i) = key(j), i < j
               PROVE  FALSE
    BY CandidateKey
  <2>1. CASE j \in GridKeys(deal)
    <3>1. i \in GridKeys(deal)
      BY <2>1, CandidateKey, GridTyped DEF GridKeys, AskTurn
    <3>2. i \in 1 .. j - 1
      BY CandidateKey
    <3>3. QED
      BY <2>1, <3>1, <3>2 DEF GridKeys, Emitted
  <2>2. CASE j \notin GridKeys(deal)
    BY <2>2, CandidateKey
  <2>3. QED
    BY <2>1, <2>2
<1>4. QED
  <2>0. \A i \in DOMAIN Candidates(deal) :
          /\ Candidates(deal)[i].price = key(i).price
          /\ Candidates(deal)[i].cashback = key(i).cashback
          /\ Candidates(deal)[i].delivery = key(i).delivery
    BY <1>1 DEF Candidate
  <2>1. Candidates(deal)[n] = Candidates(deal)[k] => key(n) = key(k)
    <3> HIDE DEF key
    <3>1. QED
      BY <2>0, <1>2
  <2>2. CASE n \in GridKeys(deal)
    BY <2>1, <2>2, <1>1, <1>3 DEF Candidate, GridKeys, Emitted
  <2>3. CASE n \notin GridKeys(deal)
    BY <2>1, <2>3, <1>1, <1>3, CandidateKey, AnchorTyped DEF Candidate
  <2>4. QED
    BY <2>2, <2>3

\* In a first round every price that comes up on the grid comes up without cashback, for
\* standard delivery: at the first turn that has it, it is a candidate.
LEMMA PlainPoint ==
  ASSUME NEW deal, IsDeal(deal), deal.intent.round = 1, NEW n \in GridKeys(deal)
  PROVE  \E k \in GridKeys(deal) :
           Grid(deal)[k] = [price |-> Grid(deal)[n].price, cashback |-> 0,
                            delivery |-> "standard"]
<1> DEFINE d == Len(DeliverySteps(deal))
           q == (n - 1) \div (3 * d)
           turn == 3 * d * q + 1
           plain == [price |-> Grid(deal)[n].price, cashback |-> 0,
                     delivery |-> "standard"]
           turns == {k \in 1 .. 9 * d : Grid(deal)[k] = plain}
<1>1. d \in {1, 2} /\ DeliverySteps(deal)[1] = "standard"
  BY DEF DeliverySteps
<1>2. /\ n \in 1 .. 9 * d
      /\ Grid(deal)[n].price = PriceSteps(deal)[q + 1]
      /\ Grid(deal)[n].price >= deal.product.cost
  BY DEF GridKeys, Grid, Emitted
<1>3. q \in 0 .. 2
  <2>1. q + 1 \in 1 .. 3
    BY <1>1, <1>2, TurnIndices
  <2>2. q \in Int
    BY <1>1, <1>2
  <2> HIDE DEF q
  <2>3. QED
    BY <2>1, <2>2
<1>4. /\ turn \in 1 .. 9 * d
      /\ (turn - 1) \div (3 * d) = q
      /\ (((turn - 1) \div d) % 3) + 1 = 1
      /\ ((turn - 1) % d) + 1 = 1
  <2> HIDE DEF d, q
  <2>1. d = 1 \/ d = 2
    BY <1>1
  <2>2. q = 0 \/ q = 1 \/ q = 2
    BY <1>3
  <2>3. QED
    BY <2>1, <2>2
<1>5. Grid(deal)[turn] = plain
  <2>1. Grid(deal)[turn] =
          [price |-> PriceSteps(deal)[(turn - 1) \div (3 * d) + 1],
           cashback |-> CashbackSteps(deal)[(((turn - 1) \div d) % 3) + 1],
           delivery |-> DeliverySteps(deal)[((turn - 1) % d) + 1]]
    BY <1>4 DEF Grid
  <2>2. CashbackSteps(deal)[1] = 0
    BY DEF CashbackSteps
  <2> HIDE DEF turn, q, d
  <2>3. QED
    BY <1>1, <1>2, <1>4, <2>1, <2>2
<1>6. PICK k \in turns : \A m \in turns : k <= m
  <2>1. turns \in SUBSET (1 .. 9 * d)
    OBVIOUS
  <2>2. turn \in turns
    BY <1>4, <1>5
  <2>3. 9 * d \in Nat
    BY <1>1
  <2> HIDE DEF turns, turn, d
  <2>4. QED
    BY <2>1, <2>2, <2>3, LeastNumber
<1>7. k \in DOMAIN Grid(deal) /\ Emitted(deal, Grid(deal), k)
  <2>1. k \in DOMAIN Grid(deal) /\ Grid(deal)[k] = plain
    BY <1>6 DEF Grid
  <2>2. \A j \in 1 .. k - 1 : Grid(deal)[j] # Grid(deal)[k]
    BY <1>1, <1>6, <2>1
  <2>3. QED
    BY <1>2, <2>1, <2>2 DEF Emitted
<1>8. QED
  BY <1>6, <1>7 DEF GridKeys

--------------------------------------------------------------------------------
(* Policy and value. *)

\* A candidate without a first violation passes all nine checks, and the other way
\* round; a violation has the number of a check.
LEMMA FirstViolationTyped ==
  ASSUME NEW deal, NEW c
  PROVE  /\ FirstViolation(deal, c) \in 0 .. 9
         /\ FirstViolation(deal, c) = 0 <=> \A n \in 1 .. 9 : Checks(deal, c)[n]
<1> DEFINE failing == {n \in 1 .. 9 : ~Checks(deal, c)[n]}
<1>1. CASE failing = {}
  BY <1>1 DEF FirstViolation
<1>2. CASE failing # {}
  <2>1. \E n \in failing : \A m \in failing : n <= m
    BY <1>2, LeastNumber
  <2>2. FirstViolation(deal, c) =
          CHOOSE n \in failing : \A m \in failing : n <= m
    BY <1>2 DEF FirstViolation
  <2>3. FirstViolation(deal, c) \in failing
    BY <2>1, <2>2
  <2>4. QED
    BY <2>3
<1>3. QED
  BY <1>1, <1>2

\* What an offer without a violation keeps, in the order of the checks.
LEMMA FeasiblePasses ==
  ASSUME NEW deal, NEW c, FirstViolation(deal, c) = 0
  PROVE  /\ c.price >= deal.product.cost
         /\ Contribution(deal, c) >= deal.policy.marginFloor
         /\ c.discount <= deal.policy.maxDiscount
         /\ c.cashback <= deal.policy.maxCashback
         /\ BudgetAllows(deal, c)
         /\ deal.intent.quantity <= deal.product.inventory
         /\ c.delivery = "expedited" => deal.intent.quantity <= deal.product.capacity
<1>1. \A n \in 1 .. 9 : Checks(deal, c)[n]
  BY FirstViolationTyped
<1>2. Checks(deal, c)[1] /\ Checks(deal, c)[2] /\ Checks(deal, c)[3] /\ Checks(deal, c)[4]
      /\ Checks(deal, c)[5] /\ Checks(deal, c)[6] /\ Checks(deal, c)[7]
  BY <1>1
<1>3. QED
  BY <1>2 DEF Checks

\* The contribution is an integer, and the value of a candidate is one unless the
\* buyer's purse or the base price is empty.
LEMMA ValueTyped ==
  ASSUME NEW deal, IsDeal(deal), ChanceIsInteger, NEW c \in CandidateRow
  PROVE  /\ Contribution(deal, c) \in Int
         /\ deal.intent.budget # 0 /\ deal.product.base # 0 => Value(deal, c) \in Int
<1>1. Contribution(deal, c) \in Int
  BY DEF Contribution, IsDeal, ProductRow, CandidateRow
<1>2. ASSUME deal.intent.budget # 0, deal.product.base # 0
      PROVE  Value(deal, c) \in Int
  <2> DEFINE budget == deal.intent.budget
             base == deal.product.base
             most == Magnitude(budget)
             num == 5 * base * Clamp(budget - c.price, -most, most)
                      + 3 * budget * (base - c.price + c.cashback)
                      + (IF deal.intent.expedited THEN 2 * budget * base ELSE 0)
  <2>1. budget \in Int \ {0} /\ base \in Int \ {0}
    BY <1>2 DEF IsDeal, ProductRow
  <2>2. c.price \in Int /\ c.cashback \in Int
    BY DEF CandidateRow
  <2>3. Clamp(budget - c.price, -most, most) \in Int
    BY <2>1, <2>2 DEF Clamp, Magnitude
  <2>4. 2 * budget * base \in Int \ {0}
    <3> HIDE DEF budget, base
    <3>1. \A x, y \in Int \ {0} : x * y \in Int \ {0}
      OBVIOUS
    <3>2. 2 * budget \in Int \ {0}
      BY <2>1
    <3>3. QED
      BY <3>1, <3>2, <2>1
  <2>5. num \in Int
    <3> HIDE DEF budget, base
    <3>1. QED
      BY <2>1, <2>2, <2>3, <2>4
  <2>6. PConv(deal, c.price, c.cashback, deal.intent.expedited)
          = Chance(num, 2 * budget * base)
    BY DEF PConv
  <2>7. PConv(deal, c.price, c.cashback, deal.intent.expedited) \in Int
    <3> HIDE DEF num, budget, base
    <3>1. QED
      BY <2>4, <2>5, <2>6 DEF ChanceIsInteger
  <2>8. QED
    BY <1>1, <2>2, <2>7 DEF Value, ChanceIsInteger
<1>3. QED
  BY <1>1, <1>2

\* A likelier sale is worth no less than a less likely one, if it brings no loss: with
\* an increasing sigmoid, the urgency a candidate is credited with never lowers its value.
LEMMA UrgencyHelps ==
  ASSUME NEW deal, IsDeal(deal), ChanceIsInteger, ChanceIsIncreasing,
         deal.intent.budget > 0, deal.product.base > 0,
         NEW price \in Int, NEW urgent, NEW gain \in Int, gain >= 0
  PROVE  /\ PConv(deal, price, 0, FALSE) * gain \in Int
         /\ PConv(deal, price, 0, urgent) * gain \in Int
         /\ PConv(deal, price, 0, FALSE) * gain <= PConv(deal, price, 0, urgent) * gain
<1> DEFINE budget == deal.intent.budget
           base == deal.product.base
           den == 2 * budget * base
           most == Magnitude(budget)
           score == 5 * base * Clamp(budget - price, -most, most)
                      + 3 * budget * (base - price + 0)
           low == Chance(score + 0, den)
           high == Chance(score + (IF urgent THEN den ELSE 0), den)
<1>1. budget \in Int /\ base \in Int /\ budget > 0 /\ base > 0
  BY DEF IsDeal, ProductRow
<1>2. Clamp(budget - price, -most, most) \in Int
  BY <1>1 DEF Clamp, Magnitude
<1>3. PConv(deal, price, 0, FALSE) = low /\ PConv(deal, price, 0, urgent) = high
  BY DEF PConv
<1> HIDE DEF budget, base
<1>4. den \in Int /\ den > 0 /\ score \in Int
  <2>1. \A x, y \in Int : x > 0 /\ y > 0 => 2 * x * y \in Int /\ 2 * x * y > 0
    OBVIOUS
  <2>2. QED
    BY <1>1, <1>2, <2>1
<1> HIDE DEF den, score
<1>5. low \in Int /\ high \in Int /\ low <= high
  BY <1>4 DEF ChanceIsInteger, ChanceIsIncreasing
<1> HIDE DEF low, high
<1>6. \A x, y, z \in Int :
        /\ x * z \in Int
        /\ x <= y /\ z >= 0 => x * z <= y * z
  OBVIOUS
<1>7. QED
  BY <1>3, <1>5, <1>6

--------------------------------------------------------------------------------
(* Selection. *)

\* Ids are told apart by their place in string order.
LEMMA IdOrderInjective ==
  ASSUME NEW i \in Nat, NEW j \in Nat
  PROVE  /\ IdOrder(i) \in Int
         /\ IdOrder(i) = IdOrder(j) => i = j
<1>1. i = 10 * (i \div 10) + (i % 10) /\ i % 10 \in 0 .. 9 /\ i \div 10 \in Int
  OBVIOUS
<1>2. j = 10 * (j \div 10) + (j % 10) /\ j % 10 \in 0 .. 9 /\ j \div 10 \in Int
  OBVIOUS
<1>3. QED
  BY <1>1, <1>2 DEF IdOrder

\* Offers with finitely many turns, integers where they are compared.
OffersTyped(offers) ==
  /\ DOMAIN offers \subseteq 1 .. 19
  /\ \A n \in Feasible(offers) :
       /\ offers[n].eov \in Int
       /\ offers[n].contribution \in Int
       /\ offers[n].price \in Int

\* There are finitely many candidates.
LEMMA FinitelyMany ==
  ASSUME NEW offers, OffersTyped(offers), NEW S \in SUBSET DOMAIN offers
  PROVE  IsFiniteSet(S) /\ Cardinality(S) \in Nat
<1>1. S \in SUBSET Nat /\ \A n \in S : n <= 19
  BY DEF OffersTyped
<1>2. IsFiniteSet(S)
  BY <1>1, FS_BoundedSetOfNaturals
<1>3. QED
  BY <1>2, FS_CardinalityType

\* No two candidates have one id.
LEMMA IdsDiffer ==
  ASSUME NEW offers, OffersTyped(offers),
         NEW m \in DOMAIN offers, NEW n \in DOMAIN offers, m # n
  PROVE  /\ IdNumber(offers, m) \in Nat
         /\ IdNumber(offers, m) # IdNumber(offers, n)
<1> DEFINE upTo(k) == {i \in DOMAIN offers : i <= k}
<1>2. \A k : IsFiniteSet(upTo(k)) /\ Cardinality(upTo(k)) \in Nat
  BY FinitelyMany
<1>3. \A k, l \in DOMAIN offers :
        k < l => upTo(k) \subseteq upTo(l) /\ upTo(k) # upTo(l)
  BY DEF OffersTyped
<1>4. \A k, l \in DOMAIN offers : k < l => Cardinality(upTo(k)) # Cardinality(upTo(l))
  BY <1>2, <1>3, FS_Subset
<1>5. m < n \/ n < m
  BY DEF OffersTyped
<1>6. QED
  BY <1>2, <1>4, <1>5 DEF IdNumber

KeyRow == Int \X Int \X Int \X Int

\* Tuple order, written out.
LEMMA BeforeMeaning ==
  ASSUME NEW s \in KeyRow, NEW t \in KeyRow
  PROVE  Before(s, t) <=>
           \/ s[1] < t[1]
           \/ s[1] = t[1] /\ s[2] < t[2]
           \/ s[1] = t[1] /\ s[2] = t[2] /\ s[3] < t[3]
           \/ s[1] = t[1] /\ s[2] = t[2] /\ s[3] = t[3] /\ s[4] < t[4]
<1>1. 1 .. 4 = {1, 2, 3, 4}
  OBVIOUS
<1>2. \A n \in 1 .. 4 :
        (\A m \in 1 .. n - 1 : s[m] = t[m]) <=>
          \/ n = 1
          \/ n = 2 /\ s[1] = t[1]
          \/ n = 3 /\ s[1] = t[1] /\ s[2] = t[2]
          \/ n = 4 /\ s[1] = t[1] /\ s[2] = t[2] /\ s[3] = t[3]
  <2>1. 1 .. 1 - 1 = {} /\ 1 .. 2 - 1 = {1} /\ 1 .. 3 - 1 = {1, 2}
        /\ 1 .. 4 - 1 = {1, 2, 3}
    OBVIOUS
  <2>2. QED
    BY <1>1, <2>1
<1>3. QED
  BY <1>1, <1>2 DEF Before

\* It is a strict total order.
LEMMA BeforeIsAnOrder ==
  ASSUME NEW s \in KeyRow, NEW t \in KeyRow, NEW u \in KeyRow
  PROVE  /\ ~Before(s, s)
         /\ Before(s, t) /\ Before(t, u) => Before(s, u)
         /\ s[4] # t[4] => Before(s, t) \/ Before(t, s)
<1>1. \A v \in KeyRow : v[1] \in Int /\ v[2] \in Int /\ v[3] \in Int /\ v[4] \in Int
  BY DEF KeyRow
<1>2. QED
  BY <1>1, BeforeMeaning

\* The sort key of a feasible offer: value and contribution negated, price, place of the id.
LEMMA SortKeyTyped ==
  ASSUME NEW offers, OffersTyped(offers), NEW n \in Feasible(offers)
  PROVE  /\ SortKey(offers, n) \in KeyRow
         /\ SortKey(offers, n) = <<-offers[n].eov, -offers[n].contribution,
                                  offers[n].price, IdOrder(IdNumber(offers, n))>>
<1>1. n \in DOMAIN offers
  BY DEF Feasible
<1>2. IdNumber(offers, n) \in Nat
  BY FinitelyMany DEF IdNumber
<1>3. QED
  BY <1>1, <1>2, IdOrderInjective DEF SortKey, KeyRow, OffersTyped

\* The order of the candidates that selection uses.
Ahead(offers, i, j) == Before(SortKey(offers, i), SortKey(offers, j))

\* It is a strict total order: no two feasible offers tie, their ids differ.
LEMMA AheadIsAnOrder ==
  ASSUME NEW offers, OffersTyped(offers), NEW i \in Feasible(offers),
         NEW j \in Feasible(offers), NEW k \in Feasible(offers)
  PROVE  /\ ~Ahead(offers, i, i)
         /\ Ahead(offers, i, j) /\ Ahead(offers, j, k) => Ahead(offers, i, k)
         /\ i # j => Ahead(offers, i, j) \/ Ahead(offers, j, i)
<1>1. \A n \in {i, j, k} : SortKey(offers, n) \in KeyRow
  BY SortKeyTyped
<1>2. ASSUME i # j PROVE SortKey(offers, i)[4] # SortKey(offers, j)[4]
  <2>1. i \in DOMAIN offers /\ j \in DOMAIN offers
    BY DEF Feasible
  <2>2. /\ IdNumber(offers, i) \in Nat /\ IdNumber(offers, j) \in Nat
        /\ IdNumber(offers, i) # IdNumber(offers, j)
    BY <1>2, <2>1, IdsDiffer
  <2>3. IdOrder(IdNumber(offers, i)) # IdOrder(IdNumber(offers, j))
    BY <2>2, IdOrderInjective
  <2>4. QED
    BY <2>3, SortKeyTyped
<1>3. QED
  BY <1>1, <1>2, BeforeIsAnOrder DEF Ahead

\* Feasible candidates have a first one: of those ahead of each there is a least set,
\* and it is empty.
THEOREM BestExists ==
  ASSUME NEW offers, OffersTyped(offers), Feasible(offers) # {}
  PROVE  /\ SelectBest(offers) \in Feasible(offers)
         /\ \A j \in Feasible(offers) \ {SelectBest(offers)} :
              Before(SortKey(offers, SelectBest(offers)), SortKey(offers, j))
<1> DEFINE F == Feasible(offers)
           ahead(i) == {j \in F : Ahead(offers, j, i)}
           sets == {ahead(i) : i \in F}
<1>1. IsFiniteSet(F)
  BY FinitelyMany DEF Feasible
<1>2. sets \subseteq FiniteSubsetsOf(F) /\ sets # {}
  <2>1. \A i \in F : ahead(i) \in SUBSET F
    OBVIOUS
  <2>2. sets \subseteq SUBSET F /\ sets # {}
    BY <2>1
  <2>3. QED
    BY <1>1, <2>2, FS_FiniteSubsetsOfFinite
<1>3. PICK least \in sets : \A smaller \in sets :
        <<smaller, least>> \notin StrictSubsetOrdering(F)
  BY <1>2, FS_StrictSubsetOrderingWellFounded, WFMin
<1>4. PICK i \in F : least = ahead(i)
  BY <1>3
<1>5. ahead(i) = {}
  <2> SUFFICES ASSUME NEW j \in ahead(i)
               PROVE  FALSE
    OBVIOUS
  <2>1. ahead(j) \subseteq ahead(i) /\ j \notin ahead(j)
    BY AheadIsAnOrder
  <2>2. <<ahead(j), ahead(i)>> \in StrictSubsetOrdering(F)
    BY <2>1 DEF StrictSubsetOrdering
  <2>3. QED
    BY <1>3, <1>4, <2>2
<1>6. \A j \in F \ {i} : Ahead(offers, i, j)
  BY <1>5, AheadIsAnOrder
<1>7. \E k \in F : \A j \in F \ {k} : Ahead(offers, k, j)
  BY <1>6
<1>8. QED
  BY <1>7 DEF SelectBest, Ahead

--------------------------------------------------------------------------------
(* The pipeline. *)

\* An offer is its candidate with the verdicts of policy and value; the offers of a deal
\* that can be computed are integers wherever they are compared.
LEMMA RunOffers ==
  ASSUME NEW deal, IsDeal(deal), ChanceIsInteger, Computable(deal)
  PROVE  LET run == RunPipeline(deal)
         IN  /\ DOMAIN run.offers = DOMAIN Candidates(deal)
             /\ \A n \in DOMAIN run.offers :
                  run.offers[n] = Offer(deal, Candidates(deal)[n])
             /\ OffersTyped(run.offers)
             /\ run.selected = SelectBest(run.offers)
             /\ run.action = Action(deal, run.offers, run.selected)
<1> DEFINE run == RunPipeline(deal)
<1>1. /\ run.offers = [n \in DOMAIN Candidates(deal) |-> Offer(deal, Candidates(deal)[n])]
      /\ run.selected = SelectBest(run.offers)
      /\ run.action = Action(deal, run.offers, run.selected)
  BY DEF RunPipeline
<1>2. DOMAIN run.offers \subseteq 1 .. 19
  BY <1>1, CandidateKey
<1>3. ASSUME NEW n \in Feasible(run.offers)
      PROVE  /\ run.offers[n].eov \in Int
             /\ run.offers[n].contribution \in Int
             /\ run.offers[n].price \in Int
  <2> DEFINE c == Candidates(deal)[n]
  <2>1. n \in DOMAIN Candidates(deal) /\ run.offers[n] = Offer(deal, c)
    BY <1>1, <1>3 DEF Feasible
  <2>2. FirstViolation(deal, c) = 0
    BY <1>3, <2>1 DEF Feasible, Offer
  <2>3. deal.intent.budget # 0 /\ deal.product.base # 0
    BY <2>1, <2>2 DEF Computable
  <2>4. c \in CandidateRow
    BY <2>1, CandidateTyped
  <2>5. Value(deal, c) \in Int /\ Contribution(deal, c) \in Int
    BY <2>3, <2>4, ValueTyped
  <2>6. QED
    BY <2>1, <2>2, <2>4, <2>5 DEF Offer, CandidateRow
<1>4. QED
  BY <1>1, <1>2, <1>3 DEF OffersTyped

\* Nothing is selected exactly if nothing is feasible; what is selected is feasible and
\* ahead of all other feasible offers.
LEMMA RunSelects ==
  ASSUME NEW deal, IsDeal(deal), ChanceIsInteger, Computable(deal)
  PROVE  LET run == RunPipeline(deal)
         IN  /\ run.selected = 0 <=> Feasible(run.offers) = {}
             /\ run.selected # 0 =>
                  /\ run.selected \in Feasible(run.offers)
                  /\ run.selected \in DOMAIN run.offers
                  /\ \A n \in Feasible(run.offers) \ {run.selected} :
                       Ahead(run.offers, run.selected, n)
<1> DEFINE run == RunPipeline(deal)
<1>1. OffersTyped(run.offers) /\ run.selected = SelectBest(run.offers)
  BY RunOffers
<1>2. Feasible(run.offers) \subseteq DOMAIN run.offers /\ 0 \notin DOMAIN run.offers
  BY <1>1 DEF Feasible, OffersTyped
<1>3. CASE Feasible(run.offers) = {}
  BY <1>1, <1>3 DEF SelectBest
<1>4. CASE Feasible(run.offers) # {}
  BY <1>1, <1>2, <1>4, BestExists DEF Ahead
<1>5. QED
  BY <1>3, <1>4

\* The first of the feasible offers is worth at least as much as each, and of those worth
\* the same contributes at least as much, and of those is not the dearer.
LEMMA AheadIsBetter ==
  ASSUME NEW offers, OffersTyped(offers), NEW i \in Feasible(offers),
         NEW j \in Feasible(offers), Ahead(offers, i, j)
  PROVE  /\ offers[j].eov <= offers[i].eov
         /\ offers[j].eov = offers[i].eov =>
              /\ offers[j].contribution <= offers[i].contribution
              /\ offers[j].contribution = offers[i].contribution
                   => offers[i].price <= offers[j].price
<1> DEFINE s == SortKey(offers, i)
           t == SortKey(offers, j)
<1>1. s \in KeyRow /\ t \in KeyRow
  BY SortKeyTyped
<1>2. /\ s[1] = -offers[i].eov /\ s[2] = -offers[i].contribution /\ s[3] = offers[i].price
      /\ t[1] = -offers[j].eov /\ t[2] = -offers[j].contribution /\ t[3] = offers[j].price
  BY SortKeyTyped
<1>3. \/ s[1] < t[1]
      \/ s[1] = t[1] /\ s[2] < t[2]
      \/ s[1] = t[1] /\ s[2] = t[2] /\ s[3] < t[3]
      \/ s[1] = t[1] /\ s[2] = t[2] /\ s[3] = t[3] /\ s[4] < t[4]
  BY <1>1, BeforeMeaning DEF Ahead
<1> HIDE DEF s, t
<1>4. QED
  BY <1>2, <1>3 DEF OffersTyped

================================================================================
