\* Two requests with one key, at once or one after the other.
SPECIFICATION Spec
CONSTANTS
  Merchants = {m1}
  IntentReqs = {d1}
  PayReqs = {r1, r2}
  Keys = {k1}
  Terms <- MCOneTerms
  Amounts <- MCAmounts
  NoTerms = NoTerms
  NoRow = NoRow
  NoOrder = NoOrder
  SimOrder = SimOrder
  OfferTtl = 0
  MaxTime = 0
INVARIANTS
  OneOrderPerKey
