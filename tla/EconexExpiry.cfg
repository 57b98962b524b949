\* One approved decision, paid for by one request, over three ticks.
SPECIFICATION ServiceSpec
CONSTANTS
  Merchants = {m1}
  IntentReqs = {i1}
  ApprovalReqs = {a1}
  PayReqs = {r1}
  HookReqs = {}
  Attempts = {}
  Keys = {k1}
  Terms <- MCTerms
  Amounts <- MCAmounts
  NoTerms = NoTerms
  NoRow = NoRow
  NoOrder = NoOrder
  SimOrder = SimOrder
  NoId = NoId
  OfferTtl = 1
  MaxTime = 2
INVARIANTS
  ExpiryRunsFromAuthorization
