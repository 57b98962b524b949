\* Two approvals of one decision, a payment request for it, a delivery, fair handlers.
SPECIFICATION FairServiceSpec
CONSTANTS
  Merchants = {m1}
  IntentReqs = {i1}
  ApprovalReqs = {a1, a2}
  PayReqs = {r1}
  HookReqs = {h1}
  Attempts = {p1}
  Keys = {k1}
  Terms <- MCTerms
  Amounts <- MCAmounts
  NoTerms = NoTerms
  NoRow = NoRow
  NoOrder = NoOrder
  SimOrder = SimOrder
  NoId = NoId
  OfferTtl = 0
  MaxTime = 1
INVARIANTS
  ServiceTypeOK
  NoChargeBeforeApproval
  CapturedIsTraceable
  CapturedIsOwed
PROPERTIES
  NegotiatesInContext
  PaysInContext
  ReportsInContext
  ImplementsSale
  EveryRequestEnds
