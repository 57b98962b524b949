\* Two requests, over two keys, for one escalated or plain decision of one of two
\* merchants, that may expire.
SPECIFICATION Spec
CONSTANTS
  Merchants = {m1, m2}
  IntentReqs = {d1}
  PayReqs = {r1, r2}
  Keys = {k1, k2}
  Terms <- MCTerms
  Amounts <- MCAmounts
  NoTerms = NoTerms
  NoRow = NoRow
  NoOrder = NoOrder
  SimOrder = SimOrder
  OfferTtl = 0
  MaxTime = 1
SYMMETRY Symmetry
INVARIANTS
  TypeOK
  OneRowPerKey
  ServerDerivedAmount
  OnlyPayableIsCharged
  AcknowledgedIsRecorded
  RowMatchesRazorpay
PROPERTIES
  ImplementsBook
