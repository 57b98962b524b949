\* One escalated decision, and two requests ruling on it at the same time.
SPECIFICATION Spec
CONSTANTS
  Merchants = {m1}
  IntentReqs = {i1}
  ApprovalReqs = {a1, a2}
  Terms = {t1}
  NoTerms = NoTerms
  NoRow = NoRow
  OfferTtl = 1
  MaxTime = 0
PROPERTIES
  ClosedIsFinal
