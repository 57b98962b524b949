\* Two deliveries about two attempts to pay one order, handled at the same time.
SPECIFICATION Spec
CONSTANTS
  Merchants = {m1}
  IntentReqs = {d1}
  PayReqs = {r1}
  Keys = {k1}
  Terms = {t1}
  Amounts <- MCAmounts
  NoTerms = NoTerms
  NoRow = NoRow
  NoOrder = NoOrder
  SimOrder = SimOrder
  NoId = NoId
  HookReqs = {h1, h2}
  Attempts = {p1, p2}
PROPERTIES
  SettledIsFinal
