\* Two intents competing for the lock, two approvals of two merchants.
SPECIFICATION Spec
CONSTANTS
  Merchants = {m1, m2}
  IntentReqs = {i1, i2}
  ApprovalReqs = {a1, a2}
  Terms = {t1}
  NoTerms = NoTerms
  NoRow = NoRow
  OfferTtl = 1
  MaxTime = 1
SYMMETRY Symmetry
INVARIANTS
  TypeOK
  LockHeldByItsTransaction
  IntentIsAtomic
  StateIsOnRecord
  AuthorizationsAreTheOwners
PROPERTIES
  HistoryIsKept
  ImplementsLedger
