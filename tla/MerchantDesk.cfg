\* The hero scenario and the boundaries around it; all contexts and replies; two messages.
SPECIFICATION Spec
CONSTANTS
  i1 = i1
  i2 = i2
  Merchants = {"hero", "generous", "odd", "broke", "spender", "nobody"}
  IntentReqs = {i1, i2}
  ApprovalReqs = {a1, a2}
  OutcomeReqs = {o1}
  PolicyOf <- MCPolicyOf
  ProductOf <- MCProductOf
  Deployments <- MCDeployments
  ClaudeReplies <- MCClaudeReplies
  Predictions <- MCPredictions
  RejectedPriceSets <- MCRejectedPriceSets
  Terms <- TermsRow
  NoTerms = NoTerms
  NoRow = NoRow
  None = None
  Scale = 1000
  Chance <- MCChance
INVARIANTS
  TypeOK
  CandidatesAreBounded
  OfferKeepsPolicy
  WinnerIsBest
  AskIsHeard
  GateIsThreshold
  ViewsAgree
  MerchantsAreIsolated
  ProposalIsGenuine
  EconexBeatsCompliantBaselines
PROPERTIES
  TablesImplementLedger
