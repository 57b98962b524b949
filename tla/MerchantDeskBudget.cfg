\* Two messages to a merchant whose budget has room for one of them.
SPECIFICATION Spec
CONSTANTS
  i1 = i1
  i2 = i2
  Merchants = {"hero", "generous", "odd", "broke", "spender", "nobody"}
  IntentReqs = {i1, i2}
  ApprovalReqs = {a1, a2}
  OutcomeReqs = {o1}
  PolicyOf <- MCPolicyOf
  ProductOf <- MCProductOf
  Deployments <- BudgetDeployments
  ClaudeReplies <- MCClaudeReplies
  Predictions <- MCPredictions
  RejectedPriceSets <- MCRejectedPriceSets
  Terms <- TermsRow
  NoTerms = NoTerms
  NoRow = NoRow
  None = None
  Scale = 1000
  Chance <- MCChance
PROPERTIES
  BudgetCountsCommitments
