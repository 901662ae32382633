\* Costs that add up past the numbers floats are exact for, in another order.
SPECIFICATION Spec
CONSTANTS
  RuleChoices <- MCRuleChoices
  Contexts <- MCContexts
  MaxRules = 3
  MaxAmount = 2000
  Precision = 512
PROPERTIES
  OrderCannotInfluenceAmounts
