\* Every arrangement of up to four rules out of seven.
SPECIFICATION Spec
CONSTANTS
  RuleChoices <- MCRuleChoices
  Contexts <- MCContexts
  MaxRules = 4
  MaxAmount = 2000
  Precision = 512
PROPERTIES
  OrderIsIrrelevant
  RulesOnlyAdd
