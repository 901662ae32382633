\* Every file of the instance, and every request against what it loads.
SPECIFICATION Spec
CONSTANTS
  Documents <- MCDocuments
  Contexts <- MCContexts
INVARIANTS
  AcceptedRulesRun
  MatchesHaveEvidence
  AuditIdsNameOneRule
\* A program whose rule file is refused stops.
CHECK_DEADLOCK FALSE
