SPECIFICATION ASpec
CONSTANTS
  Callers = {c1, c2}
  Names <- MCNames
  TooLong <- MCTooLong
  MaxRules = 5
  MaxList = 2
  Bundles <- MCBundles
  Requests <- MCRequests
  Unparsable = Unparsable
  MaxDecisions <- MCMaxDecisions
CHECK_DEADLOCK FALSE
INVARIANTS
  TypeOK
  DenyOverrides
  RuleIDAttributes
  NoDeadRule
  NoSensitiveDataFromPublic
  SensitiveGrantsAreMasked
  BetterSignalsKeepAccess
  EqualHashEqualVerdict
  ConcurrentAppendsChain
  UnracedEntriesReplay
