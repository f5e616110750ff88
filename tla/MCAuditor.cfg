CONSTANTS
  Decisions = {1, 2}
  MaxEntries = 2
  Enclave = 1
  Other = 0
SPECIFICATION Spec
INVARIANTS
  VerifyDecidesHistory
  AppendOnlyDecidesGrowth
CHECK_DEADLOCK FALSE
