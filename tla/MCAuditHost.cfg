CONSTANTS
  e1 = e1
  NoBlob = NoBlob
  Noise = Noise
  Instances <- OneInstance
  HostTampers = TRUE
  MaxDecisions = 2
  MaxCounter = 3
  MaxLaunches = 2
SPECIFICATION Spec
INVARIANTS
  LogCounterAgrees
  CheckpointCountersUnique
  AuditExactlyOne
  ResealedWasCutShort
  GrowthUnlessResealed
PROPERTIES
  OpenCoversPublished
