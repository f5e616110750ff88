CONSTANTS
  e1 = e1
  NoBlob = NoBlob
  Noise = Noise
  Instances <- OneInstance
  HostTampers = FALSE
  MaxDecisions = 2
  MaxCounter = 3
  MaxLaunches = 3
SPECIFICATION FairSpec
INVARIANTS
  TypeOK
  HonestStoreOpens
  OneKeyAppendOnly
PROPERTIES
  LagReportedExactly
  LogReopens
  ImplementsAppendOnlyHistory
