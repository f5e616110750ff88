CONSTANTS
  g1 = g1
  g2 = g2
  c1 = c1
  q = q
  e1 = e1
  e2 = e2
  e3 = e3
  r1 = r1
  r2 = r2
  m1 = m1
  m2 = m2
  vendor = vendor
  NoEngine = NoEngine
  Nobody = Nobody
  NoBuild = NoBuild
  Gateways = {g1, g2}
  Callers = {c1, q}
  Judge = q
  Members <- TwoMembers
  Threshold = 2
  Engines = {e1, e3}
  Requests = {r1, r2}
  Verdicts = {"allow", "deny"}
  Measurements = {m1, m2}
  Signers = {}
  MeasurementOf <- Measures
  SignerOf <- Unsigned
  RootOf <- Anchors
  TcbOf <- Patches
  VerdictOf <- Judges
  HashOf <- Hashed
  WellFormed = {r1, r2}
  Denial = "deny"
  Roots = {vendor}
  MinTCB = 1
  MaxAge = 1
  HostileChannel = FALSE
  MaxCalls = 5
  MaxTime = 1
CONSTRAINT EndorsedFirst
SPECIFICATION QSpec
INVARIANTS
  AgreementIsUnanimous
  UndisturbedAgreementIsDiverse
  UndisturbedAlarmIsTrue
  RefusalsAreJustified
CHECK_DEADLOCK FALSE
