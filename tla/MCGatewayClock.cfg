CONSTANTS
  g1 = g1
  g2 = g2
  c1 = c1
  c2 = c2
  c3 = c3
  e1 = e1
  e2 = e2
  e3 = e3
  r1 = r1
  r2 = r2
  r3 = r3
  m1 = m1
  m2 = m2
  s1 = s1
  vendor = vendor
  forger = forger
  NoEngine = NoEngine
  Nobody = Nobody
  NoBuild = NoBuild
  Gateways = {g1}
  Callers = {c1}
  Engines = {e1}
  Requests = {r1}
  Verdicts = {"allow", "deny"}
  Measurements = {m1}
  Signers = {}
  MeasurementOf <- Measures
  SignerOf <- Signs
  RootOf <- Anchors
  TcbOf <- Patches
  VerdictOf <- Judges
  HashOf <- Hashed
  WellFormed <- Sound
  Denial = "deny"
  Roots = {vendor}
  MinTCB = 1
  MaxAge = 1
  HostileChannel = FALSE
  MaxCalls = 2
  MaxTime = 4
SPECIFICATION Spec
INVARIANTS
  ClockCannotProlong
CHECK_DEADLOCK FALSE
