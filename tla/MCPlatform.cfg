SPECIFICATION Spec
CONSTANTS
  h1 = h1
  h2 = h2
  p1 = p1
  p2 = p2
  Hashers = {h1, h2}
  Texts <- MCTexts
  Numbers <- MCNumbers
  Lists <- MCLists
  Digests <- MCDigests
  UintOctets = 2
  Budgets <- MCBudgets
  Domains <- MCDomains
  Platforms = {p1, p2}
  Images <- MCImages
  CounterNames = {"log", "other"}
  Statements <- MCStatements
  TcbOf <- MCTcb
SYMMETRY Interchangeable
CHECK_DEADLOCK FALSE
INVARIANTS
  EncodingsAreInjective
  UnsealDecides
  CountersCount
  SignatureMeansStatement
