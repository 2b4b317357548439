SPECIFICATION Spec
CONSTANTS
  Calls = {c1, c2, c3}
  Seeds = {s1}
  Keys = {k0, k1, k2}
  Persons = {erick, mama}
  Heads = {h1, h2}
  Bodies = {b1, b2}
  SeedRow <- MCSeedRow
  Requests <- MCRequests
  Omitted = Omitted
  NoRow = NoRow
  None = None
  s1 = s1
  s2 = s2
  erick = erick
  mama = mama
  k0 = k0
  k1 = k1
  k2 = k2
  k3 = k3
  h1 = h1
  h2 = h2
  b1 = b1
  b2 = b2
SYMMETRY Symmetric
INVARIANTS
  TypeOK
  ExactlyOnce
  VersionsPairUp
  FlipIsAdmissible
  ReplyMatchesRequest
  RetryNeverRefused
  BalanceCountsEntriesOnce
  IInv
PROPERTIES
  AppendOnly
  ImplementsAbstractLedger
