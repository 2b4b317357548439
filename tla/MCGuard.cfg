SPECIFICATION HistorySpec
CONSTANTS
  r1 = r1
  r2 = r2
  r3 = r3
  r4 = r4
  Sessions = {s1, s2}
  Ids = {r1, r2, r3, r4}
  Seeds = {r1, r2}
  Data = {d1, d2}
  MaxRows = 1
  NoRow = NoRow
  None = None
SYMMETRY Interchangeable
INVARIANTS
  TypeOK
  NoForks
  NoMutualSupersession
  SerialChainsEnd
PROPERTIES
  CommittedRowsStand
