SPECIFICATION Spec
CONSTANTS
  c1 = c1
  c2 = c2
  s1 = s1
  erick = erick
  mama = mama
  Calls = {c1, c2}
  Seeds = {s1}
  SeedRow <- MCSeedRow
  Authors = {erick}
  Chats = {erick, mama}
  Movements <- MCMovements
  FirstDay <- MCFirstDay
  Typed <- MCTyped
  Start <- MCStart
  End <- MCEnd
  Omitted = Omitted
  NoRow = NoRow
  None = None
INVARIANTS
  TypeOK
  HoyIsAccepted
  EntriesShownOnce
  TableIsSummed
PROPERTIES
  BalanceMovesByTheDifference
  RepaymentSettles
  MonthJustEnded
