SPECIFICATION Spec
CONSTANTS
  LastUpdate = 6
  MaxLive = 2
  Inputs = {"text", "evt", "date", "confirm", "cancel"}
  PickerSize = 2
  Updates <- MCUpdates
  Seeds <- MCSeeds
  SeedRow <- MCSeedRow
  Me = me
  mama = mama
  Omitted = Omitted
  NoRow = NoRow
  None = None
INVARIANTS
  EndedSessionsLeaveNothing
