SPECIFICATION FairSpec
CONSTANTS
  LastUpdate = 7
  MaxLive = 1
  Inputs = {"text", "datetext", "corregir", "pick", "scope", "evt", "date", "otra", "confirm", "cancel", "continue", "switch"}
  PickerSize = 2
  Updates <- MCUpdates
  Seeds <- MCSeeds
  SeedRow <- MCSeedRow
  Me = me
  mama = mama
  Omitted = Omitted
  NoRow = NoRow
  None = None
PROPERTIES
  ProcessingEnds
