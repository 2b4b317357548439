SPECIFICATION Spec
CONSTANTS
  LastUpdate = 6
  MaxLive = 2
  Inputs = {"corregir", "pick", "scope", "evt", "text", "date", "confirm", "cancel"}
  PickerSize = 2
  Updates <- MCUpdates
  Seeds <- MCSeeds
  SeedRow <- MCSeedRow
  Me = me
  mama = mama
  Omitted = Omitted
  NoRow = NoRow
  None = None
INVARIANTS
  TypeOK
  RecordedAsSummarized
  OneRowPerSummary
  RefusalsAreDeserved
  AsksForTheScope
