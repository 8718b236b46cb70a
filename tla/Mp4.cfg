SPECIFICATION FairOpenSpec
CONSTANTS
  Files <- AllFiles
  MaxNest = 20
  MaxTracks = 4
  MaxEntries = 8
INVARIANTS OpenTypeOK NestKept SizesFirst DamageRefused TimesRight LateEditsOfTrack
CHECK_DEADLOCK FALSE
PROPERTY OpenedRight
