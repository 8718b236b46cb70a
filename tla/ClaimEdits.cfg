SPECIFICATION OpenSpec
CONSTANTS
  Files <- WholeFiles
  MaxNest = 20
  MaxTracks = 4
  MaxEntries = 8
INVARIANT EditsOfTrack
CHECK_DEADLOCK FALSE
