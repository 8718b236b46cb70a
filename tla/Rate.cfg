SPECIFICATION FairSpec
CONSTANTS
  Tracks <- MCTracks
  Scales <- MCScales
  Modulus = 4096
INVARIANTS TypeOK SamplesComplete TimesRight AbsentNoRate StreamOpen
CHECK_DEADLOCK FALSE
PROPERTY RateRight
